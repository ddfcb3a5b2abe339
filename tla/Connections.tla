----------------------------- MODULE Connections -----------------------------
(***************************************************************************)
(* One worker process: its event loop (ngx_event.c, ngx_epoll_module.c),   *)
(* its pool of connection structures (ngx_connection.c), accepting clients *)
(* (ngx_event_accept.c) and the life of an http connection from one        *)
(* handler to the next (ngx_http_request.c), with the counters of the      *)
(* status page.  Handlers are functions on the state w of the worker, as   *)
(* they call one another; what a handler does is one step.                 *)
(*                                                                         *)
(* epoll is edge triggered for clients and servers.  A request is two      *)
(* halves of input.  Allocations succeed, a response is written at once,   *)
(* and connections are neither SSL nor HTTP/2.                             *)
(***************************************************************************)
EXTENDS Integers, SequencesExt, FiniteSetsExt

CONSTANTS
    Conn,       \* the connection structures of the worker
    Listener,   \* the one of the listening socket
    NoConn,
    Fraction,   \* 8 in the code: the share of free structures to keep
    MaxClients, \* clients that come (bound)
    MaxHalves,  \* halves of requests the clients send (bound)
    MaxFaults   \* times accept() finds no file descriptor (bound)

VARIABLES
    w,      \* the worker
    world   \* [backlog, clients, halves, faults, quit]

vars == <<w, world>>

\* A structure: its read handler, rev->instance, timer_set, ready and
\* pending_eof, c->idle, the halves in the header buffer, the connection at the
\* other end of a proxied request, the counter the request is in, and the
\* socket: unread halves, the end of input, and an edge epoll
\* has not reported.  life is history: the uses of the structure, modulo 4.
Blank ==
    [h |-> "free", inst |-> 0, life |-> 0, timer |-> FALSE, ready |-> FALSE,
     pending_eof |-> FALSE, idle |-> FALSE, buf |-> 0, mate |-> NoConn,
     stat |-> "none", in |-> 0, eof |-> FALSE, edge |-> FALSE]

Open(s) == {c \in Conn : s.conn[c].h \notin {"free", "listen"}}
Clients(s) == {c \in Open(s) : s.conn[c].h # "upstream"}
Timers(s) == {c \in Conn : s.conn[c].timer}

Init ==
    /\ \E mutexed \in BOOLEAN :
        w = [conn |-> [c \in Conn |->
                        IF c = Listener THEN [Blank EXCEPT !.h = "listen"] ELSE Blank],
             free |-> SetToSeq(Conn \ {Listener}), reusable |-> <<>>,
             batch |-> <<>>, posted |-> <<>>, posted_accept |-> FALSE,
             stage |-> "top", got |-> NoConn,
             use_accept_mutex |-> mutexed, held |-> FALSE, owner |-> FALSE,
             accept_disabled |-> 0, listening |-> ~mutexed, post |-> FALSE,
             exiting |-> FALSE, misled |-> FALSE, refused |-> 0,
             stat |-> [accepted |-> 0, handled |-> 0, active |-> 0,
                       reading |-> 0, writing |-> 0, waiting |-> 0]]
    /\ world = [backlog |-> 0, clients |-> 0, halves |-> 0, faults |-> 0, quit |-> FALSE]

-----------------------------------------------------------------------------
(* ngx_connection.c: the pool and the queue of reusable connections.       *)

\* ngx_reusable_connection
Reusable(s, c, on) ==
    LET was == Contains(s.reusable, c)
        rest == SelectSeq(s.reusable, LAMBDA d : d # c)
    IN  [s EXCEPT !.reusable = IF on THEN <<c>> \o rest ELSE rest,
                  !.stat.waiting = @ - (IF was THEN 1 ELSE 0) + (IF on THEN 1 ELSE 0)]

\* ngx_close_connection with ngx_free_connection: the timer, the posted event
\* and the place in the queue go with it.
CloseConnection(s, c) ==
    [Reusable(s, c, FALSE) EXCEPT
        !.conn[c] = [Blank EXCEPT !.inst = s.conn[c].inst, !.life = s.conn[c].life],
        !.posted = SelectSeq(@, LAMBDA d : d # c),
        !.free = <<c>> \o @]

\* ngx_http_close_connection
CloseClient(s, c) == [CloseConnection(s, c) EXCEPT !.stat.active = @ - 1]

\* ngx_drain_connections, its handlers seeing c->close: the least recently used
\* go first.
Drain(s) ==
    LET n == Max({Min({32, Len(s.reusable) \div Fraction}), 1})
    IN  FoldLeft(LAMBDA t, i : IF t.reusable = <<>> THEN t
                               ELSE CloseClient(t, Last(t.reusable)),
                 s, [i \in 1..n |-> i])

\* rev->instance = !instance
NextInstance(inst) == 1 - inst

\* ngx_get_connection: s.got is the structure, or none.  One whose timer is
\* still in the tree (the listener's, see CloseListening) is zeroed with it and
\* the tree is torn: the model stops there.
GetConnection(s) ==
    LET t == IF s.free = <<>> THEN Drain(s) ELSE s
        c == Head(t.free)
        r == t.conn[c]
    IN  IF t.free = <<>> THEN [t EXCEPT !.got = NoConn]
        ELSE [t EXCEPT !.got = c, !.free = Tail(@),
                       !.stage = IF r.timer THEN "torn" ELSE @,
                       !.conn[c] = [Blank EXCEPT !.inst = NextInstance(r.inst),
                                                 !.life = (r.life + 1) % 4]]

-----------------------------------------------------------------------------
(* ngx_http_request.c: the end of a request.                               *)

PostEvent(s, c) ==
    [s EXCEPT !.posted = IF Contains(@, c) THEN @ ELSE Append(@, c)]

\* c->recv: all of the input, or the end of it, or neither.
Recv(s, c) ==
    LET r == s.conn[c]
    IN  [s EXCEPT !.conn[c] = [r EXCEPT !.in = 0, !.ready = r.in > 0 /\ r.pending_eof]]
Got(s, c) == IF s.conn[c].in > 0 THEN "data" ELSE IF s.conn[c].eof THEN "eof" ELSE "again"

\* ngx_http_free_request, the clean-up of the upstream included.
FreeRequest(s, c) ==
    LET r == s.conn[c]
        t == IF r.mate = NoConn THEN s ELSE CloseConnection(s, r.mate)
    IN  [t EXCEPT !.conn[c].mate = NoConn, !.conn[c].stat = "none",
                  !.stat.reading = @ - (IF r.stat = "reading" THEN 1 ELSE 0),
                  !.stat.writing = @ - (IF r.stat = "writing" THEN 1 ELSE 0)]

CloseRequest(s, c) == CloseClient(FreeRequest(s, c), c)

CreateRequest(s, c) ==
    [s EXCEPT !.conn[c].stat = "reading", !.stat.reading = @ + 1, !.conn[c].h = "line"]

\* Faulty variant: a keepalive connection waits for the next edge.
KeepaliveWaits(s, c) == s

\* The end of ngx_http_set_keepalive: input that was reported during the last
\* request will not be reported again.
KeepaliveReady(s, c) == IF s.conn[c].ready THEN PostEvent(s, c) ELSE s

\* ngx_http_set_keepalive: a pipelined request is begun through the posted
\* events.
SetKeepalive(s, c) ==
    LET t == FreeRequest(s, c)
    IN  IF t.conn[c].buf > 0
        THEN PostEvent([CreateRequest(t, c) EXCEPT !.conn[c].timer = FALSE], c)
        ELSE KeepaliveReady(
                Reusable([t EXCEPT !.conn[c].h = "keepalive", !.conn[c].idle = TRUE,
                                   !.conn[c].timer = TRUE], c, TRUE), c)

\* ngx_http_lingering_close_handler reads until there is nothing left.
Lingering(s, c) ==
    LET t == Recv(s, c)
    IN  IF Got(s, c) = "eof" \/ (t.conn[c].ready /\ t.conn[c].eof)
        THEN CloseRequest(s, c)
        ELSE [t EXCEPT !.conn[c].timer = TRUE, !.conn[c].ready = FALSE]

\* ngx_http_set_lingering_close
SetLingering(s, c) ==
    LET t == [s EXCEPT !.conn[c].h = "linger", !.conn[c].timer = TRUE]
    IN  IF t.conn[c].ready THEN Lingering(t, c) ELSE t

\* ngx_http_finalize_connection, for a client that asked for keepalive or not.
Finalize(s, c, keepalive) ==
    LET r == s.conn[c]
    IN  IF ~s.exiting /\ keepalive THEN SetKeepalive(s, c)
        ELSE IF r.buf > 0 \/ r.ready THEN SetLingering(s, c)
        ELSE CloseRequest(s, c)

-----------------------------------------------------------------------------
(* ngx_http_request.c: from the first byte to the handler.                 *)

\* ngx_http_process_request: the request is answered at once, or goes to a
\* server, which takes a structure, or is refused with 500 when none is left.
ProcessRequest(s, c, keepalive, proxied) ==
    LET t == [s EXCEPT !.conn[c].timer = FALSE, !.conn[c].stat = "writing",
                       !.stat.reading = @ - 1, !.stat.writing = @ + 1,
                       !.conn[c].h = "request", !.conn[c].buf = @ - 2]
        u == GetConnection(t)
    IN  IF ~proxied THEN Finalize(t, c, keepalive)
        ELSE IF u.got = NoConn THEN Finalize(u, c, keepalive)
        ELSE [u EXCEPT !.conn[c].mate = u.got, !.conn[u.got].mate = c,
                       !.conn[u.got].h = "upstream", !.conn[u.got].timer = TRUE]

\* Faulty variant: the time-out for the header is not set.
AwaitHeaderForever(s, c) == [s EXCEPT !.conn[c].ready = FALSE]

\* ngx_http_read_request_header when there is no input.
AwaitHeader(s, c) == [s EXCEPT !.conn[c].timer = TRUE, !.conn[c].ready = FALSE]

\* ngx_http_process_request_line and _headers with ngx_http_read_request_header.
ProcessLine(s, c, keepalive, proxied) ==
    LET r == s.conn[c]
        u == [Recv(s, c) EXCEPT !.conn[c].buf = @ + r.in]
    IN  IF r.buf >= 2 THEN ProcessRequest(s, c, keepalive, proxied)
        ELSE IF ~r.ready THEN AwaitHeader(s, c)
        ELSE IF Got(s, c) = "eof" THEN CloseRequest(s, c)
        ELSE IF u.conn[c].buf >= 2 THEN ProcessRequest(u, c, keepalive, proxied)
        ELSE IF u.conn[c].ready /\ Got(u, c) = "eof" THEN CloseRequest(u, c)
        ELSE AwaitHeader(u, c)

\* Faulty variant: the connection stays in the queue of the reusable ones.
StayReusable(s, c) == s

\* ngx_reusable_connection(c, 0), when a request begins.
LeaveReusable(s, c) == Reusable(s, c, FALSE)

\* ngx_http_wait_request_handler and ngx_http_keepalive_handler on an event.
FirstBytes(s, c, keepalive, proxied) ==
    LET r == s.conn[c]
        t == [Recv(s, c) EXCEPT !.conn[c].buf = r.in, !.conn[c].idle = FALSE,
                                !.conn[c].timer = @ /\ r.h = "wait"]
    IN  IF Got(s, c) = "eof" THEN CloseClient(s, c)
        ELSE IF Got(s, c) = "again" THEN Recv(s, c)
        ELSE ProcessLine(CreateRequest(LeaveReusable(t, c), c), c, keepalive, proxied)

\* What the handlers of a client do on rev->timedout.
TimedOut(s, c) ==
    IF s.conn[c].h \in {"wait", "keepalive"} THEN CloseClient(s, c) ELSE CloseRequest(s, c)

\* rev->handler(rev).  While a request is with a server the client's input waits
\* and its end ends the request (ngx_http_upstream_rd_check_broken_connection);
\* an event or a time-out of the server ends the proxying.
Handler(s, c, timedout, keepalive, proxied) ==
    LET r == s.conn[c]
    IN  CASE r.h = "upstream" ->
                Finalize([CloseConnection(s, c) EXCEPT !.conn[r.mate].mate = NoConn],
                         r.mate, keepalive)
          [] r.h = "request" -> IF r.pending_eof THEN CloseRequest(s, c) ELSE s
          [] timedout -> TimedOut(s, c)
          [] r.h \in {"wait", "keepalive"} -> FirstBytes(s, c, keepalive, proxied)
          [] r.h = "line" -> ProcessLine(s, c, keepalive, proxied)
          [] r.h = "linger" -> Lingering(s, c)

-----------------------------------------------------------------------------
(* ngx_event_accept.c                                                      *)

\* ngx_http_init_connection
InitConnection(s, c) ==
    Reusable([s EXCEPT !.conn[c].h = "wait", !.conn[c].timer = TRUE], c, TRUE)

\* ngx_event_accept of one client; with no structure left the socket is closed.
AcceptOne(s) ==
    LET t == GetConnection([s EXCEPT !.stat.accepted = @ + 1,
                !.accept_disabled = Cardinality(Conn) \div Fraction - Len(s.free)])
    IN  IF t.got = NoConn THEN [t EXCEPT !.refused = @ + 1]
        ELSE InitConnection([t EXCEPT !.stat.active = @ + 1, !.stat.handled = @ + 1], t.got)

\* EMFILE and ENFILE: ngx_disable_accept_events, and a pause.
AcceptFails(s) ==
    IF s.use_accept_mutex
    THEN [s EXCEPT !.listening = FALSE, !.held = FALSE, !.owner = FALSE,
                   !.accept_disabled = 1]
    ELSE [s EXCEPT !.listening = FALSE, !.conn[Listener].timer = TRUE]

\* accept() with its outcomes: the next state of the worker is built on s.
Accept(s) ==
    \/ /\ world.backlog = 0 /\ w' = s /\ UNCHANGED world
    \/ /\ world.backlog > 0 /\ w' = AcceptOne(s)
       /\ world' = [world EXCEPT !.backlog = @ - 1]
    \/ /\ world.backlog > 0 /\ world.faults < MaxFaults /\ w' = AcceptFails(s)
       /\ world' = [world EXCEPT !.faults = @ + 1]

\* ngx_trylock_accept_mutex; while the worker is disabled it is not called.
TrylockAcceptMutex(s, locked) ==
    IF s.accept_disabled > 0 THEN [s EXCEPT !.accept_disabled = @ - 1, !.post = FALSE]
    ELSE IF locked THEN [s EXCEPT !.listening = TRUE, !.held = TRUE, !.owner = TRUE,
                                  !.post = TRUE]
    ELSE [s EXCEPT !.listening = @ /\ ~s.held, !.held = FALSE, !.post = FALSE]

-----------------------------------------------------------------------------
(* ngx_process_events_and_timers and ngx_worker_process_cycle.             *)

\* ngx_event_no_timers_left
NoTimersLeft == Timers(w) = {}

\* epoll_wait() reports every edge, in some order, and the listening socket
\* while clients wait; it returns at once or when there is something to do.
Wait(locked) ==
    LET s == IF w.use_accept_mutex THEN TrylockAcceptMutex(w, locked)
             ELSE [w EXCEPT !.post = FALSE]
        edges == {c \in Open(s) : s.conn[c].edge}
        ready == edges \cup (IF s.listening /\ world.backlog > 0 THEN {Listener} ELSE {})
    IN  /\ w.stage = "top" /\ ~(w.exiting /\ NoTimersLeft)
        /\ locked => w.use_accept_mutex
        /\ ready # {} \/ ~NoTimersLeft \/ world.quit
            \/ (w.use_accept_mutex /\ ~s.held)
        /\ \E order \in SetToSeqs(ready) :
            w' = [s EXCEPT !.stage = "events",
                !.batch = [i \in DOMAIN order |->
                    [c |-> order[i], inst |-> s.conn[order[i]].inst,
                     life |-> s.conn[order[i]].life]],
                !.conn = [c \in Conn |-> [s.conn[c] EXCEPT !.edge = FALSE]]]
        /\ UNCHANGED world

\* An event of a structure that was closed, or closed and opened again, since
\* epoll_wait() returned.
Stale(e) == w.conn[e.c].h = "free" \/ w.conn[e.c].inst # e.inst

\* ngx_epoll_process_events, one event.
ProcessEvent(keepalive, proxied) ==
    LET e == Head(w.batch)
        s == [w EXCEPT !.batch = Tail(@)]
        r == s.conn[e.c]
        t == [s EXCEPT !.conn[e.c].ready = TRUE,
                       !.conn[e.c].pending_eof = @ \/ r.eof,
                       !.misled = @ \/ r.life = (e.life + 1) % 4]
    IN  /\ w.stage = "events" /\ w.batch # <<>>
        /\ \/ /\ r.h = "listen" /\ w.post /\ w' = [s EXCEPT !.posted_accept = TRUE]
              /\ UNCHANGED world
           \/ r.h = "listen" /\ ~w.post /\ Accept(s)
           \/ /\ r.h # "listen" /\ Stale(e) /\ w' = s /\ UNCHANGED world
           \/ /\ r.h # "listen" /\ ~Stale(e)
              /\ w' = IF w.post THEN PostEvent(t, e.c)
                      ELSE Handler(t, e.c, FALSE, keepalive, proxied)
              /\ UNCHANGED world

\* The posted accept event, and the accept mutex is given back.
EndEvents ==
    LET s == [w EXCEPT !.stage = "timers", !.posted_accept = FALSE, !.owner = FALSE]
    IN  /\ w.stage = "events" /\ w.batch = <<>>
        /\ IF w.posted_accept THEN Accept(s) ELSE w' = s /\ UNCHANGED world

\* ngx_event_expire_timers: one of the timers, at its time.  The listener's is
\* set when accept() failed; once its socket is closed the event cannot be
\* added again and nothing happens.
ExpireTimer(c, keepalive, proxied) ==
    LET s == [w EXCEPT !.conn[c].timer = FALSE]
    IN  /\ w.stage = "timers" /\ c \in Timers(w)
        /\ \/ /\ w.conn[c].h = "listen"
              /\ Accept([s EXCEPT !.listening = TRUE])
           \/ /\ w.conn[c].h = "free" /\ w' = s /\ UNCHANGED world
           \/ /\ c \in Open(w) /\ w' = Handler(s, c, TRUE, keepalive, proxied)
              /\ UNCHANGED world

EndTimers ==
    /\ w.stage = "timers" /\ w' = [w EXCEPT !.stage = "posted"] /\ UNCHANGED world

\* ngx_event_process_posted
ProcessPosted(keepalive, proxied) ==
    LET c == Head(w.posted)
    IN  /\ w.stage = "posted" /\ w.posted # <<>>
        /\ w' = Handler([w EXCEPT !.posted = Tail(@)], c, FALSE, keepalive, proxied)
        /\ UNCHANGED world

\* ngx_close_listening_sockets: the structure goes to the pool, its timer stays.
CloseListening(s) ==
    [s EXCEPT !.listening = FALSE, !.held = FALSE, !.use_accept_mutex = FALSE,
              !.conn[Listener].h = "free", !.free = <<Listener>> \o @]

\* ngx_close_idle_connections
CloseIdle(s) ==
    FoldSet(LAMBDA c, t : CloseClient(t, c), s, {c \in Open(s) : s.conn[c].idle})

\* Faulty variant: the flag is cleared also when clients put the shutdown off.
EndTurnForgets ==
    LET s == [w EXCEPT !.stage = "top"]
    IN  /\ w.stage = "posted" /\ w.posted = <<>>
        /\ w' = IF world.quit /\ ~w.exiting /\ Open(w) = {}
                THEN [CloseListening(s) EXCEPT !.exiting = TRUE]
                ELSE s
        /\ world' = [world EXCEPT !.quit = FALSE]

\* The end of a turn of ngx_worker_process_cycle, where ngx_quit is looked at.
EndTurn ==
    LET s == [w EXCEPT !.stage = "top"]
    IN  /\ w.stage = "posted" /\ w.posted = <<>>
        /\ w' = IF world.quit /\ ~w.exiting
                THEN [CloseIdle(CloseListening(s)) EXCEPT !.exiting = TRUE]
                ELSE s
        /\ world' = [world EXCEPT !.quit = FALSE]

\* ngx_worker_process_exit
Exit ==
    /\ w.stage = "top" /\ w.exiting /\ NoTimersLeft
    /\ w' = [w EXCEPT !.stage = "exited"] /\ UNCHANGED world

-----------------------------------------------------------------------------
(* Clients, servers and the master, at any time.                           *)

Running == w.stage \notin {"exited", "torn"}

Connect ==
    /\ Running /\ world.clients < MaxClients /\ w.conn[Listener].h = "listen"
    /\ world' = [world EXCEPT !.clients = @ + 1, !.backlog = @ + 1]
    /\ UNCHANGED w

Send(c) ==
    /\ Running /\ c \in Clients(w) /\ ~w.conn[c].eof /\ world.halves < MaxHalves
    /\ w' = [w EXCEPT !.conn[c].in = @ + 1, !.conn[c].edge = TRUE]
    /\ world' = [world EXCEPT !.halves = @ + 1]

\* A client that closes, and a server that has answered or closes.
HangUp(c) ==
    /\ Running /\ c \in Open(w) /\ ~w.conn[c].eof
    /\ w' = [w EXCEPT !.conn[c].eof = TRUE, !.conn[c].edge = TRUE]
    /\ UNCHANGED world

Quit ==
    /\ Running /\ ~w.exiting /\ ~world.quit
    /\ world' = [world EXCEPT !.quit = TRUE] /\ UNCHANGED w

LoopStep ==
    \/ \E locked \in BOOLEAN : Wait(locked)
    \/ \E k, p \in BOOLEAN : ProcessEvent(k, p) \/ ProcessPosted(k, p)
    \/ EndEvents \/ EndTimers \/ EndTurn \/ Exit

Expire == \E c \in Conn, k, p \in BOOLEAN : ExpireTimer(c, k, p)

Next ==
    \/ LoopStep \/ Expire
    \/ Connect \/ Quit
    \/ \E c \in Conn : Send(c) \/ HangUp(c)

Spec == Init /\ [][Next]_vars

\* The worker goes on with its loop, and time passes: a timer that is set again
\* and again when timers are looked at expires in the end.  (Weak and strong
\* fairness, with what enables a step and what it changes written out.)
CanLoop ==
    \/ w.stage \in {"events", "timers", "posted"}
    \/ /\ w.stage = "top"
       /\ \/ w.exiting \/ world.quit \/ ~NoTimersLeft
          \/ \E c \in Open(w) : w.conn[c].edge
          \/ w.listening /\ world.backlog > 0
Loops == <<w.stage, w.batch, w.posted>>' # <<w.stage, w.batch, w.posted>>
CanExpire(c) == w.stage = "timers" /\ c \in Timers(w)
Expires(c) == CanExpire(c) /\ w'.stage = "timers" /\ c \notin Timers(w)'
Fairness ==
    /\ <>[]CanLoop => []<><<Loops>>_vars
    /\ \A c \in Conn : []<>CanExpire(c) => []<><<Expires(c)>>_vars
FairSpec == Spec /\ Fairness

-----------------------------------------------------------------------------
(* Properties.                                                             *)

\* Every structure is in the free list, once, or in use, and what is in use has
\* a place: the two ends of a proxied request know each other, posted events
\* belong to open connections.
PoolWhole ==
    /\ IsInjective(w.free) /\ IsInjective(w.posted)
    /\ ToSet(w.free) = {c \in Conn : w.conn[c].h = "free"}
    /\ ToSet(w.posted) \subseteq Open(w)
    /\ \A c \in Open(w) :
        /\ w.conn[c].h = "upstream" => w.conn[c].mate # NoConn
        /\ w.conn[c].mate # NoConn => w.conn[w.conn[c].mate].mate = c

\* Draining closes no connection that is inside a request: those in the queue of
\* reusable connections wait for a first or a next request and have read none
\* of it, and every idle keepalive connection is there to be taken.
ReusableIdle ==
    /\ IsInjective(w.reusable)
    /\ \A c \in ToSet(w.reusable) : w.conn[c].h \in {"wait", "keepalive"} /\ w.conn[c].buf = 0
    /\ \A c \in Open(w) : w.conn[c].idle <=> w.conn[c].h = "keepalive"
    /\ \A c \in Open(w) : w.conn[c].idle => Contains(w.reusable, c)

\* The counters of the status page are those of the connections, whichever way
\* each of them ended, and a client that was refused is accepted but not handled.
StatsMatch ==
    LET count(P(_)) == Cardinality({c \in Clients(w) : P(c)})
    IN  /\ w.stat.active = Cardinality(Clients(w))
        /\ w.stat.waiting = Len(w.reusable)
        /\ w.stat.reading = count(LAMBDA c : w.conn[c].h = "line")
        /\ w.stat.writing = count(LAMBDA c : w.conn[c].h \in {"request", "linger"})
        /\ w.stat.accepted = w.stat.handled + w.refused

\* The worker accounts for its connections (ngx_get_connection,
\* ngx_close_connection, ngx_reusable_connection, ngx_stat_active).
ConnectionsAccounted == PoolWhole /\ ReusableIdle /\ StatsMatch

\* Input is never forgotten, although epoll reports it once: a connection whose
\* handler reads has its input announced by an edge that is not reported yet, by
\* an event of the current batch or by a posted event.  So is a pipelined
\* request that is in the buffer already.
NoInputForgotten ==
    \A c \in Clients(w) :
        LET r == w.conn[c]
        IN  \/ (r.in > 0 \/ r.eof) /\ r.h # "request"
            \/ r.buf > 1 /\ r.h = "line"
            => \/ r.edge
               \/ \E i \in DOMAIN w.batch : w.batch[i].c = c /\ w.batch[i].inst = r.inst
               \/ Contains(w.posted, c)

\* An event of a connection that was closed in the same iteration is not taken
\* for one of the connection that got its structure next.
StaleDropped == ~w.misled

\* Outside a handler every client has a timer, its own or that of the server its
\* request is with, or a posted event: a client that falls silent cannot keep a
\* structure for ever, and a worker that waits for its timers waits for all clients.
EveryoneTimed ==
    \A c \in Clients(w) :
        \/ w.conn[c].timer \/ Contains(w.posted, c)
        \/ w.conn[c].mate # NoConn /\ w.conn[w.conn[c].mate].timer

\* A worker that shuts down gracefully exits with no client connected.
ExitDrained == w.stage = "exited" => Open(w) = {}

\* Every event reaches the connection it is for, and nothing else.
EventsDelivered == NoInputForgotten /\ StaleDropped

\* Timers bound every wait, so that a worker can wait for them at its end.
WaitsBounded == EveryoneTimed /\ ExitDrained

\* A worker told to quit gets to its end, whatever its clients and servers do.
Drains == world.quit ~> ~Running

\* Without the accept mutex a client that has connected is accepted, or the
\* worker shuts down, also when accept() fails for a while.
Accepted == \A n \in 1..MaxClients :
    world.backlog = n /\ ~w.use_accept_mutex
        ~> world.backlog # n \/ w.exiting \/ w.stage = "torn"
=============================================================================

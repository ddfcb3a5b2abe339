------------------------------ MODULE Upstream ------------------------------
(***************************************************************************)
(* Requests of an http server that the agent has written, and sessions of  *)
(* a stream server, on their way to the servers of an upstream block:      *)
(* choosing one, connecting, sending, reading the answer, going on to the  *)
(* next server, giving up (ngx_http_upstream.c, ngx_stream_proxy_module.c, *)
(* ngx_event_connect.c).                                                   *)
(*                                                                         *)
(* A worker runs one handler at a time.  A request in one of the phases    *)
(* "get", "dial", "send" and "header" is inside a handler, and until that  *)
(* returns nothing else happens in the worker.                             *)
(***************************************************************************)
EXTENDS Peers

CONSTANTS
    Slots,         \* requests or sessions a worker has at a time (bound)
    Blocks,        \* upstream blocks: [section, balancer, primary, backup]
    NextUpstream,  \* the parameters of proxy_next_upstream
    Statuses,      \* answers of a server, "ok" and those of next_upstream
    Address        \* the octets of the client's address that ip_hash takes

\* A block names each of its servers once.
ASSUME BlocksAssumption ==
    /\ IsFiniteSet(Slots) /\ Address \in [1..3 -> Nat]
    /\ \A b \in Blocks :
        /\ b.section \in {"http", "stream"}
        /\ b.primary \in Seq(Peer) \ {<<>>} /\ b.backup \in Seq(Peer)
        /\ IsInjective(b.primary \o b.backup)

VARIABLES
    block,   \* the upstream block looked at
    peers,   \* its servers
    req      \* req[r] : the request in slot r

vars == <<block, peers, req>>

\* had, reached and probe are history: the servers this request was given,
\* those its bytes were sent to, and, when it was given one that had been given
\* up, how many seconds ago.
NoRequest ==
    [phase |-> "idle", method |-> "GET", list |-> "primary", tried |-> {},
     peer |-> NoPeer, tries |-> 0, sent |-> FALSE, held |-> FALSE,
     hash |-> 89, misses |-> 0, had |-> {}, reached |-> {}, probe |-> -1]

Init ==
    /\ block \in Blocks
    /\ peers = InitPeers
    /\ req = [r \in Slots |-> NoRequest]

InPhase(r, phases) == req[r].phase \in phases
Handling == {"get", "dial", "send", "header"}
Free == \A r \in Slots : ~InPhase(r, Handling)
Reached(r, phases) == InPhase(r, phases) /\ Free

Servers(list) == IF list = "primary" THEN block.primary ELSE block.backup

\* peers->single: the only server of a block is never given up.
Single == Len(block.primary) = 1 /\ block.backup = <<>>

-----------------------------------------------------------------------------
(* Getting a server: peer.init and peer.get.                               *)

\* A request arrives and upstream is initialised for it.
InitRequest(r, method) ==
    /\ Reached(r, {"idle"})
    /\ req' = [req EXCEPT ![r] =
                [NoRequest EXCEPT !.phase = "get", !.method = method,
                                  !.tries = Len(block.primary) + Len(block.backup)]]
    /\ UNCHANGED <<block, peers>>

Choose(ps, list, tried) ==
    IF block.balancer = "least_conn" THEN LeastConn(ps, list, tried)
                                     ELSE RoundRobin(ps, list, tried)

\* What get leaves of request q: the server, or NoPeer when all are busy.
Given(q, p, ps) ==
    [peers |-> ps,
     req |-> [q EXCEPT !.peer = p, !.had = @ \cup {p},
                       !.probe = IF GivenUp(peers, p) THEN 0 ELSE -1,
                       !.tried = IF Single THEN @ ELSE @ \cup {p}]]
Busy(q) == [peers |-> peers, req |-> q]

GetFrom(q) ==
    IF Candidates(peers, Servers(q.list), q.tried) = {} THEN Busy(q)
    ELSE LET c == Choose(peers, Servers(q.list), q.tried) IN Given(q, c.peer, c.peers)

\* Faulty variant: the servers that were tried are forgotten.
GetPeerForgetsTried(q) == GetFrom([q EXCEPT !.tried = {}])

\* When the list is exhausted the request moves on to the backups for good.
GetPeer(q) ==
    LET got == GetFrom(q)
    IN  IF got.req.peer = NoPeer /\ q.list = "primary" /\ block.backup # <<>>
        THEN GetFrom([q EXCEPT !.list = "backup", !.tried = {}])
        ELSE got

GetSingle(q) ==
    LET p == block.primary[1]
    IN  IF p \in Down \/ Full(peers, p) THEN Busy(q)
        ELSE Given(q, p, [peers EXCEPT ![p].conns = @ + 1])

\* One round of the loop of ip_hash; a miss leaves the request in it.
GetByHash(q) ==
    LET hash == HashAddr(q.hash, Address)
        p == ByWeight(block.primary, hash)
    IN  IF p \in Candidates(peers, block.primary, q.tried)
        THEN Given([q EXCEPT !.hash = hash], p, Take(peers, p))
        ELSE Busy([q EXCEPT !.hash = hash, !.misses = @ + 1])

Hashing(q) == block.balancer = "ip_hash" /\ ~Single /\ q.misses <= MaxHashes

Get(q) ==
    IF Single THEN GetSingle(q)
    ELSE IF Hashing(q) THEN GetByHash(q)
    ELSE GetPeer(q)

-----------------------------------------------------------------------------
(* Giving a server back, and what follows.                                 *)

Freed(p, failed) == IF Single THEN Drop(peers, p) ELSE FreePeer(peers, p, failed)

\* Faulty variant: a try is not counted.
TriesLeftSame(tries) == tries

TriesLeft(tries) == IF Single \/ tries = 0 THEN 0 ELSE tries - 1

\* finalize_request, stream_proxy_finalize: the peer is freed as good.
Finalize(r) ==
    /\ peers' = IF req[r].peer = NoPeer THEN peers
                ELSE Freed(req[r].peer, FALSE)
    /\ req' = [req EXCEPT ![r] = NoRequest]

Idempotent(q) == ~(q.sent /\ q.method = "POST") \/ "non_idempotent" \in NextUpstream

MayRepeat(q, why) == why \in NextUpstream /\ Idempotent(q)

\* ngx_http_upstream_next: the peer is freed, as failed unless it answered
\* 403 or 404; then the next one is tried or the request ends.
NextHttp(r, q, why) ==
    LET tries == TriesLeft(q.tries)
    IN  /\ peers' = Freed(q.peer, why \notin {"http_403", "http_404"})
        /\ req' = [req EXCEPT ![r] =
                    IF tries # 0 /\ MayRepeat(q, why)
                    THEN [q EXCEPT !.phase = "get", !.peer = NoPeer, !.tries = tries]
                    ELSE NoRequest]

\* ngx_stream_proxy_next_upstream: with bytes of the client at hand the
\* session ends, and the peer does not count as failed.
NextStream(r, q) ==
    LET tries == TriesLeft(q.tries)
    IN  \/ q.held /\ Finalize(r)
        \/ /\ ~q.held
           /\ peers' = Freed(q.peer, TRUE)
           /\ req' = [req EXCEPT ![r] =
                        IF tries # 0
                        THEN [q EXCEPT !.phase = "get", !.peer = NoPeer, !.tries = tries]
                        ELSE NoRequest]

NextServer(r, q, why) ==
    \/ block.section = "http" /\ NextHttp(r, q, why)
    \/ block.section = "stream" /\ NextStream(r, q)

-----------------------------------------------------------------------------
(* Connecting.                                                             *)

\* The first part of ngx_event_connect_peer.  "no live upstreams" ends the
\* request, as NOLIVE is no parameter of next_upstream.
GetServer(r) ==
    /\ InPhase(r, {"get"})
    /\ LET got == Get(req[r])
       IN  /\ peers' = got.peers
           /\ req' = [req EXCEPT ![r] =
                        IF got.req.peer # NoPeer THEN [got.req EXCEPT !.phase = "dial"]
                        ELSE IF Hashing(req[r]) THEN got.req
                        ELSE NoRequest]
    /\ UNCHANGED block

Connected(q) ==
    IF block.section = "http" THEN [q EXCEPT !.phase = "send", !.sent = FALSE]
                              ELSE [q EXCEPT !.phase = "send"]

\* The rest of it, and of ngx_http_upstream_connect or ngx_stream_proxy_connect:
\* no socket or connection left, refused, under way, or connected at once.
Dial(r) ==
    /\ InPhase(r, {"dial"})
    /\ \/ Finalize(r)
       \/ NextServer(r, req[r], "error")
       \/ /\ req' = [req EXCEPT ![r] = [Connected(@) EXCEPT !.phase = "connecting"]]
          /\ UNCHANGED peers
       \/ /\ req' = [req EXCEPT ![r] = Connected(@)]
          /\ UNCHANGED peers
    /\ UNCHANGED block

\* connect_timeout, proxy_send_timeout and proxy_read_timeout of http;
\* proxy_connect_timeout of stream.
Timeout(r) ==
    /\ \/ block.section = "http" /\ Reached(r, {"connecting", "sending", "waiting"})
       \/ block.section = "stream" /\ Reached(r, {"connecting"})
    /\ NextServer(r, req[r], "timeout")
    /\ UNCHANGED block

-----------------------------------------------------------------------------
(* http: sending the request and reading the answer.                       *)

Sent(q) == [q EXCEPT !.sent = TRUE, !.reached = @ \cup {q.peer}]

\* Faulty variant: request_sent is forgotten when sending breaks off.
SendRequestForgets(r) ==
    /\ block.section = "http"
    /\ InPhase(r, {"send"}) \/ Reached(r, {"connecting", "sending"})
    /\ \/ NextServer(r, [Sent(req[r]) EXCEPT !.sent = FALSE], "error")
       \/ /\ \E phase \in {"sending", "waiting", "header"} :
                req' = [req EXCEPT ![r] = [Sent(@) EXCEPT !.phase = phase]]
          /\ UNCHANGED peers
    /\ UNCHANGED block

\* ngx_http_upstream_send_request, when connected or when the socket takes
\* more: the connection turns out to have failed, or sending fails, nginx
\* itself fails, or sending goes on or is complete, and then the answer may be
\* there already.
SendRequest(r) ==
    /\ block.section = "http"
    /\ InPhase(r, {"send"}) \/ Reached(r, {"connecting", "sending"})
    /\ \/ ~req[r].sent /\ NextServer(r, req[r], "error")
       \/ NextServer(r, Sent(req[r]), "error")
       \/ Finalize(r)
       \/ /\ \E phase \in {"sending", "waiting", "header"} :
                req' = [req EXCEPT ![r] = [Sent(@) EXCEPT !.phase = phase]]
          /\ UNCHANGED peers
    /\ UNCHANGED block

\* ngx_http_upstream_process_header: no more bytes yet, a broken connection,
\* a header that is no header, an answer that asks for the next server, a
\* failure of nginx itself, or an answer to pass on.
ProcessHeader(r) ==
    /\ block.section = "http"
    /\ InPhase(r, {"header"}) \/ Reached(r, {"connecting", "sending", "waiting"})
    /\ \/ NextServer(r, req[r], "error")
       \/ NextServer(r, req[r], "invalid_header")
       \/ Finalize(r)
       \/ \E status \in Statuses :
            \/ status # "ok" /\ req[r].tries > 1 /\ status \in NextUpstream
               /\ NextServer(r, req[r], status)
            \/ /\ ~(req[r].tries > 1 /\ status \in NextUpstream)
               /\ req' = [req EXCEPT ![r].phase = "body"]
               /\ UNCHANGED peers
       \/ /\ InPhase(r, {"header"})
          /\ req' = [req EXCEPT ![r].phase = "waiting"]
          /\ UNCHANGED peers
    /\ UNCHANGED block

\* The body has been passed on, or either side broke off: no next server once
\* the header has been sent.
EndBody(r) ==
    /\ Reached(r, {"body"})
    /\ Finalize(r)
    /\ UNCHANGED block

\* ngx_http_upstream_check_broken_connection: the client went away.
ClientAbort(r) ==
    /\ block.section = "http"
    /\ Reached(r, {"connecting", "sending", "waiting"})
    /\ Finalize(r)
    /\ UNCHANGED block

-----------------------------------------------------------------------------
(* stream: bytes go both ways once the connection is there.                *)

\* ngx_stream_proxy_process before the connection: what the client sends is
\* read and held; a client that leaves is noticed later.
ClientSpeaks(r) ==
    /\ block.section = "stream"
    /\ Reached(r, {"connecting"})
    /\ req' = [req EXCEPT ![r].held = TRUE]
    /\ UNCHANGED <<block, peers>>

\* ngx_stream_proxy_connect_handler and ngx_stream_proxy_init_upstream.
InitUpstream(r) ==
    /\ block.section = "stream"
    /\ InPhase(r, {"send"}) \/ Reached(r, {"connecting"})
    /\ \/ NextServer(r, req[r], "error")
       \/ Finalize(r)
       \/ /\ peers' = [peers EXCEPT ![req[r].peer] = Forgiven(@)]
          /\ req' = [req EXCEPT ![r].phase = "body", ![r].reached = @ \cup {req[r].peer}]
    /\ UNCHANGED block

-----------------------------------------------------------------------------

\* A second passes.
Tick ==
    /\ Free
    /\ peers' = Older(peers)
    /\ req' = [r \in Slots |-> [req[r] EXCEPT !.probe = IF @ < 0 THEN @ ELSE Later(@)]]
    /\ UNCHANGED block

Step(r) ==
    \/ GetServer(r)
    \/ Dial(r)
    \/ Timeout(r)
    \/ SendRequest(r)
    \/ ProcessHeader(r)
    \/ EndBody(r)
    \/ InitUpstream(r)

Arrive(r) == \E method \in {"GET", "POST"} : InitRequest(r, method)

Next ==
    \/ \E r \in Slots : Arrive(r) \/ Step(r) \/ ClientAbort(r) \/ ClientSpeaks(r)
    \/ Tick

Spec == Init /\ [][Next]_vars

\* A handler returns; events of a connection, its timers at the latest, come;
\* the clock goes on, and so do the clients.  (Weak and, for Tick, strong
\* fairness, with what enables a step written out.)
CanStep(r) == InPhase(r, Handling) \/ (~InPhase(r, {"idle"}) /\ Free)
CanTick == Free /\ (Older(peers) # peers \/ \E r \in Slots : req[r].probe \in 0..Expired - 1)
CanArrive == \E r \in Slots : Reached(r, {"idle"})
AnyArrives == \E r \in Slots : Arrive(r)
Fairness ==
    /\ \A r \in Slots : <>[]CanStep(r) => []<><<Step(r)>>_vars
    /\ []<>CanTick => []<><<Tick>>_vars
    /\ <>[]CanArrive => []<><<AnyArrives>>_vars
FairSpec == Spec /\ Fairness

-----------------------------------------------------------------------------
(* Properties.                                                             *)

Holders(p) == {r \in Slots : req[r].peer = p}

\* Types; no effective weight leaves 0..weight.
TypeOK ==
    /\ block \in Blocks
    /\ \A p \in Peer :
        /\ peers[p].conns \in 0..Cardinality(Slots)
        /\ peers[p].fails \in 0..MaxFails[p] /\ peers[p].age \in 0..Expired
        /\ peers[p].behind \in BOOLEAN /\ peers[p].current \in Int
        /\ peers[p].effective \in 0..Weight[p]
    /\ \A r \in Slots :
        /\ req[r].phase \in Handling \cup {"idle", "connecting", "sending", "waiting", "body"}
        /\ req[r].peer \in Peer \cup {NoPeer} /\ req[r].tried \subseteq Peer
        /\ req[r].tries \in 0..Cardinality(Peer) /\ req[r].misses \in 0..(MaxHashes + 1)

\* peer->conns counts the requests that have the peer, on every way a request
\* can end: a leak would in time close the peer to max_conns and least_conn.
ConnsCounted == \A p \in Peer : peers[p].conns = Cardinality(Holders(p))

\* Round robin takes from the winner what it gives to all: the current weights
\* of a list sum up to zero whoever is left out, fails or recovers.
WeightsBalance ==
    \A list \in {block.primary, block.backup} :
        SumOf(list, [p \in Peer |-> peers[p].current]) = 0

\* The servers of a block are accounted for (ngx_http_upstream_round_robin.c).
PeersAccounted == TypeOK /\ WeightsBalance

\* Bytes of a POST, and of a stream session, reach one server at most,
\* whatever was retried, without non_idempotent (ngx_http_upstream_next,
\* "pending buffers on next upstream").
ReachOnce ==
    \A r \in Slots :
        req[r].method = "POST" \/ block.section = "stream" =>
            Cardinality(req[r].reached) <= 1

\* A server that has been given up is tried by one request in fail_timeout.
OneProbe ==
    \A r, s \in Slots :
        r # s /\ req[r].peer = req[s].peer /\ req[r].probe = 0 =>
            req[s].probe \notin 0..FailTimeout

\* A server that has been given up is left alone for fail_timeout: until then
\* it is given to nobody, nothing, such as an answer it gives to an older
\* request, makes up for the failure, and then one request tries it.
LeftAlone ==
    [][/\ OneProbe'
       /\ \A p \in Peer :
            GivenUp(peers, p) /\ peers[p].rest <= FailTimeout =>
                /\ peers'[p].fails >= peers[p].fails
                /\ \A r \in Slots : req'[r].peer = p => req[r].peer = p]_vars

\* A request is not given a server it was given before.
NeverTwice ==
    [][\A r \in Slots :
        req'[r].peer \notin {NoPeer, req[r].peer} => req'[r].peer \notin req[r].had]_vars

\* Every request ends: the retries are bounded and no phase is without a timer.
Ends == \A r \in Slots : req[r].phase # "idle" ~> req[r].phase = "idle"

\* No server is forgotten: while requests come, each of the first list gets one
\* again and again, however it failed before.
Recovers ==
    \A p \in Peer :
        block.balancer # "ip_hash" /\ p \in Range(block.primary) \ Down =>
            []<>(\E r \in Slots : req[r].peer = p)
=============================================================================

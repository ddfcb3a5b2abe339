----------------------------- MODULE EventPipe -----------------------------
(***************************************************************************)
(* How a worker passes the body of a proxied http response on to the       *)
(* client: ngx_event_pipe.c with the copy filter of                        *)
(* ngx_http_proxy_module.c, the write filter, and                          *)
(* ngx_http_upstream_process_upstream, _downstream and _request.  The body *)
(* is the bytes 1, 2, ..., Total.  It is read into a limited number of raw *)
(* buffers, handed to the client's connection in chains, and written to a  *)
(* temporary file when the client is slower.  No cache, no limit_rate, no  *)
(* cyclic temporary file, no threads; buffers of one size.                 *)
(***************************************************************************)
EXTENDS Integers, FiniteSets, SequencesExt

CONSTANTS
    Total,      \* bytes of the body
    Lengths,    \* what Content-Length may say, -1 without
    Num,        \* proxy_buffers: the number,
    Size,       \* and the size of each
    BusySize,   \* proxy_busy_buffers_size
    MaxFile,    \* proxy_max_temp_file_size
    FileWrite,  \* proxy_temp_file_write_size
    Postpone    \* postpone_output

VARIABLES
    p,       \* the ngx_event_pipe_t, and where its code is
    net      \* both connections: what has arrived, what has been sent, events

pipeVars == <<p, net>>

Raw == 0..Num        \* 0 is the buffer that the header was read into
File == -1

\* A buffer in a chain: of raw buffer b, or a piece of the temporary file.  Of a
\* raw buffer the bytes are looked up when they are sent.
Shadow(b, n) == [b |-> b, pos |-> 0, last |-> n, bytes |-> <<>>]
FileBuf(bytes) == [b |-> File, pos |-> 0, last |-> Len(bytes), bytes |-> bytes]
BufSize(s) == s.last - s.pos
ChainSize(chain) == FoldLeft(LAMBDA n, s : n + BufSize(s), 0, chain)
Recycled(chain) == {i \in DOMAIN chain : chain[i].b # File}

\* pc: "idle"; "write", "enter", "loop" and "exit" inside ngx_event_pipe; at the
\* end "ok" or "bad", as ngx_http_upstream_process_request finds.  pre bytes of
\* the body came with the header.
Init ==
    /\ \E len \in Lengths, pre \in 0..Size :
        p = [pc |-> "enter", raw |-> [b \in Raw |-> <<>>], pre |-> pre, start |-> TRUE,
             free |-> <<>>, in |-> <<>>, out |-> <<>>, busy |-> <<>>,
             allocated |-> 0, length |-> len, offset |-> 0,
             eof |-> FALSE, error |-> FALSE, done |-> FALSE, derr |-> FALSE,
             read |-> FALSE, blocked |-> FALSE]
    /\ net = [len |-> p.length, sent |-> p.pre, up |-> p.pre, fin |-> FALSE, reset |-> FALSE,
              rready |-> TRUE, wready |-> TRUE, rev |-> FALSE, wev |-> FALSE,
              room |-> FALSE, got |-> <<>>, closed |-> FALSE]

Finished == p.eof \/ p.error \/ p.done
Unread == net.sent - net.up    \* bytes of the upstream in its socket

-----------------------------------------------------------------------------
(* Raw buffers.                                                            *)

\* Faulty variant: the freed buffer always comes first.
AddFreeFirst(q, b) == [q EXCEPT !.raw[b] = <<>>, !.free = <<b>> \o @]

\* ngx_event_pipe_add_free_buf: a partly filled first buffer stays the first.
AddFree(q, b) ==
    [q EXCEPT !.raw[b] = <<>>,
              !.free = IF @ = <<>> \/ q.raw[Head(@)] = <<>> THEN <<b>> \o @
                       ELSE <<Head(@), b>> \o Tail(@)]

\* ngx_http_proxy_copy_filter
InputFilter(q, b) ==
    LET n == Len(q.raw[b])
        left == q.length - n
    IN  IF n = 0 THEN q
        ELSE IF q.length = -1 THEN [q EXCEPT !.in = Append(@, Shadow(b, n))]
        ELSE [q EXCEPT !.in = Append(@, Shadow(b, n)), !.length = left,
                       !.done = @ \/ left <= 0]

\* n bytes have been read into the buffers of the chain, from byte `next' on:
\* full ones go through the filter, the rest are the free ones again.
RECURSIVE Fill(_, _, _, _)
Fill(q, chain, next, n) ==
    IF chain = <<>> \/ n = 0 THEN [q EXCEPT !.free = chain]
    ELSE LET b == Head(chain)
             m == Min({Size - Len(q.raw[b]), n})
             q1 == [q EXCEPT !.raw[b] = @ \o [i \in 1..m |-> next + i - 1]]
         IN  IF Len(q1.raw[b]) = Size
             THEN Fill(InputFilter(q1, b), Tail(chain), next + m, n - m)
             ELSE [q1 EXCEPT !.free = chain]

-----------------------------------------------------------------------------
(* ngx_event_pipe_read_upstream                                            *)

\* When the loop is left: what completes the length, and what is left at the end
\* of the connection, goes through the filter.
LastBuffers(q) ==
    LET q1 == IF q.free # <<>> /\ q.length # -1 /\ Len(q.raw[Head(q.free)]) >= q.length
              THEN InputFilter([q EXCEPT !.free = Tail(@)], Head(q.free)) ELSE q
        q2 == IF q1.length = 0 THEN [q1 EXCEPT !.done = TRUE, !.read = TRUE] ELSE q1
    IN  IF (q2.eof \/ q2.error) /\ q2.free # <<>>
        THEN [InputFilter(q2, Head(q2.free)) EXCEPT !.free = Tail(@)] ELSE q2

\* Faulty variant: only a blocked upstream makes the loop go on.
GoOnBlocked(q) == [q EXCEPT !.pc = IF q.blocked THEN "write" ELSE "exit"]

\* The loop of ngx_event_pipe goes on with writing, or is left.
GoOn(q) == [q EXCEPT !.pc = IF q.read \/ q.blocked THEN "write" ELSE "exit"]

EndRead(q) == GoOn(LastBuffers(q))

\* As many buffers of p->in as the limits allow.
ToFile(q) ==
    LET Fits(k) == LET n == ChainSize(SubSeq(q.in, 1, k))
                   IN  n <= FileWrite /\ q.offset + n <= MaxFile
    IN  Max({0} \cup {k \in DOMAIN q.in : Fits(k)})

RawBytes(q, s) == SubSeq(q.raw[s.b], s.pos + 1, s.last)

\* ngx_event_pipe_write_chain_to_temp_file
TempFile(q) ==
    LET k == ToFile(q)
        moved == SubSeq(q.in, 1, k)
        bytes == FlattenSeq([i \in 1..k |-> RawBytes(q, moved[i])])
        bufs == {moved[i].b : i \in 1..k}
    IN  [q EXCEPT !.in = SubSeq(@, k + 1, Len(@)), !.out = @ \o bytes,
                  !.offset = @ + Len(bytes),
                  !.free = @ \o [i \in 1..k |-> moved[i].b],
                  !.raw = [b \in Raw |-> IF b \in bufs THEN <<>> ELSE @[b]]]

\* The raw buffers to read into: the free ones, a new one, or some that go to
\* the file; <<>> when there are none.
Chain(q) ==
    IF q.free # <<>> THEN q
    ELSE IF q.allocated < Num
    THEN [q EXCEPT !.allocated = @ + 1, !.free = <<q.allocated + 1>>]
    ELSE IF net.wready THEN [q EXCEPT !.blocked = TRUE]
    ELSE IF q.offset < MaxFile THEN TempFile(q)
    ELSE q

Space(q) == FoldLeft(LAMBDA n, b : n + Size - Len(q.raw[b]), 0, q.free)

EnterRead ==
    /\ p.pc = "enter"
    /\ p' = [p EXCEPT !.read = FALSE, !.blocked = FALSE,
                      !.pc = IF Finished THEN "exit" ELSE "loop"]
    /\ UNCHANGED net

\* The loop starts with the bytes that came with the header.
Preread ==
    /\ p.pc = "loop" /\ p.start
    /\ p' = [Fill(p, <<0>>, 1, p.pre) EXCEPT !.start = FALSE, !.read = p.pre > 0]
    /\ UNCHANGED net

\* One round of the loop with recv_chain.
ReadUpstream ==
    /\ p.pc = "loop" /\ ~p.start /\ ~Finished /\ net.rready
    /\ LET q == Chain(p)
           n == Min({Space(q), Unread})
       IN  IF q.free = <<>> THEN p' = EndRead(q) /\ UNCHANGED net
           ELSE IF net.reset THEN p' = EndRead([q EXCEPT !.error = TRUE]) /\ UNCHANGED net
           ELSE IF Unread > 0
           THEN /\ p' = Fill([q EXCEPT !.read = TRUE], q.free, net.up + 1, n)
                /\ net' = [net EXCEPT !.up = @ + n, !.rready = n = Space(q) \/ net.fin]
           ELSE IF net.fin
           THEN p' = EndRead([q EXCEPT !.eof = TRUE, !.read = TRUE]) /\ UNCHANGED net
           ELSE p' = EndRead(q) /\ net' = [net EXCEPT !.rready = FALSE]

LeaveRead ==
    /\ p.pc = "loop" /\ ~p.start /\ (Finished \/ ~net.rready)
    /\ p' = EndRead(p)
    /\ UNCHANGED net

-----------------------------------------------------------------------------
(* ngx_event_pipe_write_to_downstream                                      *)

\* The raw buffers of the shadows that have been sent are free, the last first.
FreeSent(q, sent) == FoldRight(LAMBDA s, q1 : IF s.b = File THEN q1 ELSE AddFree(q1, s.b), sent, q)

Content(q, s) == IF s.b = File THEN SubSeq(s.bytes, s.pos + 1, s.last) ELSE RawBytes(q, s)

\* k bytes of the busy chain are sent; ngx_chain_update_chains.
RECURSIVE Whole(_, _)
Whole(chain, k) ==      \* how many of the buffers are sent completely
    IF chain = <<>> \/ BufSize(Head(chain)) > k THEN 0
    ELSE 1 + Whole(Tail(chain), k - BufSize(Head(chain)))
Sent(q, k) ==
    LET w == Whole(q.busy, k)
        gone == SubSeq(q.busy, 1, w)
        rest == SubSeq(q.busy, w + 1, Len(q.busy))
        part == k - ChainSize(gone)
    IN  FreeSent([q EXCEPT !.busy = IF part = 0 THEN rest
                                    ELSE <<[Head(rest) EXCEPT !.pos = @ + part]>> \o Tail(rest)],
                 gone)
AllContent(q) == FlattenSeq([i \in DOMAIN q.busy |-> Content(q, q.busy[i])])

\* ngx_event_pipe_drain_chains
Drain(q) ==
    LET q1 == FoldLeft(LAMBDA q0, s : IF s.b = File THEN q0 ELSE AddFree(q0, s.b),
                       q, q.busy \o q.in)
    IN  [q1 EXCEPT !.busy = <<>>, !.out = <<>>, !.in = <<>>]

\* How much the socket may take: after an event at least something.
Takes(size) == (IF net.room THEN Min({1, size}) ELSE 0)..size

\* The output filters: a little data without a recycled buffer waits, otherwise
\* as much is sent as the socket takes.
Output(q, chain) ==
    LET q1 == [q EXCEPT !.busy = @ \o chain]
        size == ChainSize(q1.busy)
    IN  IF net.closed
        THEN p' = [Drain(q1) EXCEPT !.derr = TRUE, !.pc = "enter"] /\ UNCHANGED net
        ELSE IF chain # <<>> /\ Recycled(q1.busy) = {} /\ size < Postpone
        THEN p' = q1 /\ UNCHANGED net
        ELSE \E k \in Takes(size) :
                /\ p' = Sent(q1, k)
                /\ net' = [net EXCEPT !.got = @ \o SubSeq(AllContent(q1), 1, k),
                                      !.wready = k = size, !.room = FALSE]

\* How many more recycled buffers may be busy.
Room(bsize) == (BusySize - bsize) \div Size

\* One round of the loop.
WriteDownstream ==
    /\ p.pc = "write"
    /\ LET bsize == Size * Cardinality(Recycled(p.busy))
           k == IF bsize >= BusySize THEN 0 ELSE Min({Len(p.in), Room(bsize)})
           out == IF bsize >= BusySize \/ p.out = <<>> THEN <<>> ELSE <<FileBuf(p.out)>>
           chain == out \o SubSeq(p.in, 1, k)
           flush == bsize >= BusySize \/ k < Len(p.in)
       IN  IF p.derr THEN p' = [Drain(p) EXCEPT !.pc = "enter"] /\ UNCHANGED net
           ELSE IF Finished
           THEN \* all of it is handed over; Writer sends it
                /\ p' = [p EXCEPT !.busy = @ \o (IF p.out = <<>> THEN <<>> ELSE <<FileBuf(p.out)>>)
                                           \o p.in,
                                  !.out = <<>>, !.in = <<>>, !.pc = "enter"]
                /\ UNCHANGED net
           ELSE IF ~net.wready \/ (chain = <<>> /\ ~flush)
           THEN p' = [p EXCEPT !.pc = "enter"] /\ UNCHANGED net
           ELSE Output([p EXCEPT !.out = IF out = <<>> THEN @ ELSE <<>>,
                                 !.in = SubSeq(@, k + 1, Len(@))], chain)

-----------------------------------------------------------------------------
(* The handlers of the request.                                            *)

\* ngx_http_upstream_process_request
ProcessRequest ==
    /\ p.pc = "exit"
    /\ p' = [p EXCEPT !.pc = IF p.done \/ (p.eof /\ p.length = -1) THEN "ok"
                             ELSE IF Finished \/ p.derr THEN "bad" ELSE "idle"]
    /\ UNCHANGED net

\* ngx_http_upstream_process_upstream and _downstream
ReadEvent ==
    /\ p.pc = "idle" /\ net.rev
    /\ p' = [p EXCEPT !.pc = "enter"]
    /\ net' = [net EXCEPT !.rev = FALSE, !.rready = TRUE]
WriteEvent ==
    /\ p.pc = "idle" /\ net.wev
    /\ p' = [p EXCEPT !.pc = "write"]
    /\ net' = [net EXCEPT !.wev = FALSE, !.wready = TRUE, !.room = TRUE]

\* proxy_read_timeout while waiting for the upstream, send_timeout for the
\* client; ngx_http_upstream_check_broken_connection.
GivenUp ==
    /\ p.pc = "idle" /\ (~net.rready \/ ~net.wready \/ net.closed)
    /\ p' = [p EXCEPT !.pc = "bad"]
    /\ UNCHANGED net

\* ngx_http_writer, once the upstream is finished with.
Writer ==
    /\ p.pc = "ok" /\ p.busy # <<>> /\ (net.wready \/ net.wev)
    /\ LET size == ChainSize(p.busy)
       IN  IF net.closed THEN p' = [p EXCEPT !.pc = "bad"] /\ UNCHANGED net
           ELSE \E k \in (IF net.wev THEN 1 ELSE 0)..size :
                  /\ p' = Sent(p, k)
                  /\ net' = [net EXCEPT !.got = @ \o SubSeq(AllContent(p), 1, k),
                                        !.wev = FALSE, !.wready = k = size]

Step ==
    \/ EnterRead \/ Preread \/ ReadUpstream \/ LeaveRead \/ WriteDownstream
    \/ ProcessRequest \/ ReadEvent \/ WriteEvent \/ Writer

-----------------------------------------------------------------------------
(* The upstream and the client (external).                                 *)

Arrive(n) ==
    /\ ~net.fin /\ ~net.reset /\ net.sent + n <= Total
    /\ net' = [net EXCEPT !.sent = @ + n, !.rev = TRUE]
    /\ UNCHANGED p
\* The upstream closes, after the whole body or before; or resets.
Close ==
    /\ ~net.fin /\ ~net.reset
    /\ net' = [net EXCEPT !.fin = TRUE, !.rev = TRUE]
    /\ UNCHANGED p
Reset ==
    /\ ~net.fin /\ ~net.reset
    /\ net' = [net EXCEPT !.reset = TRUE, !.rev = TRUE]
    /\ UNCHANGED p
\* The client has read and there is room in its socket again; or it is gone.
Drained ==
    /\ ~net.wready /\ ~net.wev /\ net' = [net EXCEPT !.wev = TRUE]
    /\ UNCHANGED p
HangUp ==
    /\ ~net.closed /\ net' = [net EXCEPT !.closed = TRUE, !.wev = TRUE]
    /\ UNCHANGED p

Next ==
    \/ Step \/ GivenUp
    \/ (\E n \in 1..Total : Arrive(n)) \/ Close \/ Reset \/ Drained \/ HangUp

Spec == Init /\ [][Next]_pipeVars

\* The event loop calls a handler whose event is there, and the client reads:
\* weak fairness of Step and of Drained, with what enables them written out.
CanStep ==
    \/ p.pc \in {"enter", "loop", "write", "exit"}
    \/ p.pc = "idle" /\ (net.rev \/ net.wev)
    \/ p.pc = "ok" /\ p.busy # <<>> /\ (net.wready \/ net.wev)
CanDrain == ~net.wready /\ ~net.wev
FairSpec ==
    /\ Spec
    /\ <>[]CanStep => []<><<Step>>_pipeVars
    /\ <>[]CanDrain => []<><<Drained>>_pipeVars

-----------------------------------------------------------------------------
(* Properties.                                                             *)

\* The client gets the bytes of the body in order, none twice and none left out,
\* whatever is moved to the file and whichever buffers are used again.
BodyInOrder == net.got = [i \in 1..Len(net.got) |-> i]

\* Every raw buffer is in one place: free, waiting, or busy until it is sent; so
\* none is read into before its bytes are with the client.
BuffersAccounted ==
    LET bufs == p.free \o [i \in DOMAIN p.in |-> p.in[i].b]
                      \o SelectSeq([i \in DOMAIN p.busy |-> p.busy[i].b], LAMBDA b : b # File)
    IN  IsInjective(bufs) /\ p.allocated <= Num

\* When there is no buffer left to read into and some are to be moved to the
\* file, there is one: p->in is not empty, because the busy buffers are limited
\* to less than all of them (ngx_event_pipe_write_chain_to_temp_file takes that
\* for granted).
SomethingToMove ==
    p.pc = "loop" /\ ~p.start /\ ~Finished /\ net.rready /\ p.free = <<>> /\ p.allocated = Num
        => p.in # <<>>

\* The pipe never waits for nothing: when it stops with the upstream's bytes or
\* its end unread, and no event to come, it waits for the client; and while the
\* client's socket takes more everything has been handed to it.
NoStall ==
    p.pc = "idle" =>
        /\ (Unread > 0 \/ net.fin \/ net.reset) /\ ~net.rev => ~net.wready
        /\ net.wready => p.in = <<>> /\ p.out = <<>> /\ Recycled(p.busy) = {}

\* A response that ends well is whole: with a length, at least that many bytes;
\* without one, all that the upstream sent before it closed.
WholeOrBad ==
    p.pc = "ok" /\ p.busy = <<>> /\ ~p.derr =>
        IF net.len = -1 THEN net.fin /\ Len(net.got) = net.sent
        ELSE Len(net.got) >= net.len

\* What the client gets is the body, whole and in order (ngx_event_pipe.c).
BodyIntact == BodyInOrder /\ BuffersAccounted /\ WholeOrBad

\* The pipe is never stuck: neither waiting for nothing nor out of buffers.
NeverStuck == NoStall /\ SomethingToMove

\* Once the upstream has closed the connection the request ends, the client
\* having been sent everything or having been given up.
ResponseEnds == net.fin \/ net.reset ~> p.pc = "bad" \/ (p.pc = "ok" /\ p.busy = <<>>)
=============================================================================

----------------------------- MODULE MCProxying -----------------------------
(***************************************************************************)
(* The way of a request through nginx for TLC, in three parts that share   *)
(* no state: `upstream' is requests and servers (Upstream), `pipe' is the  *)
(* body of a response (EventPipe), `words' are all short inputs of the     *)
(* algorithms that are functions of a text or of numbers.  A behaviour is  *)
(* one of one part; the variables of the others stay as they begin.        *)
(***************************************************************************)
EXTENDS MCUpstream, SequencesExt

VARIABLES part, p, net, word

-----------------------------------------------------------------------------
(* The other modules.                                                      *)

Pipe == INSTANCE EventPipe
        WITH Total <- 7, Lengths <- {-1, 5}, Num <- 2, Size <- 2, BusySize <- 2,
             MaxFile <- 2, FileWrite <- 2, Postpone <- 2
R == INSTANCE Routing WITH Apps <- {}, Ports <- 1..3, Undefined <- NoPeer
C == INSTANCE Chunked WITH MaxOff <- 127
U == INSTANCE Uri
D == INSTANCE Calendar
S == INSTANCE Status

\* The letters and the longest word of each algorithm.
Letters == [splice  |-> 1..3,
            chunked |-> {0, 1, 2, 15, C!CR, C!LF, C!Blank},
            uri     |-> {U!Malformed, U!Slash, U!Dot, U!Usual, U!Question,
                         10 + U!Slash, 10 + U!Dot, 10 + U!Question},
            days    |-> 0..39,
            status  |-> 0..2]
Longest == [splice |-> 5, chunked |-> 6, uri |-> 5, days |-> 3, status |-> 7]

-----------------------------------------------------------------------------

NoWord == [kind |-> "uri", text |-> <<>>]

ProxyInit ==
    /\ part \in {"upstream", "pipe", "words"}
    /\ Init /\ (part # "upstream" => block = CHOOSE x \in Blocks : TRUE)
    /\ Pipe!Init /\ (part # "pipe" => p.pre = 0 /\ p.length = -1)
    /\ IF part = "words" THEN word \in {[kind |-> k, text |-> <<>>] : k \in DOMAIN Letters}
       ELSE word = NoWord

\* A chunked body is not read on after its end.
Open(text) == C!ChunkedFilter(C!Start, text).rc = "AGAIN"
Spell ==
    /\ Len(word.text) < Longest[word.kind]
    /\ word.kind = "chunked" => Open(word.text)
    /\ \E x \in Letters[word.kind] : word' = [word EXCEPT !.text = Append(@, x)]

ProxyNext ==
    \/ part = "upstream" /\ Next /\ UNCHANGED <<part, p, net, word>>
    \/ part = "pipe" /\ Pipe!Next /\ UNCHANGED <<part, vars, word>>
    \/ part = "words" /\ Spell /\ UNCHANGED <<part, vars, p, net>>

proxyVars == <<part, vars, p, net, word>>

ProxySpec == ProxyInit /\ [][ProxyNext]_proxyVars

-----------------------------------------------------------------------------
(* Properties of the other modules.                                        *)

\* EventPipe: what the client gets is the body, whole and in order.
BodyIntact == Pipe!BodyIntact
\* ngx_event_pipe never waits for nothing and never runs out of buffers.
NeverStuck == Pipe!NeverStuck

Of(kind) == word.kind = kind

\* Routing: the loop of deletePortRouting is a filter unless equal ports are
\* neighbours.
SpliceIsFilter ==
    Of("splice") =>
        \A port \in 1..3 :
            R!SpliceAgrees([i \in DOMAIN word.text |-> [port |-> word.text[i], backup |-> FALSE]],
                           port)
\* Calendar: ngx_gmtime and ngx_parse_http_time agree with the calendar.
DatesAgree == Of("days") => D!DatesAgree(FoldLeft(LAMBDA n, x : 40 * n + x, 0, word.text))
=============================================================================

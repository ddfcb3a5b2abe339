------------------------------- MODULE Peers -------------------------------
(***************************************************************************)
(* The servers of an upstream block as one nginx worker sees them, and the *)
(* ways of choosing among them: weighted round robin, least_conn, ip_hash, *)
(* backups, max_conns, max_fails and fail_timeout.  The http and the       *)
(* stream modules have the same algorithms.                                *)
(*                                                                         *)
(* Time appears as age, the seconds since peer->checked, up to one more    *)
(* than fail_timeout, and as behind, which is accessed < checked.  rest is *)
(* history: the seconds since the last failure.                            *)
(***************************************************************************)
EXTENDS Integers, Sequences, Functions, FiniteSetsExt

CONSTANTS
    Peer,         \* the servers
    Weight,       \* weight[p]
    MaxFails,     \* max_fails[p], 0 for none
    MaxConns,     \* max_conns[p], 0 for none
    Down,         \* the servers with the parameter down
    FailTimeout,  \* fail_timeout in seconds
    NoPeer

ASSUME PeersAssumption ==
    /\ IsFiniteSet(Peer) /\ NoPeer \notin Peer
    /\ Weight \in [Peer -> Nat \ {0}]
    /\ MaxFails \in [Peer -> Nat] /\ MaxConns \in [Peer -> Nat]
    /\ Down \subseteq Peer /\ FailTimeout \in Nat

Expired == FailTimeout + 1

FreshPeer(p) ==
    [conns |-> 0, fails |-> 0, age |-> Expired, behind |-> FALSE, rest |-> Expired,
     effective |-> Weight[p], current |-> 0]
InitPeers == [p \in Peer |-> FreshPeer(p)]

GivenUp(ps, p) == MaxFails[p] > 0 /\ ps[p].fails >= MaxFails[p]

Resting(ps, p) == GivenUp(ps, p) /\ ps[p].age <= FailTimeout
Full(ps, p) == MaxConns[p] > 0 /\ ps[p].conns >= MaxConns[p]
Usable(ps, p) == p \notin Down /\ ~Resting(ps, p) /\ ~Full(ps, p)

Candidates(ps, list, tried) ==
    {p \in Range(list) \ tried : Usable(ps, p)}

\* The first of the list among those in set.
First(list, set) == list[Min({i \in DOMAIN list : list[i] \in set})]

\* What a loop over the list has added up after each of its turns, and in the end.
Upto(list, f) ==
    LET upto[i \in 0..Len(list)] == IF i = 0 THEN 0 ELSE upto[i - 1] + f[list[i]]
    IN  upto
SumOf(list, f) == Upto(list, f)[Len(list)]

Checked(s) == IF s.age > FailTimeout THEN [s EXCEPT !.age = 0, !.behind = TRUE] ELSE s

\* The chosen peer gets a connection; one that was left alone for longer than
\* fail_timeout counts as checked now.
Take(ps, p) == [ps EXCEPT ![p] = [Checked(ps[p]) EXCEPT !.conns = @ + 1]]

Recovered(p, w) == IF w < Weight[p] THEN w + 1 ELSE w

\* Smooth weighted round robin among set: everyone gains its effective
\* weight, the first of the greatest wins and pays for all.
SmoothChoice(ps, list, set) ==
    LET gained == [p \in set |-> ps[p].current + ps[p].effective]
        best == First(list, {p \in set : \A q \in set : gained[q] <= gained[p]})
        total == SumOf(list, [p \in Peer |-> IF p \in set THEN ps[p].effective ELSE 0])
        moved == [p \in DOMAIN ps |->
                    IF p \notin set THEN ps[p]
                    ELSE [ps[p] EXCEPT
                            !.current = gained[p] - (IF p = best THEN total ELSE 0),
                            !.effective = Recovered(p, @)]]
    IN  [peer |-> best, peers |-> Take(moved, best)]

RoundRobin(ps, list, tried) == SmoothChoice(ps, list, Candidates(ps, list, tried))

\* Fewest connections for its weight; round robin among equals.
LeastConn(ps, list, tried) ==
    LET set == Candidates(ps, list, tried)
        best == First(list, {p \in set : \A q \in set :
                                ps[p].conns * Weight[q] <= ps[q].conns * Weight[p]})
        equals == {p \in set : ps[p].conns * Weight[best] = ps[best].conns * Weight[p]}
    IN  IF equals = {best} THEN [peer |-> best, peers |-> Take(ps, best)]
        ELSE SmoothChoice(ps, list, equals)

\* ip_hash: the address, of which three octets count, is hashed again and
\* again until it hits a usable server; after more than 20 misses in the life
\* of a request it is round robin.
HashOctet(hash, octet) == (hash * 113 + octet) % 6271
HashAddr(hash, addr) ==
    HashOctet(HashOctet(HashOctet(hash, addr[1]), addr[2]), addr[3])

\* The server whose share of the weights holds hash % total_weight.
ByWeight(list, hash) ==
    LET w == hash % SumOf(list, Weight)
    IN  list[Min({i \in DOMAIN list : w < Upto(list, Weight)[i]})]

MaxHashes == 20

Drop(ps, p) == [ps EXCEPT ![p].conns = @ - 1]

\* Faulty variant: the effective weight may fall below zero.
FailedNoFloor(p, s) ==
    [s EXCEPT !.fails = Min({@ + 1, MaxFails[p]}), !.age = 0, !.behind = FALSE, !.rest = 0,
              !.effective = IF MaxFails[p] = 0 THEN @ ELSE @ - Weight[p] \div MaxFails[p]]

\* A failure counts (more than max_fails of them make no difference), dates
\* the check and lowers the effective weight; a success forgives the failures
\* when the peer was checked after the last of them.
Failed(p, s) ==
    [s EXCEPT !.fails = Min({@ + 1, MaxFails[p]}), !.age = 0, !.behind = FALSE, !.rest = 0,
              !.effective = IF MaxFails[p] = 0 THEN @
                            ELSE Max({0, @ - Weight[p] \div MaxFails[p]})]
Forgiven(s) == IF s.behind THEN [s EXCEPT !.fails = 0] ELSE s

\* Faulty variant: a failed connection stays counted.
FreePeerKeepsConn(ps, p, failed) ==
    IF failed THEN [ps EXCEPT ![p] = Failed(p, @)]
    ELSE [Drop(ps, p) EXCEPT ![p] = Forgiven(@)]

\* Faulty variant: any success forgives.
FreePeerForgives(ps, p, failed) ==
    [Drop(ps, p) EXCEPT ![p] = IF failed THEN Failed(p, @) ELSE [@ EXCEPT !.fails = 0]]

FreePeer(ps, p, failed) ==
    [Drop(ps, p) EXCEPT ![p] = IF failed THEN Failed(p, @) ELSE Forgiven(@)]

\* A second passes.
Later(age) == Min({age + 1, Expired})
Older(ps) == [p \in DOMAIN ps |-> [ps[p] EXCEPT !.age = Later(@), !.rest = Later(@)]]
=============================================================================

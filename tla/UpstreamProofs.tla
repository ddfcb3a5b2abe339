--------------------------- MODULE UpstreamProofs ---------------------------
(***************************************************************************)
(* Proofs about Upstream: the servers of a block are accounted for, and a  *)
(* request is passed on as it may be, for any servers, weights, limits and *)
(* any number of requests at a time.                                       *)
(***************************************************************************)
EXTENDS Upstream, TLAPS, FiniteSetTheorems

\* The phases in which a request has a server.
WithPeer == {"dial", "send", "connecting", "sending", "waiting", "header", "body"}

PeerState ==
    [conns : Int, fails : Nat, age : Nat, behind : BOOLEAN, rest : Nat,
     effective : Nat, current : Int]

Request ==
    [phase : {"idle", "get"} \cup WithPeer, method : {"GET", "POST"},
     list : {"primary", "backup"}, tried : SUBSET Peer, peer : Peer \cup {NoPeer},
     tries : Nat, sent : BOOLEAN, held : BOOLEAN, hash : Nat, misses : Nat,
     had : SUBSET Peer, reached : SUBSET Peer, probe : Int]

-----------------------------------------------------------------------------
(* The inductive invariant.                                                *)

Typed ==
    /\ block \in Blocks
    /\ peers \in [Peer -> PeerState]
    /\ req \in [Slots -> Request]

\* The numbers of a server keep their limits.
PeerBounds(ps) ==
    \A p \in Peer :
        /\ ps[p].fails <= MaxFails[p] /\ ps[p].effective <= Weight[p]
        /\ ps[p].age <= Expired /\ ps[p].rest <= Expired

\* A server has been checked since it failed, and is behind only when it has
\* been left alone long enough.  A single server has no failures.
Clocks(ps) ==
    \A p \in Peer :
        /\ ps[p].age <= ps[p].rest
        /\ ps[p].behind => ps[p].rest > FailTimeout
        /\ Single => ps[p].fails = 0

\* The servers a request has had are marked as tried, or are of the list it has
\* left.  A single server is not tried again.
Marks(q) ==
    /\ Hashing(q) => q.list = "primary"
    /\ q.list = "primary" => q.tried \subseteq Range(block.primary)
    /\ ~Single => q.had \subseteq
            IF q.list = "primary" THEN q.tried ELSE q.tried \cup Range(block.primary)
    /\ Single /\ q.phase = "get" => q.had = {}

\* A request has a server from the time it is given one until that is freed.
Sound(q) ==
    /\ q.tries <= Len(block.primary) + Len(block.backup)
    /\ q.misses <= MaxHashes + 1 /\ q.probe >= -1
    /\ q.peer = NoPeer <=> q.phase \in {"idle", "get"}
    /\ q.phase = "idle" => q = NoRequest
    /\ Marks(q)

OneHandler == \A r, s \in Slots : InPhase(r, Handling) /\ InPhase(s, Handling) => r = s

\* A request that tries out a server has had it checked.
Probing ==
    \A r \in Slots :
        req[r].peer \in Peer /\ req[r].probe >= 0 => peers[req[r].peer].age <= req[r].probe

Inv ==
    /\ Typed /\ PeerBounds(peers) /\ Clocks(peers)
    /\ \A r \in Slots : Sound(req[r])
    /\ OneHandler /\ Probing /\ OneProbe /\ ConnsCounted /\ WeightsBalance

\* What must not be repeated has been sent at most to the server of the moment,
\* and is then not passed on.
Once(q) ==
    /\ q.phase \in {"get", "dial"} /\ q.method = "POST" => q.reached = {}
    /\ block.section = "http" /\ q.method = "POST" =>
            q.reached = {} \/ (q.sent /\ q.reached = {q.peer})
    /\ block.section = "stream" =>
            q.reached = {} \/ (q.phase = "body" /\ q.reached = {q.peer})
SentOnce == \A r \in Slots : Once(req[r])
Repeats == "non_idempotent" \in NextUpstream

-----------------------------------------------------------------------------
(* Sums over a list.                                                       *)

LEMMA LeastNumber ==
    ASSUME NEW S \in SUBSET Nat, S # {}
    PROVE  \E n \in S : \A k \in S : n <= k
<1>1. IsWellFoundedOn(OpToRel(<, Nat), Nat)
  BY NatLessThanWellFounded, Zenon
<1>2. PICK n \in S : \A k \in S : ~(<<k, n>> \in OpToRel(<, Nat))
  BY <1>1, WFMin, Zenon
<1>3. \A k \in S : ~(k < n)
  BY <1>2, Zenon DEF OpToRel
<1> QED
  BY <1>3

\* Induction over the turns of a loop.
LEMMA Turns ==
    ASSUME NEW n \in Nat, NEW S, 0 \in S, \A i \in 1..n : i - 1 \in S => i \in S
    PROVE  \A i \in 0..n : i \in S
<1> DEFINE Bad == (0..n) \ S
<1>1. SUFFICES ASSUME Bad # {} PROVE FALSE
  OBVIOUS
<1>2. PICK k \in Bad : \A j \in Bad : k <= j
  <2>1. Bad \in SUBSET Nat
    OBVIOUS
  <2> HIDE DEF Bad
  <2> QED
    BY <1>1, <2>1, LeastNumber
<1>3. k \in 1..n /\ k - 1 \in 0..n /\ k - 1 \notin Bad
  BY <1>2
<1> QED
  BY <1>3

\* s holds the sums of the first terms of t.
Sums(s, t, n) ==
    /\ s \in [0..n -> Int] /\ s[0] = 0
    /\ \A i \in 1..n : s[i] = s[i - 1] + t[i]

LEMMA SumsExist ==
    ASSUME NEW m \in Nat, NEW t \in [1..m -> Int]
    PROVE  \E s : Sums(s, t, m)
<1> DEFINE Done == {n \in 0..m : \E s : Sums(s, t, n)}
<1>1. 0 \in Done
  <2>1. Sums([i \in 0..0 |-> 0], t, 0)
    BY DEF Sums
  <2> QED
    BY <2>1
<1>2. ASSUME NEW n \in 1..m, n - 1 \in Done PROVE n \in Done
  <2>1. PICK s : Sums(s, t, n - 1)
    BY <1>2
  <2> DEFINE u == [i \in 0..n |-> IF i = n THEN s[n - 1] + t[n] ELSE s[i]]
  <2>2. s[n - 1] \in Int /\ t[n] \in Int
    BY <2>1 DEF Sums
  <2>3. u \in [0..n -> Int]
    BY <2>1 DEF Sums
  <2>4. u[0] = 0
    BY <2>1 DEF Sums
  <2>5. ASSUME NEW i \in 1..n PROVE u[i] = u[i - 1] + t[i]
    BY <2>1 DEF Sums
  <2>6. Sums(u, t, n)
    <3> HIDE DEF u
    <3> QED
      BY <2>3, <2>4, <2>5 DEF Sums
  <2> QED
    BY <2>6
<1>3. \A i \in 0..m : i \in Done
  <2> HIDE DEF Done
  <2> QED
    BY <1>1, <1>2, Turns, Zenon
<1> QED
  BY <1>3

\* The loop that adds up is defined and does so.
LEMMA UptoSums ==
    ASSUME NEW list \in Seq(Peer), NEW f \in [Peer -> Int]
    PROVE  Sums(Upto(list, f), [i \in 1..Len(list) |-> f[list[i]]], Len(list))
<1> DEFINE n == Len(list)
           t == [i \in 1..n |-> f[list[i]]]
           Turn(g) == [i \in 0..n |-> IF i = 0 THEN 0 ELSE g[i - 1] + f[list[i]]]
           loop == CHOOSE g : g = Turn(g)
<1>1. n \in Nat /\ t \in [1..n -> Int]
  OBVIOUS
<1>2. PICK s : Sums(s, t, n)
  <2> HIDE DEF n, t
  <2> QED
    BY <1>1, SumsExist
<1>3. s = Turn(s)
  BY <1>2 DEF Sums
<1>4. loop = Turn(loop)
  BY <1>3, Zenon
<1>5. Upto(list, f) = loop
  BY DEF Upto
<1> HIDE DEF loop
<1>6. loop[0] = 0 /\ \A i \in 1..n : loop[i] = loop[i - 1] + t[i]
  BY <1>1, <1>4
<1>7. \A i \in 0..n : loop[i] \in Int
  <2> DEFINE S == {i \in 0..n : loop[i] \in Int}
  <2>1. 0 \in S
    BY <1>6
  <2>2. \A i \in 1..n : i - 1 \in S => i \in S
    BY <1>1, <1>6
  <2>3. \A i \in 0..n : i \in S
    <3> HIDE DEF S, n
    <3> QED
      BY <1>1, <2>1, <2>2, Turns, Zenon
  <2> QED
    BY <2>3
<1>8. loop \in [0..n -> Int]
  BY <1>4, <1>7
<1> QED
  BY <1>5, <1>6, <1>8 DEF Sums

LEMMA SumType ==
    ASSUME NEW list \in Seq(Peer), NEW f \in [Peer -> Int]
    PROVE  SumOf(list, f) \in Int
BY UptoSums DEF SumOf, Sums

LEMMA UptoIs ==
    ASSUME NEW list \in Seq(Peer), NEW f \in [Peer -> Int]
    PROVE  /\ Upto(list, f) \in [0..Len(list) -> Int] /\ Upto(list, f)[0] = 0
           /\ \A i \in 1..Len(list) :
                /\ list[i] \in Peer /\ f[list[i]] \in Int
                /\ Upto(list, f)[i] = Upto(list, f)[i - 1] + f[list[i]]
BY UptoSums DEF Sums

Plus(f, g) == [p \in Peer |-> f[p] + g[p]]

LEMMA SumAdds ==
    ASSUME NEW list \in Seq(Peer), NEW f \in [Peer -> Int], NEW g \in [Peer -> Int]
    PROVE  SumOf(list, Plus(f, g)) = SumOf(list, f) + SumOf(list, g)
<1> DEFINE h == Plus(f, g)
<1>0. h \in [Peer -> Int] /\ \A p \in Peer : h[p] = f[p] + g[p]
  BY DEF Plus
<1> HIDE DEF h
<1> DEFINE n == Len(list)
           S == {i \in 0..n : Upto(list, h)[i] = Upto(list, f)[i] + Upto(list, g)[i]}
<1>1. n \in Nat
  OBVIOUS
<1>2. 0 \in S
  <2>1. Upto(list, f)[0] = 0 /\ Upto(list, g)[0] = 0 /\ Upto(list, h)[0] = 0
    BY <1>0, UptoIs
  <2> QED
    BY <2>1
<1>3. ASSUME NEW i \in 1..n, i - 1 \in S PROVE i \in S
  <2>1. /\ i \in 0..n /\ i - 1 \in 0..n
        /\ Upto(list, h)[i - 1] = Upto(list, f)[i - 1] + Upto(list, g)[i - 1]
    BY <1>3
  <2>2. /\ Upto(list, f)[i - 1] \in Int /\ Upto(list, g)[i - 1] \in Int
        /\ list[i] \in Peer /\ f[list[i]] \in Int /\ g[list[i]] \in Int
        /\ Upto(list, f)[i] = Upto(list, f)[i - 1] + f[list[i]]
        /\ Upto(list, g)[i] = Upto(list, g)[i - 1] + g[list[i]]
        /\ Upto(list, h)[i] = Upto(list, h)[i - 1] + h[list[i]]
    BY <1>0, <2>1, UptoIs, Zenon
  <2>3. Upto(list, h)[i] = Upto(list, f)[i] + Upto(list, g)[i]
    BY <1>0, <2>1, <2>2
  <2> QED
    BY <2>3
<1>4. \A i \in 0..n : i \in S
  <2> HIDE DEF S, n
  <2> QED
    BY <1>1, <1>2, <1>3, Turns, Zenon
<1> QED
  BY <1>4 DEF SumOf, h

LEMMA SumZero ==
    ASSUME NEW list \in Seq(Peer), NEW f \in [Peer -> Int],
           \A i \in 1..Len(list) : f[list[i]] = 0
    PROVE  SumOf(list, f) = 0
<1> DEFINE n == Len(list)
           S == {i \in 0..n : Upto(list, f)[i] = 0}
<1>1. n \in Nat
  OBVIOUS
<1>2. 0 \in S
  BY UptoIs
<1>3. ASSUME NEW i \in 1..n, i - 1 \in S PROVE i \in S
  <2>1. Upto(list, f)[i] = Upto(list, f)[i - 1] + f[list[i]] /\ f[list[i]] = 0
    BY UptoIs
  <2> QED
    BY <1>3, <2>1
<1>4. \A i \in 0..n : i \in S
  <2> HIDE DEF S, n
  <2> QED
    BY <1>1, <1>2, <1>3, Turns, Zenon
<1> QED
  BY <1>4 DEF SumOf

LEMMA SumSame ==
    ASSUME NEW list \in Seq(Peer), NEW f \in [Peer -> Int], NEW h \in [Peer -> Int],
           \A i \in 1..Len(list) : h[list[i]] = f[list[i]]
    PROVE  SumOf(list, h) = SumOf(list, f)
<1> DEFINE n == Len(list)
           S == {i \in 0..n : Upto(list, h)[i] = Upto(list, f)[i]}
<1>1. n \in Nat
  OBVIOUS
<1>2. 0 \in S
  BY UptoIs
<1>3. ASSUME NEW i \in 1..n, i - 1 \in S PROVE i \in S
  <2>1. /\ Upto(list, f)[i] = Upto(list, f)[i - 1] + f[list[i]]
        /\ Upto(list, h)[i] = Upto(list, h)[i - 1] + h[list[i]] /\ h[list[i]] = f[list[i]]
    BY UptoIs, Zenon
  <2> QED
    BY <1>3, <2>1
<1>4. \A i \in 0..n : i \in S
  <2> HIDE DEF S, n
  <2> QED
    BY <1>1, <1>2, <1>3, Turns, Zenon
<1> QED
  BY <1>4 DEF SumOf

\* Only one server of the list counts.
LEMMA SumPoint ==
    ASSUME NEW list \in Seq(Peer), NEW f \in [Peer -> Int],
           NEW k \in 1..Len(list),
           \A i \in 1..Len(list) : i # k => f[list[i]] = 0
    PROVE  SumOf(list, f) = f[list[k]]
<1> DEFINE n == Len(list)
           S == {i \in 0..n : Upto(list, f)[i] = IF i < k THEN 0 ELSE f[list[k]]}
<1>1. n \in Nat /\ f[list[k]] \in Int
  BY UptoIs
<1>2. 0 \in S
  BY UptoIs
<1>3. ASSUME NEW i \in 1..n, i - 1 \in S PROVE i \in S
  <2>1. /\ i \in 0..n /\ i - 1 \in 0..n
        /\ Upto(list, f)[i - 1] = IF i - 1 < k THEN 0 ELSE f[list[k]]
    BY <1>3
  <2>2. Upto(list, f)[i] = Upto(list, f)[i - 1] + f[list[i]] /\ f[list[i]] \in Int
    BY UptoIs
  <2>3. CASE i = k
    BY <2>1, <2>2
  <2>4. CASE i # k
    BY <2>1, <2>2
  <2> QED
    BY <2>3, <2>4
<1>4. \A i \in 0..n : i \in S
  <2> HIDE DEF S, n
  <2> QED
    BY <1>1, <1>2, <1>3, Turns, Zenon
<1> QED
  BY <1>4 DEF SumOf

-----------------------------------------------------------------------------
(* The shapes of the steps.                                                *)

Apart(list, other) == Range(list) \cap Range(other) = {}

LEMMA BlockIs ==
    ASSUME block \in Blocks
    PROVE  /\ block.primary \in Seq(Peer) /\ block.backup \in Seq(Peer)
           /\ block.primary # <<>> /\ block.section \in {"http", "stream"}
           /\ IsInjective(block.primary) /\ IsInjective(block.backup)
           /\ Apart(block.primary, block.backup) /\ Apart(block.backup, block.primary)
           /\ Range(block.primary) \subseteq Peer /\ Range(block.backup) \subseteq Peer
           /\ Len(block.primary) + Len(block.backup) <= Cardinality(Peer)
<1> DEFINE s == block.primary
           t == block.backup
           u == s \o t
<1>1. /\ s \in Seq(Peer) /\ t \in Seq(Peer) /\ s # <<>> /\ IsInjective(u)
      /\ block.section \in {"http", "stream"}
  BY BlocksAssumption
<1> HIDE DEF s, t
<1>2. /\ Len(s) \in Nat /\ Len(t) \in Nat /\ DOMAIN s = 1..Len(s) /\ DOMAIN t = 1..Len(t)
      /\ u \in Seq(Peer) /\ Len(u) = Len(s) + Len(t) /\ DOMAIN u = 1..(Len(s) + Len(t))
  BY <1>1
<1>3. /\ \A i \in 1..Len(s) : i \in DOMAIN u /\ u[i] = s[i]
      /\ \A i \in 1..Len(t) : Len(s) + i \in DOMAIN u /\ u[Len(s) + i] = t[i]
  BY <1>2
<1> HIDE DEF u
<1>4. \A i, j \in DOMAIN u : u[i] = u[j] => i = j
  BY <1>1 DEF IsInjective
<1>5. IsInjective(s)
  BY <1>3, <1>4 DEF IsInjective
<1>6. IsInjective(t)
  BY <1>2, <1>3, <1>4 DEF IsInjective
<1>7. Apart(s, t) /\ Apart(t, s)
  <2>1. ASSUME NEW i \in 1..Len(s), NEW j \in 1..Len(t), s[i] = t[j] PROVE FALSE
    BY <1>3, <1>4, <2>1
  <2> QED
    BY <1>2, <2>1 DEF Apart, Range
<1>8. Range(s) \subseteq Peer /\ Range(t) \subseteq Peer
  BY <1>1 DEF Range
<1>9. Len(s) + Len(t) <= Cardinality(Peer)
  <2> DEFINE n == Len(s) + Len(t)
  <2>1. u \in Injection(1..n, Peer)
    <3>1. u \in [1..n -> Peer]
      BY <1>2
    <3> QED
      BY <1>1, <3>1 DEF Injection, u
  <2>2. n \in Nat /\ Cardinality(1..n) = n
    BY <1>2, FS_Interval
  <2>3. Cardinality(1..n) <= Cardinality(Peer)
    <3> HIDE DEF n
    <3> QED
      BY <2>1, PeersAssumption, FS_Injection
  <2> QED
    BY <2>2, <2>3
<1> QED
  BY <1>1, <1>5, <1>6, <1>7, <1>8, <1>9, Zenon DEF s, t

\* What giving server p to a request does to the servers.
Took(ps, qs, p) ==
    /\ qs \in [Peer -> PeerState] /\ PeerBounds(qs)
    /\ \A x \in Peer :
        /\ qs[x].fails = ps[x].fails /\ qs[x].rest = ps[x].rest
        /\ qs[x].conns = IF x = p THEN ps[x].conns + 1 ELSE ps[x].conns
        /\ x # p => qs[x].age = ps[x].age /\ qs[x].behind = ps[x].behind
    /\ qs[p].age <= ps[p].age
    /\ ps[p].age > FailTimeout /\ GivenUp(ps, p) => qs[p].age = 0
    /\ qs[p].behind => ps[p].behind \/ ps[p].age > FailTimeout
Currents(list, ps) == SumOf(list, [p \in Peer |-> ps[p].current])
SameCurrents(qs) ==
    \A list \in {block.primary, block.backup} : Currents(list, qs) = Currents(list, peers)

\* What a request becomes that is given server p.
Obtained(q, x, p) ==
    /\ x \in Request /\ x.phase = "dial" /\ x.peer = p /\ x.had = q.had \cup {p}
    /\ x.probe = (IF GivenUp(peers, p) THEN 0 ELSE -1)
    /\ x.method = q.method /\ x.tries = q.tries /\ x.sent = q.sent /\ x.held = q.held
    /\ x.misses = q.misses /\ x.reached = q.reached
    /\ Marks(x)
    /\ p \notin q.had
    /\ GivenUp(peers, p) => peers[p].age > FailTimeout

\* The servers after a step in which none is given: no weight is paid, and no
\* failure is forgiven but of one that is behind.
Eased(qs) ==
    /\ qs \in [Peer -> PeerState] /\ PeerBounds(qs) /\ Clocks(qs)
    /\ \A p \in Peer :
        /\ qs[p].current = peers[p].current /\ qs[p].age <= peers[p].age
        /\ qs[p].fails >= peers[p].fails \/ peers[p].behind

\* A step of one handler makes x of the request in slot r, which keeps its
\* server, if any, or gives it back, or gets one.
SameConns == \A p \in Peer : peers'[p].conns = peers[p].conns
Stays(r, x) ==
    /\ Eased(peers') /\ SameConns
    /\ x.peer = req[r].peer /\ x.probe \in {req[r].probe, -1}
Leaves(r, x) ==
    /\ Eased(peers') /\ req[r].peer \in Peer
    /\ \A p \in Peer : peers'[p].conns = IF p = req[r].peer THEN peers[p].conns - 1
                                         ELSE peers[p].conns
    /\ x.peer = NoPeer /\ (x.probe = -1 \/ x.phase = "get")
Joins(r, x, p) ==
    /\ req[r].peer = NoPeer /\ Obtained(req[r], x, p)
    /\ Took(peers, peers', p) /\ SameCurrents(peers')
Turned(r, x) ==
    /\ block' = block /\ req' = [req EXCEPT ![r] = x]
    /\ x \in Request /\ Sound(x)
    /\ InPhase(r, Handling) \/ Free
    /\ Stays(r, x) \/ Leaves(r, x) \/ \E p \in Peer : Joins(r, x, p)
    /\ Once(req[r]) => Once(x) \/ Repeats

LEMMA RequestIs ==
    ASSUME Inv, NEW r \in Slots
    PROVE  /\ block \in Blocks /\ NoPeer \notin Peer /\ MaxHashes = 20
           /\ req[r] \in Request /\ Sound(req[r])
           /\ req[r].phase \in WithPeer <=> req[r].peer \in Peer
           /\ Len(block.primary) \in Nat /\ Len(block.backup) \in Nat
           /\ block.section \in {"http", "stream"}
<1>1. /\ block \in Blocks /\ NoPeer \notin Peer /\ req[r] \in Request /\ Sound(req[r])
  BY PeersAssumption DEF Inv, Typed
<1>2. Len(block.primary) \in Nat /\ Len(block.backup) \in Nat /\ block.section \in {"http", "stream"}
  BY <1>1, BlockIs
<1>3. req[r].phase \in {"idle", "get"} \cup WithPeer /\ req[r].peer \in Peer \cup {NoPeer}
  BY <1>1 DEF Request
<1>4. req[r].phase \in WithPeer <=> req[r].peer \in Peer
  BY <1>1, <1>3 DEF Sound, WithPeer
<1> QED
  BY <1>1, <1>2, <1>4 DEF MaxHashes

LEMMA NoRequestIs ==
    ASSUME Inv, NEW r \in Slots
    PROVE  /\ NoRequest \in Request /\ Sound(NoRequest) /\ Once(NoRequest)
           /\ NoRequest.peer = NoPeer /\ NoRequest.probe = -1
<1>1. NoRequest \in Request /\ NoRequest.peer = NoPeer /\ NoRequest.probe = -1
  BY DEF NoRequest, Request
<1>2. /\ NoRequest.tries = 0 /\ NoRequest.misses = 0 /\ NoRequest.phase = "idle"
      /\ NoRequest.list = "primary" /\ NoRequest.tried = {} /\ NoRequest.had = {}
      /\ NoRequest.reached = {}
  BY DEF NoRequest
<1>3. Marks(NoRequest)
  BY <1>2 DEF Marks
<1>4. /\ NoRequest.tries <= Len(block.primary) + Len(block.backup)
      /\ NoRequest.misses <= MaxHashes + 1 /\ NoRequest.probe >= -1
  <2> DEFINE n == Len(block.primary)
             k == Len(block.backup)
  <2>1. n \in Nat /\ k \in Nat /\ MaxHashes = 20
    BY RequestIs
  <2> HIDE DEF n, k
  <2>2. /\ NoRequest.tries <= n + k
        /\ NoRequest.misses <= MaxHashes + 1 /\ NoRequest.probe >= -1
    BY <1>1, <1>2, <2>1
  <2> QED
    BY <2>2, Zenon DEF n, k
<1>5. Sound(NoRequest)
  BY <1>1, <1>2, <1>3, <1>4, Zenon DEF Sound
<1>6. Once(NoRequest)
  BY <1>2 DEF Once
<1> QED
  BY <1>1, <1>5, <1>6

-----------------------------------------------------------------------------
(* What a step of one of these shapes keeps.                               *)

LEMMA TurnedIs ==
    ASSUME Inv, NEW r \in Slots, NEW x, Turned(r, x)
    PROVE  /\ req' \in [Slots -> Request] /\ req'[r] = x
           /\ \A s \in Slots : s # r => req'[s] = req[s] /\ ~InPhase(s, Handling)
           /\ peers' \in [Peer -> PeerState] /\ PeerBounds(peers') /\ Clocks(peers')
           /\ \A p \in Peer : peers'[p].age \in Nat /\ peers'[p].age <= peers[p].age
<1>1. req \in [Slots -> Request] /\ peers \in [Peer -> PeerState] /\ Clocks(peers)
  BY DEF Inv, Typed
<1>2. x \in Request /\ req' = [req EXCEPT ![r] = x]
  BY DEF Turned
<1>3. /\ req' \in [Slots -> Request] /\ req'[r] = x
      /\ \A s \in Slots : s # r => req'[s] = req[s]
  BY <1>1, <1>2
<1>4. \A s \in Slots : s # r => ~InPhase(s, Handling)
  BY DEF Turned, Inv, OneHandler, Free
<1>5. CASE Eased(peers')
  BY <1>3, <1>4, <1>5 DEF Eased, PeerState
<1>6. CASE \E p \in Peer : Joins(r, x, p)
  <2>1. PICK p \in Peer : Took(peers, peers', p)
    BY <1>6 DEF Joins
  <2>2. peers' \in [Peer -> PeerState] /\ PeerBounds(peers')
    BY <2>1 DEF Took
  <2>3. \A y \in Peer : /\ peers'[y].age \in Nat /\ peers[y].age \in Nat /\ peers[y].rest \in Nat
                        /\ FailTimeout \in Nat
    BY <1>1, <2>2, PeersAssumption DEF PeerState
  <2>4. \A y \in Peer : /\ peers'[y].age <= peers[y].age /\ peers'[y].rest = peers[y].rest
                        /\ peers'[y].fails = peers[y].fails
                        /\ peers'[y].behind => peers[y].behind \/ peers[y].age > FailTimeout
    BY <2>1, <2>3 DEF Took
  <2>5. Clocks(peers')
    BY <1>1, <2>3, <2>4 DEF Clocks
  <2> QED
    BY <1>3, <1>4, <2>2, <2>3, <2>4, <2>5
<1> QED
  BY <1>5, <1>6 DEF Turned, Stays, Leaves

LEMMA TurnedTyped ==
    ASSUME Inv, NEW r \in Slots, NEW x, Turned(r, x)
    PROVE  /\ Typed' /\ PeerBounds(peers)' /\ Clocks(peers)' /\ OneHandler'
           /\ \A s \in Slots : Sound(req[s])'
<1>1. block' = block /\ block \in Blocks /\ Sound(x)
  BY DEF Turned, Inv, Typed
<1>2. /\ req' \in [Slots -> Request] /\ req'[r] = x
      /\ \A s \in Slots : s # r => req'[s] = req[s] /\ ~InPhase(s, Handling)
      /\ peers' \in [Peer -> PeerState] /\ PeerBounds(peers') /\ Clocks(peers')
  BY TurnedIs
<1>3. Typed'
  BY <1>1, <1>2 DEF Typed
<1>4. PeerBounds(peers)'
  BY <1>2 DEF PeerBounds
<1>5. Single' <=> Single
  BY <1>1 DEF Single
<1>6. Clocks(peers)'
  BY <1>2, <1>5 DEF Clocks
<1>7. \A s \in Slots : s # r => ~InPhase(s, Handling)'
  BY <1>2 DEF InPhase
<1>8. OneHandler'
  BY <1>7 DEF OneHandler
<1>9. ASSUME NEW s \in Slots PROVE Sound(req[s])'
  <2>1. Sound(req'[s])
    BY <1>1, <1>2 DEF Inv
  <2>2. Hashing(req[s])' <=> Hashing(req'[s])
    BY <1>1, <1>5 DEF Hashing
  <2>3. Marks(req'[s]) => Marks(req[s])'
    BY <1>1, <1>5, <2>2 DEF Marks
  <2> QED
    BY <1>1, <2>1, <2>3, Zenon DEF Sound
<1> QED
  BY <1>3, <1>4, <1>6, <1>8, <1>9

\* Server p is tried out only when all that tried it out before have had it for
\* more than fail_timeout.
LEMMA ProbedBefore ==
    ASSUME Inv, NEW r \in Slots, NEW p \in Peer, req[r].peer = p, req[r].probe >= 0,
           peers[p].age > FailTimeout
    PROVE  req[r].probe > FailTimeout
BY PeersAssumption DEF Inv, Probing, Typed, PeerState, Request

LEMMA TurnedProbes ==
    ASSUME Inv, NEW r \in Slots, NEW x, Turned(r, x)
    PROVE  Probing' /\ OneProbe'
<1>1. /\ req' \in [Slots -> Request] /\ req'[r] = x
      /\ \A s \in Slots : s # r => req'[s] = req[s] /\ ~InPhase(s, Handling)
      /\ \A p \in Peer : peers'[p].age \in Nat /\ peers'[p].age <= peers[p].age
  BY TurnedIs
<1>2. /\ \A p \in Peer : peers[p].age \in Nat
      /\ \A s \in Slots : req[s].probe \in Int /\ req'[s].probe \in Int
      /\ FailTimeout \in Nat /\ NoPeer \notin Peer
  BY <1>1, PeersAssumption DEF Inv, Typed, PeerState, Request
<1>3. ASSUME NEW s \in Slots, req'[s].peer = req[s].peer, req'[s].probe = req[s].probe,
             req'[s].peer \in Peer, req'[s].probe >= 0
      PROVE  peers'[req'[s].peer].age <= req'[s].probe
  BY <1>1, <1>2, <1>3 DEF Inv, Probing
<1>4. \A s \in Slots : s # r /\ req'[s].peer \in Peer /\ req'[s].probe >= 0 =>
            peers'[req'[s].peer].age <= req'[s].probe
  BY <1>1, <1>3
<1>5. \A s, t \in Slots : s # r /\ t # r /\ s # t /\ req'[s].peer = req'[t].peer
            /\ req'[s].probe = 0 => req'[t].probe \notin 0..FailTimeout
  BY <1>1 DEF Inv, OneProbe
<1> SUFFICES /\ x.peer \in Peer /\ x.probe >= 0 => peers'[x.peer].age <= x.probe
             /\ \A s \in Slots : s # r /\ req'[s].peer = x.peer =>
                    /\ x.probe = 0 => req'[s].probe \notin 0..FailTimeout
                    /\ req'[s].probe = 0 => x.probe \notin 0..FailTimeout
  BY <1>1, <1>4, <1>5 DEF Probing, OneProbe
<1>6. CASE x.probe = -1
  BY <1>6
<1>7. CASE Stays(r, x) /\ x.probe # -1
  BY <1>1, <1>3, <1>7 DEF Stays, Inv, OneProbe
<1>8. CASE Leaves(r, x) /\ x.probe # -1
  <2>1. x.peer = NoPeer
    BY <1>8 DEF Leaves
  <2>2. \A s \in Slots : s # r /\ req'[s].peer = NoPeer => req'[s].probe = -1
    <3> SUFFICES ASSUME NEW s \in Slots, s # r, req[s].peer = NoPeer PROVE req[s].probe = -1
      BY <1>1
    <3>1. req[s].phase \in {"idle", "get"} /\ Sound(req[s])
      BY Zenon DEF Inv, Sound
    <3>2. req[s].phase # "get"
      BY <1>1 DEF InPhase, Handling
    <3>3. req[s] = NoRequest
      BY <3>1, <3>2 DEF Sound
    <3> QED
      BY <3>3 DEF NoRequest
  <2> QED
    BY <1>2, <2>1, <2>2
<1>9. CASE (\E p \in Peer : Joins(r, x, p)) /\ x.probe # -1
  BY <1>1, <1>2, <1>9, ProbedBefore DEF Joins, Obtained, Took
<1> QED
  BY <1>7, <1>8, <1>9 DEF Turned

LEMMA TurnedCounts ==
    ASSUME Inv, NEW r \in Slots, NEW x, Turned(r, x)
    PROVE  ConnsCounted'
<1>1. /\ req' \in [Slots -> Request] /\ req'[r] = x
      /\ \A s \in Slots : s # r => req'[s] = req[s]
  BY TurnedIs
<1> SUFFICES ASSUME NEW p \in Peer PROVE peers'[p].conns = Cardinality(Holders(p)')
  BY DEF ConnsCounted
<1>2. peers[p].conns = Cardinality(Holders(p)) /\ NoPeer # p
  BY PeersAssumption DEF Inv, ConnsCounted
<1>3. IsFiniteSet(Holders(p))
  BY BlocksAssumption, FS_Subset DEF Holders
<1>4. r \in Holders(p) <=> req[r].peer = p
  BY DEF Holders
<1>5. Holders(p)' = IF x.peer = p THEN Holders(p) \cup {r} ELSE Holders(p) \ {r}
  BY <1>1 DEF Holders
<1>6. CASE Stays(r, x)
  BY <1>2, <1>4, <1>5, <1>6, Zenon DEF Stays, SameConns
<1>7. CASE Leaves(r, x)
  <2>1. Holders(p)' = Holders(p) \ {r}
    BY <1>2, <1>5, <1>7 DEF Leaves
  <2>2. Cardinality(Holders(p)') = IF r \in Holders(p) THEN Cardinality(Holders(p)) - 1
                                   ELSE Cardinality(Holders(p))
    BY <1>3, <2>1, FS_RemoveElement, Zenon
  <2> QED
    BY <1>2, <1>4, <1>7, <2>2 DEF Leaves
<1>8. CASE \E y \in Peer : Joins(r, x, y)
  <2>1. PICK y \in Peer : Joins(r, x, y)
    BY <1>8
  <2>2. x.peer = y /\ req[r].peer = NoPeer
    BY <2>1 DEF Joins, Obtained
  <2>3. peers'[p].conns = IF p = y THEN peers[p].conns + 1 ELSE peers[p].conns
    BY <2>1 DEF Joins, Took
  <2>4. r \notin Holders(p)
    BY <1>2, <1>4, <2>2
  <2>5. CASE p = y
    <3>1. Cardinality(Holders(p) \cup {r}) = Cardinality(Holders(p)) + 1
      BY <1>3, <2>4, FS_AddElement, Zenon
    <3> QED
      BY <1>2, <1>5, <2>2, <2>3, <2>5, <3>1
  <2>6. CASE p # y
    BY <1>2, <1>5, <2>2, <2>3, <2>4, <2>6, Zenon
  <2> QED
    BY <2>5, <2>6
<1> QED
  BY <1>6, <1>7, <1>8 DEF Turned

LEMMA TurnedBalances ==
    ASSUME Inv, NEW r \in Slots, NEW x, Turned(r, x)
    PROVE  WeightsBalance'
BY DEF Eased, SameCurrents, Currents, Joins, Turned, Stays, Leaves, Inv, WeightsBalance

LEMMA TurnedKeeps ==
    ASSUME Inv, NEW r \in Slots, NEW x, Turned(r, x)
    PROVE  Inv'
BY TurnedTyped, TurnedProbes, TurnedCounts, TurnedBalances DEF Inv

\* What a step does not do: give a server twice, give one that is left alone, or
\* make up for its failures.
GivenOnce ==
    \A r \in Slots : req'[r].peer \notin {NoPeer, req[r].peer} => req'[r].peer \notin req[r].had
LetRest ==
    \A p \in Peer :
        GivenUp(peers, p) /\ peers[p].rest <= FailTimeout =>
            /\ peers'[p].fails >= peers[p].fails
            /\ \A r \in Slots : req'[r].peer = p => req[r].peer = p

LEMMA TurnedLets ==
    ASSUME Inv, NEW r \in Slots, NEW x, Turned(r, x)
    PROVE  GivenOnce /\ LetRest
<1>1. req'[r] = x /\ \A s \in Slots : s # r => req'[s] = req[s]
  BY TurnedIs
<1>2. /\ peers \in [Peer -> PeerState] /\ Clocks(peers) /\ FailTimeout \in Nat /\ NoPeer \notin Peer
      /\ \A p \in Peer : peers[p].age \in Nat /\ peers[p].rest \in Nat /\ peers[p].fails \in Nat
  BY PeersAssumption DEF Inv, Typed, PeerState
<1>3. CASE Stays(r, x) \/ Leaves(r, x)
  BY <1>1, <1>2, <1>3 DEF Stays, Leaves, GivenOnce, Clocks, Eased, LetRest
<1>4. CASE \E p \in Peer : Joins(r, x, p)
  BY <1>1, <1>2, <1>4 DEF Joins, Obtained, GivenOnce, Clocks, Took, LetRest
<1> QED
  BY <1>3, <1>4 DEF Turned

LEMMA TurnedOnce ==
    ASSUME Inv, SentOnce, ~Repeats, NEW r \in Slots, NEW x, Turned(r, x)
    PROVE  SentOnce'
BY TurnedIs DEF Turned, SentOnce, Once

-----------------------------------------------------------------------------
(* What a second keeps.                                                    *)

LEMMA LaterIs ==
    ASSUME NEW a \in Nat
    PROVE  /\ Later(a) \in Nat /\ Later(a) <= Expired /\ Later(a) >= 1
           /\ a > FailTimeout => Later(a) > FailTimeout
           /\ Later(a) = IF a + 1 <= Expired THEN a + 1 ELSE Expired
BY PeersAssumption DEF Expired, Later, Min

LEMMA LaterGrows ==
    ASSUME NEW a \in Nat, NEW b \in Nat, a <= b
    PROVE  Later(a) <= Later(b)
BY PeersAssumption, LaterIs DEF Expired

LEMMA TickIs ==
    ASSUME Inv, Tick
    PROVE  /\ block' = block /\ peers' \in [Peer -> PeerState] /\ req' \in [Slots -> Request]
           /\ \A p \in Peer :
                /\ peers'[p].conns = peers[p].conns /\ peers'[p].fails = peers[p].fails
                /\ peers'[p].behind = peers[p].behind /\ peers'[p].effective = peers[p].effective
                /\ peers'[p].current = peers[p].current
                /\ peers'[p].age = Later(peers[p].age) /\ peers'[p].rest = Later(peers[p].rest)
           /\ \A r \in Slots :
                /\ req'[r] = [req[r] EXCEPT !.probe = req'[r].probe]
                /\ req'[r].probe = IF req[r].probe < 0 THEN req[r].probe ELSE Later(req[r].probe)
<1>1. /\ block' = block /\ peers \in [Peer -> PeerState] /\ req \in [Slots -> Request]
      /\ peers' = [p \in Peer |-> [peers[p] EXCEPT !.age = Later(@), !.rest = Later(@)]]
      /\ req' = [r \in Slots |-> [req[r] EXCEPT !.probe = IF @ < 0 THEN @ ELSE Later(@)]]
  BY Zenon DEF Tick, Inv, Typed, Older
<1>2. ASSUME NEW p \in Peer
      PROVE  /\ peers'[p].conns = peers[p].conns /\ peers'[p].fails = peers[p].fails
             /\ peers'[p].behind = peers[p].behind /\ peers'[p].effective = peers[p].effective
             /\ peers'[p].current = peers[p].current
             /\ peers'[p].age = Later(peers[p].age) /\ peers'[p].rest = Later(peers[p].rest)
             /\ peers'[p] \in PeerState
  BY <1>1, LaterIs, Zenon DEF PeerState
<1>3. ASSUME NEW r \in Slots
      PROVE  /\ req'[r] = [req[r] EXCEPT !.probe = req'[r].probe]
             /\ req'[r].probe = IF req[r].probe < 0 THEN req[r].probe ELSE Later(req[r].probe)
             /\ req'[r] \in Request
  <2> DEFINE q == req[r]
             n == IF q.probe < 0 THEN q.probe ELSE Later(q.probe)
  <2>1. q \in Request /\ req'[r] = [q EXCEPT !.probe = n]
    BY <1>1, Zenon
  <2>2. n \in Int
    BY <2>1, LaterIs DEF Request
  <2> HIDE DEF q, n
  <2>3. req'[r].probe = n /\ req'[r] \in Request
    BY <2>1, <2>2 DEF Request
  <2> QED
    BY <2>1, <2>3 DEF q, n
<1>4. peers' \in [Peer -> PeerState]
  BY <1>1, <1>2, Zenon
<1>5. req' \in [Slots -> Request]
  BY <1>1, <1>3, Zenon
<1> QED
  BY <1>1, <1>2, <1>3, Zenon

\* A second changes nothing of a request but how long it tries out a server.
LEMMA TickRequest ==
    ASSUME Inv, Tick, NEW r \in Slots
    PROVE  /\ req'[r].phase = req[r].phase /\ req'[r].method = req[r].method
           /\ req'[r].list = req[r].list /\ req'[r].tried = req[r].tried
           /\ req'[r].peer = req[r].peer /\ req'[r].tries = req[r].tries
           /\ req'[r].sent = req[r].sent /\ req'[r].misses = req[r].misses
           /\ req'[r].had = req[r].had /\ req'[r].reached = req[r].reached
           /\ req[r].probe < 0 => req'[r] = req[r]
           /\ req[r].probe >= 0 => /\ req'[r].probe = Later(req[r].probe)
                                   /\ req'[r].probe \in Nat /\ req'[r].probe >= 1
<1> DEFINE q == req[r]
           n == req'[r].probe
<1>1. /\ q \in Request /\ req'[r] = [q EXCEPT !.probe = n]
      /\ n = IF q.probe < 0 THEN q.probe ELSE Later(q.probe)
  BY TickIs DEF Inv, Typed
<1>2. q.probe \in Int
  BY <1>1 DEF Request
<1> HIDE DEF q, n
<1>3. /\ req'[r].phase = q.phase /\ req'[r].method = q.method
      /\ req'[r].list = q.list /\ req'[r].tried = q.tried
      /\ req'[r].peer = q.peer /\ req'[r].tries = q.tries
      /\ req'[r].sent = q.sent /\ req'[r].misses = q.misses
      /\ req'[r].had = q.had /\ req'[r].reached = q.reached
  BY <1>1 DEF Request
<1>4. q.probe < 0 => req'[r] = q
  BY <1>1 DEF Request
<1>5. q.probe >= 0 => n = Later(q.probe) /\ n \in Nat /\ n >= 1
  BY <1>1, <1>2, LaterIs
<1> QED
  BY <1>3, <1>4, <1>5 DEF q, n

LEMMA TickKeeps ==
    ASSUME Inv, Tick
    PROVE  Inv' /\ GivenOnce /\ LetRest /\ (SentOnce => SentOnce')
<1>1. /\ block' = block /\ peers' \in [Peer -> PeerState] /\ req' \in [Slots -> Request]
      /\ \A p \in Peer :
            /\ peers'[p].conns = peers[p].conns /\ peers'[p].fails = peers[p].fails
            /\ peers'[p].behind = peers[p].behind /\ peers'[p].effective = peers[p].effective
            /\ peers'[p].current = peers[p].current
            /\ peers'[p].age = Later(peers[p].age) /\ peers'[p].rest = Later(peers[p].rest)
  BY TickIs
<1>2. /\ block \in Blocks /\ PeerBounds(peers) /\ Clocks(peers) /\ FailTimeout \in Nat
      /\ \A p \in Peer : peers[p].age \in Nat /\ peers[p].rest \in Nat /\ peers[p].fails \in Nat
      /\ \A r \in Slots : req[r] \in Request /\ Sound(req[r]) /\ req[r].probe \in Int
  BY PeersAssumption DEF Inv, Typed, PeerState, Request
<1>3. Typed'
  BY <1>1, <1>2 DEF Typed
<1>4. PeerBounds(peers)'
  BY <1>1, <1>2, LaterIs DEF PeerBounds
<1>5. Single' <=> Single
  BY <1>1 DEF Single
<1>6. Clocks(peers)'
  <2>1. \A p \in Peer : /\ Later(peers[p].age) <= Later(peers[p].rest)
                        /\ peers[p].behind => Later(peers[p].rest) > FailTimeout
    BY <1>2, LaterIs, LaterGrows DEF Clocks
  <2> QED
    BY <1>1, <1>2, <1>5, <2>1 DEF Clocks
<1>7. ASSUME NEW r \in Slots PROVE Sound(req[r])'
  <2>1. /\ req'[r].phase = req[r].phase /\ req'[r].list = req[r].list
        /\ req'[r].tried = req[r].tried /\ req'[r].peer = req[r].peer
        /\ req'[r].tries = req[r].tries /\ req'[r].misses = req[r].misses
        /\ req'[r].had = req[r].had
    BY TickRequest
  <2>2. Hashing(req[r])' <=> Hashing(req[r])
    BY <1>1, <1>5, <2>1 DEF Hashing
  <2>3. Marks(req[r])'
    BY <1>1, <1>2, <1>5, <2>1, <2>2, Zenon DEF Sound, Marks
  <2>4. req'[r].probe >= -1
    <3>1. CASE req[r].probe < 0
      BY <1>2, <3>1, TickRequest, Zenon DEF Sound
    <3>2. CASE req[r].probe >= 0
      BY <3>2, TickRequest
    <3> QED
      BY <1>2, <3>1, <3>2
  <2>5. req[r].phase = "idle" => req'[r] = NoRequest
    <3> SUFFICES ASSUME req[r].phase = "idle" PROVE req'[r] = NoRequest
      OBVIOUS
    <3>1. req[r] = NoRequest
      BY <1>2, Zenon DEF Sound
    <3>2. req[r].probe = -1
      BY <3>1 DEF NoRequest
    <3>3. req[r].probe < 0
      BY <3>2
    <3> QED
      BY <3>1, <3>3, TickRequest
  <2> QED
    BY <1>1, <1>2, <2>1, <2>3, <2>4, <2>5, Zenon DEF Sound
<1>8. \A r \in Slots : req'[r].phase = req[r].phase /\ req'[r].peer = req[r].peer
  BY TickRequest
<1>9. OneHandler'
  BY <1>8 DEF Inv, OneHandler, InPhase
<1>10. Probing'
  BY <1>1, <1>2, TickRequest, LaterGrows DEF Probing, Inv
<1>11. OneProbe'
  BY <1>2, TickRequest DEF OneProbe
<1>12. ConnsCounted'
  <2>1. \A p \in Peer : Holders(p)' = Holders(p)
    BY <1>8 DEF Holders
  <2> QED
    BY <1>1, <2>1 DEF Inv, ConnsCounted
<1>13. WeightsBalance'
  BY <1>1 DEF Inv, WeightsBalance
<1>14. GivenOnce /\ LetRest
  BY <1>1, <1>2, <1>8 DEF GivenOnce, LetRest
<1>15. ASSUME SentOnce PROVE SentOnce'
  BY <1>1, <1>15, TickRequest DEF SentOnce, Once
<1> QED
  BY <1>3, <1>4, <1>6, <1>7, <1>9, <1>10, <1>11, <1>12, <1>13, <1>14, <1>15 DEF Inv

-----------------------------------------------------------------------------
(* Where it begins, and what it implies.                                   *)

LEMMA InitInv == Init => Inv /\ SentOnce
<1> SUFFICES ASSUME Init PROVE Inv /\ SentOnce
  OBVIOUS
<1>1. /\ block \in Blocks /\ peers = [p \in Peer |-> FreshPeer(p)]
      /\ req = [r \in Slots |-> NoRequest] /\ NoPeer \notin Peer
  BY PeersAssumption DEF Init, InitPeers
<1>2. ASSUME NEW p \in Peer
      PROVE  /\ peers[p] \in PeerState /\ peers[p].fails = 0 /\ peers[p].conns = 0
             /\ peers[p].age = Expired /\ peers[p].rest = Expired /\ peers[p].behind = FALSE
             /\ peers[p].effective = Weight[p] /\ peers[p].current = 0
             /\ MaxFails[p] \in Nat /\ Weight[p] \in Nat /\ Expired \in Nat
  BY <1>1, PeersAssumption DEF FreshPeer, PeerState, Expired
<1>3. NoRequest \in Request /\ NoRequest.peer = NoPeer /\ NoRequest.probe = -1
  BY DEF NoRequest, Request
<1>4. Typed
  BY <1>1, <1>2, <1>3, Zenon DEF Typed
<1>5. PeerBounds(peers) /\ Clocks(peers)
  <2>1. ASSUME NEW p \in Peer
        PROVE  /\ peers[p].fails <= MaxFails[p] /\ peers[p].effective <= Weight[p]
               /\ peers[p].age <= Expired /\ peers[p].rest <= Expired
               /\ peers[p].age <= peers[p].rest /\ ~peers[p].behind /\ peers[p].fails = 0
    <3>1. 0 <= MaxFails[p] /\ Weight[p] <= Weight[p] /\ Expired <= Expired
      BY PeersAssumption DEF Expired
    <3> QED
      BY <1>2, <3>1, Zenon
  <2> QED
    BY <2>1 DEF PeerBounds, Clocks
<1>6. Sound(NoRequest) /\ Once(NoRequest)
  <2>1. /\ NoRequest.tries = 0 /\ NoRequest.misses = 0 /\ NoRequest.phase = "idle"
        /\ NoRequest.list = "primary" /\ NoRequest.tried = {} /\ NoRequest.had = {}
        /\ NoRequest.reached = {}
    BY DEF NoRequest
  <2>2. Marks(NoRequest)
    BY <2>1 DEF Marks
  <2> DEFINE n == Len(block.primary)
             k == Len(block.backup)
  <2>3. n \in Nat /\ k \in Nat
    BY BlockIs
  <2> HIDE DEF n, k
  <2>4. NoRequest.tries <= n + k /\ NoRequest.misses <= MaxHashes + 1 /\ NoRequest.probe >= -1
    BY <1>3, <2>1, <2>3 DEF MaxHashes
  <2> QED
    BY <1>3, <2>1, <2>2, <2>4, Zenon DEF Sound, Once, n, k
<1>7. OneHandler /\ Probing /\ OneProbe
  BY <1>1 DEF NoRequest, OneHandler, Probing, OneProbe, InPhase, Handling
<1>8. ConnsCounted
  BY <1>1, <1>2, <1>3, FS_EmptySet, Zenon DEF Holders, ConnsCounted
<1>9. WeightsBalance
  <2> SUFFICES ASSUME NEW list \in {block.primary, block.backup}
               PROVE  SumOf(list, [p \in Peer |-> peers[p].current]) = 0
    BY DEF WeightsBalance
  <2> DEFINE f == [p \in Peer |-> peers[p].current]
  <2>1. list \in Seq(Peer)
    BY <1>1, BlockIs
  <2>2. f \in [Peer -> Int] /\ \A p \in Peer : f[p] = 0
    <3>1. \A p \in Peer : peers[p].current = 0
      BY <1>2, Zenon
    <3> QED
      BY <3>1
  <2>3. \A i \in 1..Len(list) : list[i] \in Peer
    BY <2>1
  <2> HIDE DEF f
  <2>4. SumOf(list, f) = 0
    BY <2>1, <2>2, SumZero
  <2> QED
    BY <2>4 DEF f
<1> QED
  BY <1>1, <1>4, <1>5, <1>6, <1>7, <1>8, <1>9 DEF Inv, SentOnce

LEMMA InvTypes == Inv => TypeOK
<1> SUFFICES ASSUME Inv PROVE TypeOK
  OBVIOUS
<1>1. /\ block \in Blocks /\ PeerBounds(peers) /\ peers \in [Peer -> PeerState]
      /\ req \in [Slots -> Request] /\ IsFiniteSet(Peer) /\ IsFiniteSet(Slots)
  BY PeersAssumption, BlocksAssumption DEF Inv, Typed
<1>2. ASSUME NEW p \in Peer
      PROVE  /\ peers[p].conns \in 0..Cardinality(Slots)
             /\ peers[p].fails \in 0..MaxFails[p] /\ peers[p].age \in 0..Expired
             /\ peers[p].behind \in BOOLEAN /\ peers[p].current \in Int
             /\ peers[p].effective \in 0..Weight[p]
  <2>1. /\ peers[p].fails \in Nat /\ peers[p].age \in Nat /\ peers[p].behind \in BOOLEAN
        /\ peers[p].current \in Int /\ peers[p].effective \in Nat
    BY <1>1 DEF PeerState
  <2>2. MaxFails[p] \in Nat /\ Weight[p] \in Nat /\ Expired \in Nat
    BY PeersAssumption DEF Expired
  <2>3. peers[p].conns = Cardinality(Holders(p))
    BY DEF Inv, ConnsCounted
  <2>4. Holders(p) \in SUBSET Slots
    BY DEF Holders
  <2>5. /\ Cardinality(Holders(p)) \in Nat /\ Cardinality(Slots) \in Nat
        /\ Cardinality(Holders(p)) <= Cardinality(Slots)
    BY <1>1, <2>4, FS_Subset, FS_CardinalityType
  <2> QED
    BY <1>1, <2>1, <2>3, <2>5 DEF PeerBounds
<1>3. ASSUME NEW r \in Slots
      PROVE  /\ req[r].phase \in Handling \cup {"idle", "connecting", "sending", "waiting", "body"}
             /\ req[r].peer \in Peer \cup {NoPeer} /\ req[r].tried \subseteq Peer
             /\ req[r].tries \in 0..Cardinality(Peer) /\ req[r].misses \in 0..(MaxHashes + 1)
  <2>1. /\ req[r].phase \in {"idle", "get"} \cup WithPeer /\ req[r].peer \in Peer \cup {NoPeer}
        /\ req[r].tried \subseteq Peer /\ req[r].tries \in Nat /\ req[r].misses \in Nat
    BY <1>1 DEF Request
  <2> DEFINE n == Len(block.primary)
             k == Len(block.backup)
             c == Cardinality(Peer)
             t == req[r].tries
             m == req[r].misses
  <2>2. t <= n + k /\ m <= MaxHashes + 1 /\ t \in Nat /\ m \in Nat
    BY <2>1, Zenon DEF Inv, Sound
  <2>3. n + k <= c /\ n \in Nat /\ k \in Nat /\ c \in Nat
    BY <1>1, RequestIs, BlockIs, FS_CardinalityType, Zenon
  <2>4. req[r].phase \in Handling \cup {"idle", "connecting", "sending", "waiting", "body"}
    BY <2>1 DEF WithPeer, Handling
  <2> HIDE DEF n, k, c, t, m
  <2>5. t \in 0..c
    BY <2>2, <2>3
  <2>6. m \in 0..(MaxHashes + 1)
    BY <2>2 DEF MaxHashes
  <2> QED
    BY <2>1, <2>4, <2>5, <2>6 DEF c, t, m
<1> QED
  BY <1>1, <1>2, <1>3 DEF TypeOK

-----------------------------------------------------------------------------
(* Choosing a server.                                                      *)

LEMMA MinIn ==
    ASSUME NEW S \in SUBSET Nat, S # {}
    PROVE  Min(S) \in S
BY LeastNumber, Zenon DEF Min

LEMMA FirstIs ==
    ASSUME NEW list \in Seq(Peer), NEW set \in SUBSET Range(list), set # {}
    PROVE  First(list, set) \in set
<1> DEFINE S == {i \in DOMAIN list : list[i] \in set}
<1>1. S \in SUBSET Nat /\ S # {}
  BY DEF Range
<1>2. Min(S) \in S
  <2> HIDE DEF S
  <2> QED
    BY <1>1, MinIn
<1> QED
  BY <1>2 DEF First

\* Among finitely many there is one that is at least as good as the others: one
\* with the fewest that it is not as good as.
LEMMA BestExists ==
    ASSUME NEW S, IsFiniteSet(S), S # {}, NEW R,
           \A x, y \in S : <<x, y>> \in R \/ <<y, x>> \in R,
           \A x, y, z \in S : <<x, y>> \in R /\ <<y, z>> \in R => <<x, z>> \in R
    PROVE  \E p \in S : \A q \in S : <<p, q>> \in R
<1> DEFINE Better(p) == {q \in S : <<p, q>> \notin R}
           N == {Cardinality(Better(p)) : p \in S}
<1>1. \A p \in S : IsFiniteSet(Better(p)) /\ Cardinality(Better(p)) \in Nat
  BY FS_Subset, FS_CardinalityType, Zenon
<1>2. N \in SUBSET Nat /\ N # {}
  <2> HIDE DEF Better
  <2> QED
    BY <1>1
<1>3. PICK n \in N : \A k \in N : n <= k
  <2> HIDE DEF N
  <2> QED
    BY <1>2, LeastNumber
<1>4. PICK p \in S : n = Cardinality(Better(p))
  OBVIOUS
<1>5. ASSUME NEW q \in S, <<p, q>> \notin R PROVE FALSE
  <2>1. <<q, p>> \in R /\ <<q, q>> \in R
    BY <1>5
  <2>2. Better(q) \subseteq Better(p) \ {q}
    BY <2>1
  <2>3. q \in Better(p)
    BY <1>5
  <2>4. Cardinality(Better(q)) \in N
    BY Zenon
  <2> HIDE DEF Better, N
  <2>5. /\ IsFiniteSet(Better(p) \ {q})
        /\ Cardinality(Better(p) \ {q}) = Cardinality(Better(p)) - 1
    BY <1>1, <2>3, FS_RemoveElement
  <2>6. Cardinality(Better(q)) <= Cardinality(Better(p) \ {q})
    BY <2>2, <2>5, FS_Subset
  <2>7. n <= Cardinality(Better(q))
    BY <1>3, <2>4
  <2>8. Cardinality(Better(p)) \in Nat /\ Cardinality(Better(q)) \in Nat
    BY <1>1
  <2> QED
    BY <1>4, <2>5, <2>6, <2>7, <2>8
<1> QED
  BY <1>5

LEMMA Greatest ==
    ASSUME NEW S, IsFiniteSet(S), S # {}, NEW g \in [S -> Int]
    PROVE  \E p \in S : \A q \in S : g[q] <= g[p]
<1> DEFINE R == {x \in S \X S : g[x[2]] <= g[x[1]]}
<1>1. \A x, y \in S : <<x, y>> \in R <=> g[y] <= g[x]
  OBVIOUS
<1>2. \A x, y \in S : g[x] \in Int /\ g[y] \in Int
  OBVIOUS
<1> HIDE DEF R
<1>3. ASSUME NEW x \in S, NEW y \in S PROVE <<x, y>> \in R \/ <<y, x>> \in R
  BY <1>1
<1>4. ASSUME NEW x \in S, NEW y \in S, NEW z \in S, <<x, y>> \in R, <<y, z>> \in R
      PROVE  <<x, z>> \in R
  BY <1>1, <1>4
<1>5. \E p \in S : \A q \in S : <<p, q>> \in R
  BY <1>3, <1>4, BestExists, Zenon
<1> QED
  BY <1>1, <1>5, Zenon

LEMMA TimesGrows ==
    ASSUME NEW a \in Int, NEW b \in Int, NEW w \in Nat, a <= b
    PROVE  a * w <= b * w
OBVIOUS

\* Comparing a / u with b / v by cross multiplication is transitive.
LEMMA CrossTransitive ==
    ASSUME NEW a \in Int, NEW b \in Int, NEW c \in Int,
           NEW u \in Nat \ {0}, NEW v \in Nat \ {0}, NEW w \in Nat \ {0},
           a * v <= b * u, b * w <= c * v
    PROVE  a * w <= c * u
<1> DEFINE x == a * v
           y == b * u
           z == b * w
           t == c * v
<1>1. /\ x \in Int /\ y \in Int /\ z \in Int /\ t \in Int /\ x <= y /\ z <= t
      /\ w \in Nat /\ u \in Nat
  OBVIOUS
<1>2. x * w <= y * w
  <2> HIDE DEF x, y
  <2> QED
    BY <1>1, TimesGrows
<1>3. z * u <= t * u
  <2> HIDE DEF z, t
  <2> QED
    BY <1>1, TimesGrows
<1>4. x * w = (a * w) * v /\ y * w = z * u /\ t * u = (c * u) * v
  OBVIOUS
<1>5. (a * w) * v <= (c * u) * v
  BY <1>4
<1> DEFINE m == a * w
           n == c * u
<1>6. m \in Int /\ n \in Int /\ m * v <= n * v
  BY <1>5
<1>7. m <= n
  <2> HIDE DEF m, n
  <2> QED
    BY <1>6
<1> QED
  BY <1>7

LEMMA LeastLoaded ==
    ASSUME NEW S \in SUBSET Peer, IsFiniteSet(S), S # {}, NEW ps \in [Peer -> PeerState]
    PROVE  \E p \in S : \A q \in S : ps[p].conns * Weight[q] <= ps[q].conns * Weight[p]
<1> DEFINE c(x) == ps[x].conns
           R == {x \in S \X S : c(x[1]) * Weight[x[2]] <= c(x[2]) * Weight[x[1]]}
<1>1. \A x, y \in S : <<x, y>> \in R <=> c(x) * Weight[y] <= c(y) * Weight[x]
  OBVIOUS
<1>2. \A x \in S : c(x) \in Int /\ Weight[x] \in Nat \ {0}
  BY PeersAssumption DEF PeerState
<1> HIDE DEF R, c
<1>3. \A x, y \in S : <<x, y>> \in R \/ <<y, x>> \in R
  <2> SUFFICES ASSUME NEW x \in S, NEW y \in S PROVE <<x, y>> \in R \/ <<y, x>> \in R
    BY Zenon
  <2>1. c(x) * Weight[y] \in Int /\ c(y) * Weight[x] \in Int
    BY <1>2
  <2> QED
    BY <1>1, <2>1
<1>4. \A x, y, z \in S : <<x, y>> \in R /\ <<y, z>> \in R => <<x, z>> \in R
  BY <1>1, <1>2, CrossTransitive, Zenon
<1>5. \E p \in S : \A q \in S : <<p, q>> \in R
  BY <1>3, <1>4, BestExists
<1> QED
  BY <1>1, <1>5, Zenon DEF c

LEMMA TakeTook ==
    ASSUME NEW ps \in [Peer -> PeerState], PeerBounds(ps), NEW p \in Peer
    PROVE  /\ Took(ps, Take(ps, p), p)
           /\ \A x \in Peer : Take(ps, p)[x].current = ps[x].current
<1> DEFINE s == ps[p]
           age == IF s.age > FailTimeout THEN 0 ELSE s.age
           behind == IF s.age > FailTimeout THEN TRUE ELSE s.behind
           c == [conns |-> s.conns, fails |-> s.fails, age |-> age, behind |-> behind,
                 rest |-> s.rest, effective |-> s.effective, current |-> s.current]
           n == [conns |-> s.conns + 1, fails |-> s.fails, age |-> age, behind |-> behind,
                 rest |-> s.rest, effective |-> s.effective, current |-> s.current]
<1>1. s \in PeerState
  OBVIOUS
<1>2. Checked(s) = c
  BY Zenon DEF Checked, PeerState
<1>3. age \in Nat /\ behind \in BOOLEAN
  BY Zenon DEF PeerState
<1> HIDE DEF age, behind
<1>4. [c EXCEPT !.conns = @ + 1] = n
  OBVIOUS
<1>5. Take(ps, p) = [ps EXCEPT ![p] = n]
  BY <1>2, <1>4, Zenon DEF Take
<1>6. n \in PeerState
  BY <1>3 DEF PeerState
<1>7. /\ n.conns = s.conns + 1 /\ n.fails = s.fails /\ n.rest = s.rest
      /\ n.effective = s.effective /\ n.current = s.current
      /\ n.age = age /\ n.behind = behind
  OBVIOUS
<1> HIDE DEF n
<1>8. /\ Take(ps, p) \in [Peer -> PeerState] /\ Take(ps, p)[p] = n
      /\ \A x \in Peer : x # p => Take(ps, p)[x] = ps[x]
  BY <1>5, <1>6
<1>9. /\ s.age \in Nat /\ FailTimeout \in Nat /\ Expired \in Nat
      /\ s.fails <= MaxFails[p] /\ s.effective <= Weight[p] /\ s.age <= Expired /\ s.rest <= Expired
  BY PeersAssumption DEF PeerState, PeerBounds, Expired
<1>10. PeerBounds(Take(ps, p))
  BY <1>7, <1>8, <1>9 DEF age, PeerBounds
<1>11. /\ n.age <= s.age
       /\ s.age > FailTimeout /\ GivenUp(ps, p) => n.age = 0
       /\ n.behind => s.behind \/ s.age > FailTimeout
  BY <1>7, <1>9 DEF age, behind
<1> QED
  BY <1>7, <1>8, <1>10, <1>11 DEF Took

\* The winner pays what all have gained, and the sum of the current weights stays.
Paid(f, share, best, total) ==
    [x \in Peer |-> f[x] + share[x] - (IF x = best THEN total ELSE 0)]

LEMMA ChoiceBalances ==
    ASSUME NEW list \in Seq(Peer), IsInjective(list), NEW best \in Range(list),
           NEW f \in [Peer -> Int], NEW share \in [Peer -> Int]
    PROVE  SumOf(list, Paid(f, share, best, SumOf(list, share))) = SumOf(list, f)
<1> DEFINE total == SumOf(list, share)
           pay == [x \in Peer |-> IF x = best THEN -total ELSE 0]
           h == Paid(f, share, best, total)
<1>1. total \in Int
  BY SumType
<1>2. PICK k \in 1..Len(list) : list[k] = best
  BY DEF Range
<1>3. \A i \in 1..Len(list) : list[i] \in Peer /\ (i # k => list[i] # best)
  BY <1>2 DEF IsInjective
<1> HIDE DEF total
<1>4. pay \in [Peer -> Int]
  BY <1>1
<1>5. \A i \in 1..Len(list) : pay[list[i]] = IF i = k THEN -total ELSE 0
  BY <1>2, <1>3
<1>6. h = Plus(f, Plus(share, pay))
  BY <1>1 DEF Plus, Paid
<1>7. Plus(share, pay) \in [Peer -> Int]
  BY <1>4 DEF Plus
<1> HIDE DEF pay, h
<1>8. SumOf(list, pay) = -total
  BY <1>4, <1>5, SumPoint, Zenon
<1>9. SumOf(list, Plus(share, pay)) = SumOf(list, share) + SumOf(list, pay)
  BY <1>4, SumAdds
<1>10. SumOf(list, h) = SumOf(list, f) + SumOf(list, Plus(share, pay))
  BY <1>6, <1>7, SumAdds, Zenon
<1>11. SumOf(list, f) \in Int /\ SumOf(list, share) = total
  BY SumType DEF total
<1>12. SumOf(list, h) = SumOf(list, f)
  BY <1>1, <1>8, <1>9, <1>10, <1>11
<1> QED
  BY <1>12 DEF h, total

\* Round robin gives one of the set, and the current weights of this list and of
\* the other one sum up to what they did.
LEMMA SmoothIs ==
    ASSUME NEW ps \in [Peer -> PeerState], PeerBounds(ps),
           NEW list \in Seq(Peer), IsInjective(list),
           NEW other \in Seq(Peer), Apart(list, other),
           NEW set \in SUBSET Range(list), set # {}
    PROVE  LET c == SmoothChoice(ps, list, set)
           IN  /\ c.peer \in set /\ Took(ps, c.peers, c.peer)
               /\ Currents(list, c.peers) = Currents(list, ps)
               /\ Currents(other, c.peers) = Currents(other, ps)
<1> DEFINE gained == [p \in set |-> ps[p].current + ps[p].effective]
           top == {p \in set : \A q \in set : gained[q] <= gained[p]}
           best == First(list, top)
           share == [p \in Peer |-> IF p \in set THEN ps[p].effective ELSE 0]
           total == SumOf(list, share)
           moved == [p \in DOMAIN ps |->
                        IF p \notin set THEN ps[p]
                        ELSE [ps[p] EXCEPT
                                !.current = gained[p] - (IF p = best THEN total ELSE 0),
                                !.effective = Recovered(p, @)]]
           qs == Take(moved, best)
<1>1. SmoothChoice(ps, list, set) = [peer |-> best, peers |-> qs]
  BY DEF SmoothChoice
<1>2. Range(list) \subseteq Peer /\ IsFiniteSet(set) /\ set \subseteq Peer
  BY PeersAssumption, FS_Subset DEF Range
<1>3. \A p \in Peer : /\ ps[p] \in PeerState /\ ps[p].current \in Int /\ ps[p].effective \in Nat
                     /\ Weight[p] \in Nat
  BY PeersAssumption DEF PeerState
<1>4. gained \in [set -> Int]
  BY <1>2, <1>3
<1>5. best \in set
  BY <1>2, <1>4, Greatest, FirstIs, Zenon
<1>6. share \in [Peer -> Int] /\ total \in Int
  BY <1>3, SumType
<1> HIDE DEF best, total
<1>7. ASSUME NEW p \in Peer
      PROVE  /\ moved[p] \in PeerState
             /\ moved[p].conns = ps[p].conns /\ moved[p].fails = ps[p].fails
             /\ moved[p].age = ps[p].age /\ moved[p].behind = ps[p].behind
             /\ moved[p].rest = ps[p].rest /\ moved[p].effective <= Weight[p]
             /\ moved[p].current = ps[p].current + share[p] - (IF p = best THEN total ELSE 0)
  <2> DEFINE s == ps[p]
             e == IF p \in set THEN Recovered(p, s.effective) ELSE s.effective
             k == IF p \in set THEN gained[p] - (IF p = best THEN total ELSE 0) ELSE s.current
             m == [conns |-> s.conns, fails |-> s.fails, age |-> s.age, behind |-> s.behind,
                   rest |-> s.rest, effective |-> e, current |-> k]
  <2>1. DOMAIN ps = Peer /\ s \in PeerState
    OBVIOUS
  <2>2. moved[p] = IF p \notin set THEN s
                   ELSE [s EXCEPT !.current = gained[p] - (IF p = best THEN total ELSE 0),
                                  !.effective = Recovered(p, @)]
    BY <2>1
  <2>3. p \in set => gained[p] = s.current + s.effective
    OBVIOUS
  <2>4. share[p] = IF p \in set THEN s.effective ELSE 0
    OBVIOUS
  <2>5. /\ s.current \in Int /\ s.effective \in Nat /\ s.effective <= Weight[p]
        /\ Weight[p] \in Nat
    BY <1>3 DEF PeerBounds
  <2> HIDE DEF moved, gained, share, s
  <2>6. moved[p] = m
    BY <2>1, <2>2, Zenon DEF PeerState
  <2>7. e \in Nat /\ e <= Weight[p]
    BY <2>5 DEF Recovered
  <2>8. k = s.current + share[p] - (IF p = best THEN total ELSE 0) /\ k \in Int
    BY <1>5, <1>6, <2>3, <2>4, <2>5
  <2> HIDE DEF e, k
  <2>9. m \in PeerState
    BY <2>1, <2>7, <2>8 DEF PeerState
  <2>10. /\ m.conns = s.conns /\ m.fails = s.fails /\ m.age = s.age /\ m.behind = s.behind
         /\ m.rest = s.rest /\ m.effective = e /\ m.current = k
    OBVIOUS
  <2> HIDE DEF m
  <2> QED
    BY <2>6, <2>7, <2>8, <2>9, <2>10 DEF s
<1>12. moved \in [Peer -> PeerState]
  BY <1>7, Zenon
<1>13. PeerBounds(moved)
  <2> SUFFICES ASSUME NEW p \in Peer
               PROVE  /\ moved[p].fails <= MaxFails[p] /\ moved[p].effective <= Weight[p]
                      /\ moved[p].age <= Expired /\ moved[p].rest <= Expired
    BY DEF PeerBounds
  <2> HIDE DEF moved, gained, share
  <2> QED
    BY <1>7 DEF PeerBounds
<1> HIDE DEF moved, gained, share
<1>14. best \in Peer
  BY <1>2, <1>5
<1>15. Took(moved, qs, best) /\ \A x \in Peer : qs[x].current = moved[x].current
  BY <1>12, <1>13, <1>14, TakeTook
<1> HIDE DEF qs
<1>16. Took(ps, qs, best)
  BY <1>7, <1>14, <1>15 DEF GivenUp, Took
<1> DEFINE f == [p \in Peer |-> ps[p].current]
           h == [p \in Peer |-> qs[p].current]
<1>17. f \in [Peer -> Int] /\ h \in [Peer -> Int]
  BY <1>16, Zenon DEF Took, PeerState
<1>18. ASSUME NEW x \in Peer
       PROVE  h[x] = f[x] + share[x] - (IF x = best THEN total ELSE 0)
  BY <1>7, <1>15
<1>19. \A x \in Peer : x \notin set => share[x] = 0 /\ x # best
  BY <1>5 DEF share
<1>20. total = SumOf(list, share)
  BY DEF total
<1>21. SumOf(list, h) = SumOf(list, f)
  <2> HIDE DEF f, h
  <2>1. h = Paid(f, share, best, SumOf(list, share))
    BY <1>17, <1>18, <1>20 DEF Paid
  <2>2. best \in Range(list)
    BY <1>5
  <2> QED
    BY <1>6, <1>17, <2>1, <2>2, ChoiceBalances, Zenon
<1>22. SumOf(other, h) = SumOf(other, f)
  <2>1. \A i \in 1..Len(other) : other[i] \in Peer /\ other[i] \notin set
    <3>1. \A i \in 1..Len(other) : other[i] \in Peer /\ other[i] \in Range(other)
      BY DEF Range
    <3> QED
      BY <3>1 DEF Apart
  <2>2. ASSUME NEW i \in 1..Len(other) PROVE h[other[i]] = f[other[i]]
    BY <1>17, <1>18, <1>19, <2>1
  <2> HIDE DEF f, h
  <2> QED
    BY <1>17, <2>2, SumSame, Zenon
<1> QED
  BY <1>1, <1>5, <1>16, <1>21, <1>22 DEF Currents

LEMMA LeastConnIs ==
    ASSUME NEW ps \in [Peer -> PeerState], PeerBounds(ps),
           NEW list \in Seq(Peer), IsInjective(list),
           NEW other \in Seq(Peer), Apart(list, other),
           NEW tried, Candidates(ps, list, tried) # {}
    PROVE  LET c == LeastConn(ps, list, tried)
           IN  /\ c.peer \in Candidates(ps, list, tried) /\ Took(ps, c.peers, c.peer)
               /\ Currents(list, c.peers) = Currents(list, ps)
               /\ Currents(other, c.peers) = Currents(other, ps)
<1> DEFINE set == Candidates(ps, list, tried)
           top == {p \in set : \A q \in set :
                        ps[p].conns * Weight[q] <= ps[q].conns * Weight[p]}
           best == First(list, top)
           equals == {p \in set : ps[p].conns * Weight[best] = ps[best].conns * Weight[p]}
<1>1. LeastConn(ps, list, tried) =
            IF equals = {best} THEN [peer |-> best, peers |-> Take(ps, best)]
            ELSE SmoothChoice(ps, list, equals)
  BY Zenon DEF LeastConn
<1>2. set \in SUBSET Range(list) /\ Range(list) \subseteq Peer /\ IsFiniteSet(set)
  BY PeersAssumption, FS_Subset DEF Range, Candidates
<1> HIDE DEF set
<1>3. best \in set
  BY <1>2, LeastLoaded, FirstIs, Zenon DEF set
<1> HIDE DEF best
<1>4. equals \in SUBSET Range(list) /\ equals # {} /\ equals \subseteq set
  BY <1>2, <1>3, Zenon
<1> HIDE DEF equals
<1>5. CASE equals = {best}
  <2>1. best \in Peer
    BY <1>2, <1>3
  <2>2. Took(ps, Take(ps, best), best) /\ \A x \in Peer : Take(ps, best)[x].current = ps[x].current
    BY <2>1, TakeTook
  <2>3. [p \in Peer |-> Take(ps, best)[p].current] = [p \in Peer |-> ps[p].current]
    BY <2>2
  <2>4. LeastConn(ps, list, tried) = [peer |-> best, peers |-> Take(ps, best)]
    BY <1>1, <1>5
  <2>5. \A l : Currents(l, Take(ps, best)) = Currents(l, ps)
    BY <2>3 DEF Currents
  <2> QED
    BY <1>3, <2>2, <2>4, <2>5 DEF set
<1>6. CASE equals # {best}
  BY <1>1, <1>4, <1>6, SmoothIs DEF set
<1> QED
  BY <1>5, <1>6, Zenon

-----------------------------------------------------------------------------
(* Getting a server.                                                       *)

LEMMA ServersAre ==
    ASSUME block \in Blocks, NEW l \in {"primary", "backup"}
    PROVE  \E other \in Seq(Peer) :
            /\ Servers(l) \in Seq(Peer) /\ IsInjective(Servers(l))
            /\ Range(Servers(l)) \subseteq Peer
            /\ Apart(Servers(l), other)
            /\ {block.primary, block.backup} = {Servers(l), other}
BY BlockIs DEF Servers

\* Whatever the balancer, a candidate is chosen.
LEMMA ChooseIs ==
    ASSUME Typed, PeerBounds(peers), NEW l \in {"primary", "backup"}, NEW tried,
           Candidates(peers, Servers(l), tried) # {}
    PROVE  LET c == Choose(peers, Servers(l), tried)
           IN  /\ c.peer \in Candidates(peers, Servers(l), tried)
               /\ Took(peers, c.peers, c.peer) /\ SameCurrents(c.peers)
<1> DEFINE list == Servers(l)
           set == Candidates(peers, list, tried)
           c == Choose(peers, list, tried)
<1>1. block \in Blocks /\ peers \in [Peer -> PeerState]
  BY DEF Typed
<1>2. PICK other \in Seq(Peer) :
        /\ list \in Seq(Peer) /\ IsInjective(list) /\ Apart(list, other)
        /\ {block.primary, block.backup} = {list, other}
  BY <1>1, ServersAre, Zenon
<1> HIDE DEF list
<1>3. /\ c.peer \in set /\ Took(peers, c.peers, c.peer)
      /\ Currents(list, c.peers) = Currents(list, peers)
      /\ Currents(other, c.peers) = Currents(other, peers)
  <2>1. CASE block.balancer = "least_conn"
    <3>1. c = LeastConn(peers, list, tried)
      BY <2>1, Zenon DEF Choose
    <3>2. Candidates(peers, list, tried) # {}
      BY Zenon DEF list
    <3> DEFINE d == LeastConn(peers, list, tried)
    <3>3. /\ d.peer \in Candidates(peers, list, tried) /\ Took(peers, d.peers, d.peer)
          /\ Currents(list, d.peers) = Currents(list, peers)
          /\ Currents(other, d.peers) = Currents(other, peers)
      BY <1>1, <1>2, <3>2, LeastConnIs
    <3> QED
      BY <3>1, <3>3, Zenon
  <2>2. CASE block.balancer # "least_conn"
    <3>1. c = SmoothChoice(peers, list, set)
      BY <2>2 DEF Choose, RoundRobin
    <3>2. set \in SUBSET Range(list) /\ set # {}
      BY DEF Candidates, list
    <3> HIDE DEF c, set
    <3> QED
      BY <1>1, <1>2, <3>1, <3>2, SmoothIs, Zenon
  <2> QED
    BY <2>1, <2>2
<1> HIDE DEF c
<1>4. SameCurrents(c.peers)
  BY <1>2, <1>3 DEF SameCurrents
<1> QED
  BY <1>3, <1>4 DEF c, list

\* A server that may be given: one that was given up has been left alone.
LEMMA CandidateIs ==
    ASSUME Typed, NEW l \in {"primary", "backup"}, NEW tried,
           NEW p \in Candidates(peers, Servers(l), tried)
    PROVE  /\ p \in Peer /\ p \in Range(Servers(l)) /\ p \notin tried
           /\ GivenUp(peers, p) => peers[p].age > FailTimeout
BY ServersAre, PeersAssumption DEF Candidates, Usable, Typed, PeerState, Resting

\* b is the request after the misses or the change of list that went before.
LEMMA GivenObtained ==
    ASSUME Typed, NEW q \in Request, NEW b \in Request, NEW p \in Peer, NEW qs,
           b.method = q.method, b.tries = q.tries, b.sent = q.sent, b.held = q.held,
           b.misses = q.misses, b.had = q.had, b.reached = q.reached,
           p \notin q.had, GivenUp(peers, p) => peers[p].age > FailTimeout,
           Marks(b), ~Single => p \in Range(Servers(b.list))
    PROVE  LET x == [Given(b, p, qs).req EXCEPT !.phase = "dial"]
           IN  /\ Given(b, p, qs).req.peer = p /\ Given(b, p, qs).peers = qs
               /\ Obtained(q, x, p)
<1> DEFINE g == Given(b, p, qs)
           probe == IF GivenUp(peers, p) THEN 0 ELSE -1
           tried == IF Single THEN b.tried ELSE b.tried \cup {p}
           y == [b EXCEPT !.peer = p, !.had = @ \cup {p}, !.probe = probe, !.tried = tried]
           x == [y EXCEPT !.phase = "dial"]
<1>1. g.peers = qs /\ g.req = y
  BY DEF Given
<1>2. probe \in Int /\ tried \in SUBSET Peer
  BY DEF Request
<1> HIDE DEF g, probe, tried
<1>3. /\ y \in Request /\ y.peer = p /\ y.had = b.had \cup {p} /\ y.probe = probe
      /\ y.method = b.method /\ y.tries = b.tries /\ y.sent = b.sent /\ y.held = b.held
      /\ y.misses = b.misses /\ y.reached = b.reached /\ y.list = b.list /\ y.tried = tried
  BY <1>2, Zenon DEF Request
<1> HIDE DEF y
<1>4. /\ x \in Request /\ x.peer = y.peer /\ x.had = y.had /\ x.probe = y.probe
      /\ x.method = y.method /\ x.tries = y.tries /\ x.sent = y.sent /\ x.held = y.held
      /\ x.misses = y.misses /\ x.reached = y.reached /\ x.list = y.list /\ x.tried = y.tried
      /\ x.phase = "dial"
  BY <1>3 DEF Request, WithPeer
<1>5. [g.req EXCEPT !.phase = "dial"] = x /\ g.req.peer = p
  BY <1>1, <1>3
<1> HIDE DEF x
<1>6. /\ x.phase = "dial" /\ x.peer = p /\ x.had = q.had \cup {p} /\ x.probe = probe
      /\ x.method = q.method /\ x.tries = q.tries /\ x.sent = q.sent /\ x.held = q.held
      /\ x.misses = q.misses /\ x.reached = q.reached /\ x.list = b.list /\ x.tried = tried
  BY <1>3, <1>4, Zenon
<1>7. Marks(x)
  BY <1>6 DEF Hashing, Request, Servers, Marks, tried
<1> QED
  BY <1>1, <1>4, <1>5, <1>6, <1>7, Zenon DEF Obtained, g, probe

LEMMA SingleTook ==
    ASSUME Typed, PeerBounds(peers), Clocks(peers), Single, NEW p \in Peer
    PROVE  LET qs == [peers EXCEPT ![p].conns = @ + 1]
           IN  Took(peers, qs, p) /\ SameCurrents(qs) /\ ~GivenUp(peers, p)
BY PeersAssumption DEF Typed, PeerState, Clocks, GivenUp, PeerBounds, Took, SameCurrents,
   Currents

LEMMA BusyIs ==
    ASSUME NEW q
    PROVE  Busy(q).peers = peers /\ Busy(q).req = q
BY DEF Busy

\* What peer.get does: nobody is there to be had, a miss, or a server.
LEMMA GetServerIs ==
    ASSUME Typed, PeerBounds(peers), Clocks(peers), NEW r \in Slots, GetServer(r),
           req[r].peer = NoPeer, Marks(req[r])
    PROVE  \/ peers' = peers /\ req' = [req EXCEPT ![r] = NoRequest]
           \/ /\ peers' = peers /\ Hashing(req[r])
              /\ \E h \in Nat :
                    req' = [req EXCEPT ![r] = [req[r] EXCEPT !.hash = h, !.misses = @ + 1]]
           \/ \E p \in Peer, x \in Request :
                /\ Obtained(req[r], x, p) /\ Took(peers, peers', p) /\ SameCurrents(peers')
                /\ req' = [req EXCEPT ![r] = x]
<1> DEFINE q == req[r]
           got == Get(q)
           next == IF got.req.peer # NoPeer THEN [got.req EXCEPT !.phase = "dial"]
                   ELSE IF Hashing(q) THEN got.req ELSE NoRequest
<1>1. peers' = got.peers /\ req' = [req EXCEPT ![r] = next] /\ q.phase = "get"
  BY DEF GetServer, InPhase
<1>2. q \in Request /\ block \in Blocks /\ NoPeer \notin Peer
  BY PeersAssumption DEF Typed
<1> DEFINE Gives(b, p, qs) ==
              /\ got = Given(b, p, qs) /\ Took(peers, qs, p) /\ SameCurrents(qs)
              /\ Obtained(q, [Given(b, p, qs).req EXCEPT !.phase = "dial"], p)
              /\ Given(b, p, qs).req.peer = p /\ Given(b, p, qs).peers = qs
<1>3. ASSUME NEW b \in Request, NEW p \in Peer, NEW qs, Gives(b, p, qs)
      PROVE  \E y \in Peer, x \in Request :
                /\ Obtained(q, x, y) /\ Took(peers, peers', y) /\ SameCurrents(peers')
                /\ req' = [req EXCEPT ![r] = x]
  <2> DEFINE x == [Given(b, p, qs).req EXCEPT !.phase = "dial"]
  <2>1. got.req.peer = p /\ got.peers = qs /\ p # NoPeer
    BY <1>2, <1>3
  <2>2. next = x
    BY <1>3, <2>1
  <2>3. x \in Request /\ Obtained(q, x, p)
    BY <1>3 DEF Obtained
  <2> HIDE DEF x, got, next
  <2> QED
    BY <1>1, <1>3, <2>2, <2>3, Zenon
<1>4. ASSUME got.peers = peers, got.req.peer = NoPeer, ~Hashing(q)
      PROVE  peers' = peers /\ req' = [req EXCEPT ![r] = NoRequest]
  BY <1>1, <1>4
<1>5. CASE Single
  <2> DEFINE p == block.primary[1]
             qs == [peers EXCEPT ![p].conns = @ + 1]
  <2>1. got = IF p \in Down \/ Full(peers, p) THEN Busy(q) ELSE Given(q, p, qs)
    BY <1>5 DEF Get, GetSingle
  <2>2. ~Hashing(q)
    BY <1>5 DEF Hashing
  <2>3. CASE p \in Down \/ Full(peers, p)
    <3>1. got.peers = peers /\ got.req.peer = NoPeer
      BY <2>1, <2>3 DEF Busy
    <3> HIDE DEF got, next
    <3> QED
      BY <1>4, <2>2, <3>1, Zenon
  <2>4. CASE ~(p \in Down \/ Full(peers, p))
    <3>1. p \in Peer
      BY <1>2, BlockIs
    <3>2. Took(peers, qs, p) /\ SameCurrents(qs) /\ ~GivenUp(peers, p)
      BY <1>5, <3>1, SingleTook
    <3>3. p \notin q.had
      BY <1>1, <1>5 DEF Marks
    <3>4. got = Given(q, p, qs)
      BY <2>1, <2>4
    <3> HIDE DEF p, qs, got
    <3>5. /\ Obtained(q, [Given(q, p, qs).req EXCEPT !.phase = "dial"], p)
          /\ Given(q, p, qs).req.peer = p /\ Given(q, p, qs).peers = qs
      BY <1>2, <1>5, <3>1, <3>2, <3>3, GivenObtained
    <3>6. Gives(q, p, qs)
      BY <3>2, <3>4, <3>5
    <3> HIDE DEF Gives
    <3> QED
      BY <1>2, <1>3, <3>1, <3>6, Zenon
  <2> QED
    BY <2>3, <2>4, Zenon
<1>6. CASE ~Single /\ Hashing(q)
  <2> DEFINE h == HashAddr(q.hash, Address)
             p == ByWeight(block.primary, h)
             b == [q EXCEPT !.hash = h]
  <2>1. h \in Nat
    <3>1. Address[1] \in Nat /\ Address[2] \in Nat /\ Address[3] \in Nat /\ q.hash \in Nat
      BY <1>2, BlocksAssumption DEF Request
    <3>2. \A x, o \in Nat : HashOctet(x, o) \in Nat
      BY DEF HashOctet
    <3> HIDE DEF q
    <3> QED
      BY <3>1, <3>2, Zenon DEF HashAddr
  <2>2. got = IF p \in Candidates(peers, block.primary, q.tried)
              THEN Given(b, p, Take(peers, p))
              ELSE Busy([q EXCEPT !.hash = h, !.misses = @ + 1])
    BY <1>6 DEF Get, GetByHash
  <2>3. Servers("primary") = block.primary
    BY DEF Servers
  <2> HIDE DEF h, p, got
  <2>4. CASE p \in Candidates(peers, block.primary, q.tried)
    <3>1. /\ p \in Peer /\ p \in Range(block.primary) /\ p \notin q.tried
          /\ GivenUp(peers, p) => peers[p].age > FailTimeout
      BY <2>3, <2>4, CandidateIs
    <3>2. /\ b \in Request /\ b.method = q.method /\ b.tries = q.tries /\ b.sent = q.sent
          /\ b.held = q.held /\ b.misses = q.misses /\ b.had = q.had /\ b.reached = q.reached
          /\ b.list = q.list /\ b.tried = q.tried /\ b.phase = q.phase
      <4> HIDE DEF q
      <4> QED
        BY <1>2, <2>1 DEF Request
    <3> HIDE DEF b
    <3>3. Marks(b) /\ b.list = "primary"
      BY <1>6, <3>2 DEF Hashing, Marks
    <3>4. p \notin q.had
      BY <1>6, <3>1, Zenon DEF Marks
    <3>5. /\ Took(peers, Take(peers, p), p)
          /\ \A x \in Peer : Take(peers, p)[x].current = peers[x].current
      BY <3>1, TakeTook, Zenon DEF Typed
    <3>6. SameCurrents(Take(peers, p))
      BY <3>5 DEF SameCurrents, Currents
    <3>7. /\ Obtained(q, [Given(b, p, Take(peers, p)).req EXCEPT !.phase = "dial"], p)
          /\ Given(b, p, Take(peers, p)).req.peer = p
          /\ Given(b, p, Take(peers, p)).peers = Take(peers, p)
      BY <1>2, <2>3, <3>1, <3>2, <3>3, <3>4, GivenObtained
    <3>8. Gives(b, p, Take(peers, p))
      BY <2>2, <2>4, <3>5, <3>6, <3>7
    <3> HIDE DEF Gives
    <3> QED
      BY <1>3, <3>1, <3>2, <3>8, Zenon
  <2>5. CASE p \notin Candidates(peers, block.primary, q.tried)
    BY <1>1, <1>2, <2>1, <2>2, <2>5, Zenon DEF Busy, Request
  <2> QED
    BY <2>4, <2>5, Zenon
<1>7. CASE ~Single /\ ~Hashing(q)
  <2>1. got = GetPeer(q)
    BY <1>7 DEF Get
  <2>2. ASSUME NEW b \in Request, b.peer = NoPeer
        PROVE  \/ GetFrom(b) = Busy(b)
               \/ \E p \in Candidates(peers, Servers(b.list), b.tried) : \E qs :
                    /\ GetFrom(b) = Given(b, p, qs)
                    /\ Took(peers, qs, p) /\ SameCurrents(qs)
    BY ChooseIs DEF Request, GetFrom
  <2>3. ASSUME NEW b \in Request, b.method = q.method, b.tries = q.tries, b.sent = q.sent,
               b.held = q.held, b.misses = q.misses, b.had = q.had, b.reached = q.reached,
               Marks(b), \A p \in Range(Servers(b.list)) : p \notin b.tried => p \notin q.had,
               NEW p \in Candidates(peers, Servers(b.list), b.tried), NEW qs,
               got = Given(b, p, qs), Took(peers, qs, p), SameCurrents(qs)
        PROVE  \E y \in Peer, x \in Request :
                /\ Obtained(q, x, y) /\ Took(peers, peers', y) /\ SameCurrents(peers')
                /\ req' = [req EXCEPT ![r] = x]
    <3>1. b.list \in {"primary", "backup"}
      BY DEF Request
    <3>2. /\ p \in Peer /\ p \in Range(Servers(b.list)) /\ p \notin b.tried
          /\ GivenUp(peers, p) => peers[p].age > FailTimeout
      BY <3>1, CandidateIs, Zenon
    <3>3. /\ Obtained(q, [Given(b, p, qs).req EXCEPT !.phase = "dial"], p)
          /\ Given(b, p, qs).req.peer = p /\ Given(b, p, qs).peers = qs
      BY <1>2, <2>3, <3>2, GivenObtained
    <3>4. Gives(b, p, qs)
      BY <2>3, <3>3
    <3> HIDE DEF Gives
    <3> QED
      BY <1>3, <3>2, <3>4, Zenon
  <2>4. \A p \in Range(Servers(q.list)) : p \notin q.tried => p \notin q.had
    BY <1>2, <1>7, BlockIs, Zenon DEF Request, Marks, Servers, Apart
  <2> DEFINE again == q.list = "primary" /\ block.backup # <<>>
             b == [q EXCEPT !.list = "backup", !.tried = {}]
  <2>5. GetPeer(q) = IF GetFrom(q).req.peer = NoPeer /\ again THEN GetFrom(b) ELSE GetFrom(q)
    BY DEF GetPeer
  <2>6. CASE GetFrom(q).req.peer = NoPeer /\ again
    <3>1. got = GetFrom(b)
      BY <2>1, <2>5, <2>6
    <3>2. /\ b \in Request /\ b.method = q.method /\ b.tries = q.tries /\ b.sent = q.sent
          /\ b.held = q.held /\ b.misses = q.misses /\ b.had = q.had /\ b.reached = q.reached
          /\ b.list = "backup" /\ b.tried = {} /\ b.phase = q.phase /\ b.peer = NoPeer
      BY <1>2, Zenon DEF Request
    <3> HIDE DEF b, got
    <3>3. Marks(b)
      BY <1>7, <2>6, <3>2 DEF Hashing, Marks
    <3>4. \A p \in Range(Servers(b.list)) : p \notin b.tried => p \notin q.had
      BY <1>2, <1>7, <2>6, <3>2, BlockIs, Zenon DEF Servers, Apart, Marks
    <3>5. CASE GetFrom(b) = Busy(b)
      <4>1. got.peers = peers /\ got.req.peer = NoPeer
        BY <3>1, <3>2, <3>5, BusyIs, Zenon
      <4> HIDE DEF next
      <4> QED
        BY <1>4, <1>7, <4>1, Zenon
    <3>6. CASE \E p \in Candidates(peers, Servers(b.list), b.tried) : \E qs :
                    /\ GetFrom(b) = Given(b, p, qs)
                    /\ Took(peers, qs, p) /\ SameCurrents(qs)
      BY <2>3, <3>1, <3>2, <3>3, <3>4, <3>6, Zenon
    <3> QED
      BY <2>2, <3>2, <3>5, <3>6, Zenon
  <2>7. CASE ~(GetFrom(q).req.peer = NoPeer /\ again)
    <3>1. got = GetFrom(q)
      BY <2>1, <2>5, <2>7
    <3> HIDE DEF got
    <3>2. CASE GetFrom(q) = Busy(q)
      <4>1. got.peers = peers /\ got.req.peer = NoPeer
        BY <3>1, <3>2, BusyIs, Zenon
      <4> HIDE DEF next
      <4> QED
        BY <1>4, <1>7, <4>1, Zenon
    <3>3. CASE \E p \in Candidates(peers, Servers(q.list), q.tried) : \E qs :
                    /\ GetFrom(q) = Given(q, p, qs)
                    /\ Took(peers, qs, p) /\ SameCurrents(qs)
      BY <1>2, <2>3, <2>4, <3>1, <3>3, Zenon
    <3> QED
      BY <1>2, <2>2, <3>2, <3>3, Zenon
  <2> QED
    BY <2>6, <2>7, Zenon
<1> QED
  BY <1>5, <1>6, <1>7, Zenon

-----------------------------------------------------------------------------
(* Every step has one of these shapes.                                     *)

LEMMA EasedSame ==
    ASSUME Typed, PeerBounds(peers), Clocks(peers)
    PROVE  Eased(peers)
BY DEF Typed, PeerState, Eased

\* One server changes.
LEMMA EasedOne ==
    ASSUME Typed, PeerBounds(peers), Clocks(peers), NEW p \in Peer, NEW n \in PeerState,
           n.fails <= MaxFails[p], n.effective <= Weight[p], n.age <= Expired, n.rest <= Expired,
           n.age <= n.rest, n.behind => n.rest > FailTimeout, Single => n.fails = 0,
           n.current = peers[p].current, n.age <= peers[p].age,
           n.fails >= peers[p].fails \/ peers[p].behind
    PROVE  Eased([peers EXCEPT ![p] = n])
BY DEF Typed, PeerState, PeerBounds, Clocks, Eased

LEMMA ForgivenEased ==
    ASSUME Typed, PeerBounds(peers), Clocks(peers), NEW p \in Peer
    PROVE  LET qs == [peers EXCEPT ![p] = Forgiven(@)]
           IN  Eased(qs) /\ \A x \in Peer : qs[x].conns = peers[x].conns
<1> DEFINE s == peers[p]
           n == [conns |-> s.conns, fails |-> IF s.behind THEN 0 ELSE s.fails, age |-> s.age,
                 behind |-> s.behind, rest |-> s.rest, effective |-> s.effective,
                 current |-> s.current]
<1>1. s \in PeerState /\ peers \in [Peer -> PeerState]
  BY DEF Typed
<1>2. n = Forgiven(s)
  BY <1>1 DEF Forgiven, PeerState
<1>3. /\ s.fails \in Nat /\ s.age \in Nat /\ MaxFails[p] \in Nat
      /\ s.fails <= MaxFails[p] /\ s.effective <= Weight[p] /\ s.age <= Expired
      /\ s.rest <= Expired /\ s.age <= s.rest /\ (s.behind => s.rest > FailTimeout)
      /\ (Single => s.fails = 0)
  BY <1>1, PeersAssumption DEF PeerState, PeerBounds, Clocks
<1>4. n \in PeerState
  BY <1>1 DEF PeerState
<1>5. /\ n.conns = s.conns /\ n.fails = (IF s.behind THEN 0 ELSE s.fails) /\ n.age = s.age
      /\ n.behind = s.behind /\ n.rest = s.rest /\ n.effective = s.effective
      /\ n.current = s.current
  BY Zenon
<1> HIDE DEF n
<1>6. n.fails <= MaxFails[p] /\ (Single => n.fails = 0) /\ (n.fails >= s.fails \/ s.behind)
  BY <1>3, <1>5
<1>7. Eased([peers EXCEPT ![p] = n])
  BY <1>3, <1>4, <1>5, EasedOne
<1>8. [peers EXCEPT ![p] = Forgiven(@)] = [peers EXCEPT ![p] = n]
  BY <1>2
<1>9. \A x \in Peer : [peers EXCEPT ![p] = n][x].conns = peers[x].conns
  BY <1>5
<1> QED
  BY <1>7, <1>8, <1>9

\* Whatever the outcome, a server that is freed loses one connection.
LEMMA FreedEased ==
    ASSUME Typed, PeerBounds(peers), Clocks(peers), NEW p \in Peer, NEW failed \in BOOLEAN
    PROVE  LET qs == Freed(p, failed)
           IN  /\ Eased(qs)
               /\ \A x \in Peer : qs[x].conns = IF x = p THEN peers[x].conns - 1
                                               ELSE peers[x].conns
<1> DEFINE s == peers[p]
           d == [conns |-> s.conns - 1, fails |-> s.fails, age |-> s.age,
                 behind |-> s.behind, rest |-> s.rest, effective |-> s.effective,
                 current |-> s.current]
           f == [conns |-> s.conns - 1, fails |-> IF s.behind THEN 0 ELSE s.fails, age |-> s.age,
                 behind |-> s.behind, rest |-> s.rest, effective |-> s.effective,
                 current |-> s.current]
           count == Min({s.fails + 1, MaxFails[p]})
           weight == IF MaxFails[p] = 0 THEN s.effective
                     ELSE Max({0, s.effective - Weight[p] \div MaxFails[p]})
           b == [conns |-> s.conns - 1, fails |-> count, age |-> 0,
                 behind |-> FALSE, rest |-> 0, effective |-> weight, current |-> s.current]
<1>1. s \in PeerState /\ peers \in [Peer -> PeerState]
  BY DEF Typed
<1>2. /\ s.fails \in Nat /\ s.age \in Nat /\ MaxFails[p] \in Nat /\ FailTimeout \in Nat
      /\ s.effective \in Nat /\ Weight[p] \in Nat /\ Expired \in Nat
      /\ s.fails <= MaxFails[p] /\ s.effective <= Weight[p] /\ s.age <= Expired
      /\ s.rest <= Expired /\ s.age <= s.rest /\ (s.behind => s.rest > FailTimeout)
      /\ (Single => s.fails = 0)
  BY <1>1, PeersAssumption DEF PeerState, PeerBounds, Clocks, Expired
<1>3. count \in Nat /\ count <= MaxFails[p] /\ count >= s.fails
  BY <1>2 DEF Min
<1>4. weight \in Nat /\ weight <= Weight[p]
  BY <1>2 DEF Max
<1> HIDE DEF count, weight
<1>5. Drop(peers, p) = [peers EXCEPT ![p] = d]
  <2>1. [s EXCEPT !.conns = s.conns - 1] = d
    BY <1>1 DEF PeerState
  <2>2. Drop(peers, p) = [peers EXCEPT ![p] = [peers[p] EXCEPT !.conns = peers[p].conns - 1]]
    BY <1>1 DEF Drop
  <2> HIDE DEF d
  <2> QED
    BY <2>1, <2>2, Zenon
<1>6. ASSUME NEW n \in PeerState, n.conns = s.conns - 1, Freed(p, failed) = [peers EXCEPT ![p] = n],
             Eased([peers EXCEPT ![p] = n])
      PROVE  /\ Eased(Freed(p, failed))
             /\ \A x \in Peer : Freed(p, failed)[x].conns = IF x = p THEN peers[x].conns - 1
                                                          ELSE peers[x].conns
  BY <1>1, <1>6
<1>7. CASE Single
  <2>1. Freed(p, failed) = [peers EXCEPT ![p] = d]
    BY <1>5, <1>7 DEF Freed
  <2>2. d \in PeerState
    BY <1>1 DEF PeerState
  <2>3. /\ d.conns = s.conns - 1 /\ d.fails = s.fails /\ d.age = s.age
        /\ d.behind = s.behind /\ d.rest = s.rest /\ d.effective = s.effective
        /\ d.current = s.current
    BY Zenon
  <2> HIDE DEF d
  <2>4. d.age <= s.age /\ d.fails >= s.fails
    BY <1>2, <2>3
  <2>5. Eased([peers EXCEPT ![p] = d])
    BY <1>2, <2>2, <2>3, EasedOne
  <2> QED
    BY <1>6, <2>1, <2>2, <2>3, <2>5, Zenon
<1>8. CASE ~Single /\ failed
  <2>1. Freed(p, failed) = [Drop(peers, p) EXCEPT ![p] = Failed(p, @)]
    BY <1>8 DEF Freed, FreePeer
  <2>2. Failed(p, d) = b
    <3>1. d.fails = s.fails /\ d.effective = s.effective
      OBVIOUS
    <3>2. Failed(p, d) = [d EXCEPT !.fails = count, !.age = 0, !.behind = FALSE, !.rest = 0,
                                   !.effective = weight]
      <4> HIDE DEF d
      <4> QED
        BY <3>1 DEF Failed, count, weight
    <3> QED
      BY <3>2, Zenon
  <2>3. Freed(p, failed) = [peers EXCEPT ![p] = b]
    <3> HIDE DEF d, b
    <3> QED
      BY <1>5, <2>1, <2>2, Zenon
  <2>4. b \in PeerState
    BY <1>1, <1>3, <1>4 DEF PeerState
  <2>5. /\ b.conns = s.conns - 1 /\ b.fails = count /\ b.age = 0
        /\ b.behind = FALSE /\ b.rest = 0 /\ b.effective = weight
        /\ b.current = s.current
    OBVIOUS
  <2> HIDE DEF b
  <2>6. b.age <= s.age /\ b.fails >= s.fails /\ b.age <= Expired /\ b.rest <= Expired /\ b.age <= b.rest
    BY <1>2, <1>3, <2>5
  <2>7. Eased([peers EXCEPT ![p] = b])
    BY <1>3, <1>4, <1>8, <2>4, <2>5, <2>6, EasedOne
  <2> QED
    BY <1>6, <2>3, <2>4, <2>5, <2>7, Zenon
<1>9. CASE ~Single /\ ~failed
  <2>1. Freed(p, failed) = [Drop(peers, p) EXCEPT ![p] = Forgiven(@)]
    BY <1>9 DEF Freed, FreePeer
  <2>2. Forgiven(d) = f
    BY DEF Forgiven
  <2>3. Freed(p, failed) = [peers EXCEPT ![p] = f]
    <3> HIDE DEF d, f
    <3> QED
      BY <1>5, <2>1, <2>2, Zenon
  <2>4. f \in PeerState
    BY <1>1 DEF PeerState
  <2>5. /\ f.conns = s.conns - 1 /\ f.fails = (IF s.behind THEN 0 ELSE s.fails) /\ f.age = s.age
        /\ f.behind = s.behind /\ f.rest = s.rest /\ f.effective = s.effective
        /\ f.current = s.current
    BY Zenon
  <2> HIDE DEF f
  <2>6. f.fails <= MaxFails[p] /\ (f.fails >= s.fails \/ s.behind) /\ f.age <= s.age
    BY <1>2, <2>5
  <2>7. Eased([peers EXCEPT ![p] = f])
    BY <1>2, <2>4, <2>5, EasedOne
  <2> QED
    BY <1>6, <2>3, <2>4, <2>5, <2>7, Zenon
<1> QED
  BY <1>7, <1>8, <1>9

LEMMA PeersSame ==
    ASSUME Inv, peers' = peers
    PROVE  Eased(peers') /\ SameConns
BY EasedSame DEF Inv, SameConns

LEMMA FreedLeaves ==
    ASSUME Inv, NEW r \in Slots, req[r].peer \in Peer, NEW failed \in BOOLEAN,
           peers' = Freed(req[r].peer, failed),
           NEW x, x.peer = NoPeer, x.probe = -1 \/ x.phase = "get"
    PROVE  Leaves(r, x)
BY FreedEased, Zenon DEF Leaves, Inv

LEMMA FinalizeTurns ==
    ASSUME Inv, NEW r \in Slots, InPhase(r, Handling) \/ Free, Finalize(r), block' = block
    PROVE  Turned(r, NoRequest)
<1>1. /\ NoRequest \in Request /\ Sound(NoRequest) /\ Once(NoRequest)
      /\ NoRequest.peer = NoPeer /\ NoRequest.probe = -1
  BY NoRequestIs
<1>2. req' = [req EXCEPT ![r] = NoRequest]
  BY DEF Finalize
<1>3. CASE req[r].peer = NoPeer
  BY <1>1, <1>3, PeersSame DEF Finalize, Stays, Turned
<1>4. CASE req[r].peer # NoPeer
  <2>1. peers' = Freed(req[r].peer, FALSE)
    BY <1>4 DEF Finalize
  <2>2. req[r].peer \in Peer
    BY <1>4, RequestIs DEF Request
  <2>3. Leaves(r, NoRequest)
    BY <1>1, <2>1, <2>2, FreedLeaves, Zenon
  <2> QED
    BY <1>1, <1>2, <2>3 DEF Turned
<1> QED
  BY <1>3, <1>4

LEMMA SentIs ==
    ASSUME NEW q \in Request, q.peer \in Peer
    PROVE  LET s == Sent(q)
           IN  /\ s \in Request /\ s.phase = q.phase /\ s.method = q.method /\ s.list = q.list
               /\ s.tried = q.tried /\ s.peer = q.peer /\ s.tries = q.tries /\ s.sent = TRUE
               /\ s.held = q.held /\ s.hash = q.hash /\ s.misses = q.misses /\ s.had = q.had
               /\ s.reached = q.reached \cup {q.peer} /\ s.probe = q.probe
BY Zenon DEF Sent, Request

\* A request that is passed on; q is as it was or after sending.
LEMMA PassedOn ==
    ASSUME Inv, NEW r \in Slots, req[r].phase \in WithPeer, InPhase(r, Handling) \/ Free,
           NEW q \in {req[r], Sent(req[r])}, NEW failed \in BOOLEAN,
           TriesLeft(q.tries) # 0,
           block.section = "http" => Idempotent(q),
           block.section = "stream" => q = req[r] /\ req[r].phase # "body",
           block' = block, peers' = Freed(q.peer, failed),
           req' = [req EXCEPT ![r] = [q EXCEPT !.phase = "get", !.peer = NoPeer,
                                               !.tries = TriesLeft(q.tries)]]
    PROVE  \E x : Turned(r, x)
<1> DEFINE o == req[r]
           tries == TriesLeft(q.tries)
           x == [q EXCEPT !.phase = "get", !.peer = NoPeer, !.tries = tries]
<1>1. /\ o \in Request /\ Sound(o) /\ o.peer \in Peer /\ block.section \in {"http", "stream"}
      /\ Len(block.primary) \in Nat /\ Len(block.backup) \in Nat
  BY RequestIs
<1>2. /\ q \in Request /\ q.phase = o.phase /\ q.method = o.method /\ q.list = o.list
      /\ q.tried = o.tried /\ q.peer = o.peer /\ q.tries = o.tries
      /\ q.misses = o.misses /\ q.had = o.had /\ q.probe = o.probe
      /\ q = o \/ q.sent = TRUE
  <2>1. CASE q = o
    BY <1>1, <2>1
  <2>2. CASE q = Sent(o)
    <3> HIDE DEF o
    <3> QED
      BY <1>1, <2>2, SentIs, Zenon
  <2> QED
    BY <2>1, <2>2, Zenon
<1>3. ~Single /\ o.tries \in Nat /\ tries \in Nat /\ tries <= o.tries
  BY <1>2 DEF TriesLeft, Request
<1> HIDE DEF o, tries
<1>4. /\ x \in Request /\ x.phase = "get" /\ x.peer = NoPeer /\ x.tries = tries
      /\ x.method = o.method /\ x.list = o.list /\ x.tried = o.tried /\ x.misses = o.misses
      /\ x.had = o.had /\ x.probe = o.probe /\ x.sent = q.sent /\ x.reached = q.reached
  BY <1>2, <1>3, Zenon DEF Request
<1> HIDE DEF x
<1>5. Sound(x)
  <2>1. Marks(x)
    BY <1>1, <1>3, <1>4 DEF Hashing, Sound, Marks
  <2>2. x.tries <= Len(block.primary) + Len(block.backup)
    <3> DEFINE n == Len(block.primary)
               k == Len(block.backup)
    <3>1. o.tries <= n + k /\ n \in Nat /\ k \in Nat
      BY <1>1, Zenon DEF Sound
    <3> HIDE DEF n, k
    <3>2. x.tries <= n + k
      BY <1>3, <1>4, <3>1
    <3> QED
      BY <3>2, Zenon DEF n, k
  <2> QED
    BY <1>1, <1>4, <2>1, <2>2, Zenon DEF Sound
<1>6. Leaves(r, x)
  BY <1>1, <1>2, <1>4, FreedLeaves, Zenon DEF o
<1>7. Once(o) => Once(x) \/ Repeats
  BY <1>1, <1>2, <1>4 DEF Idempotent, Repeats, Once, o
<1>8. req' = [req EXCEPT ![r] = x]
  BY DEF x, tries
<1> QED
  BY <1>4, <1>5, <1>6, <1>7, <1>8, Zenon DEF Turned, o

LEMMA NextServerTurns ==
    ASSUME Inv, NEW r \in Slots, req[r].phase \in WithPeer, InPhase(r, Handling) \/ Free,
           NEW q \in {req[r], Sent(req[r])}, NEW why,
           block.section = "stream" => q = req[r] /\ req[r].phase # "body",
           NextServer(r, q, why), block' = block
    PROVE  \E x : Turned(r, x)
<1> DEFINE tries == TriesLeft(q.tries)
<1>1. /\ req[r] \in Request /\ req[r].peer \in Peer /\ q.peer = req[r].peer
      /\ block.section \in {"http", "stream"}
  <2>1. req[r] \in Request /\ req[r].peer \in Peer /\ block.section \in {"http", "stream"}
    BY RequestIs
  <2>2. Sent(req[r]).peer = req[r].peer
    BY <2>1, SentIs, Zenon
  <2> QED
    BY <2>1, <2>2
<1>2. ASSUME NEW failed \in BOOLEAN, peers' = Freed(q.peer, failed),
             req' = [req EXCEPT ![r] = NoRequest]
      PROVE  \E x : Turned(r, x)
  <2>1. /\ NoRequest \in Request /\ Sound(NoRequest) /\ Once(NoRequest)
        /\ NoRequest.peer = NoPeer /\ NoRequest.probe = -1
    BY NoRequestIs, Zenon
  <2>2. Leaves(r, NoRequest)
    BY <1>1, <1>2, <2>1, FreedLeaves, Zenon
  <2> QED
    BY <1>2, <2>1, <2>2, Zenon DEF Turned
<1>3. CASE block.section = "http" /\ NextHttp(r, q, why)
  BY <1>2, <1>3, PassedOn, Zenon DEF NextHttp, MayRepeat
<1>4. CASE block.section = "stream" /\ NextStream(r, q)
  BY <1>2, <1>4, FinalizeTurns, PassedOn, Zenon DEF NextStream
<1> QED
  BY <1>3, <1>4 DEF NextServer

\* A request that goes on with its server.
LEMMA MoveTurns ==
    ASSUME Inv, NEW r \in Slots, req[r].phase \in WithPeer, InPhase(r, Handling) \/ Free,
           NEW x \in Request, x.phase \in WithPeer \ {"dial"}, x.peer = req[r].peer,
           x.tries = req[r].tries, x.misses = req[r].misses, x.probe = req[r].probe,
           x.list = req[r].list, x.tried = req[r].tried, x.had = req[r].had,
           x.method = req[r].method,
           peers' = peers \/ peers' = [peers EXCEPT ![req[r].peer] = Forgiven(@)],
           block' = block, req' = [req EXCEPT ![r] = x],
           Once(req[r]) => Once(x)
    PROVE  Turned(r, x)
<1>1. /\ req[r] \in Request /\ Sound(req[r]) /\ req[r].peer \in Peer /\ NoPeer \notin Peer
  BY RequestIs, Zenon
<1>2. Sound(x)
  BY <1>1, Zenon DEF Hashing, WithPeer, Sound, Marks
<1>3. Eased(peers') /\ SameConns
  <2>1. CASE peers' = peers
    BY <2>1, PeersSame
  <2>2. CASE peers' = [peers EXCEPT ![req[r].peer] = Forgiven(@)]
    BY <1>1, <2>2, ForgivenEased, Zenon DEF Inv, SameConns
  <2> QED
    BY <2>1, <2>2, Zenon
<1> QED
  BY <1>2, <1>3, Zenon DEF Turned, Stays

LEMMA InitRequestTurns ==
    ASSUME Inv, NEW r \in Slots, NEW method \in {"GET", "POST"}, InitRequest(r, method)
    PROVE  \E x : Turned(r, x)
<1> DEFINE n == Len(block.primary) + Len(block.backup)
           x == [NoRequest EXCEPT !.phase = "get", !.method = method, !.tries = n]
<1>1. /\ req[r] \in Request /\ Sound(req[r]) /\ n \in Nat /\ MaxHashes = 20
      /\ req[r].phase = "idle" /\ Free
  <2>1. /\ req[r] \in Request /\ Sound(req[r]) /\ Len(block.primary) \in Nat
        /\ Len(block.backup) \in Nat /\ MaxHashes = 20
    BY RequestIs
  <2>2. req[r].phase = "idle" /\ Free
    BY DEF InitRequest, Reached, InPhase
  <2>3. \A a, b \in Nat : a + b \in Nat
    OBVIOUS
  <2>4. n \in Nat
    BY <2>1, <2>3, Zenon
  <2> QED
    BY <2>1, <2>2, <2>4, Zenon
<1>2. req[r].peer = NoPeer
  BY <1>1 DEF Sound
<1>3. req' = [req EXCEPT ![r] = x] /\ block' = block /\ peers' = peers
  BY DEF InitRequest
<1> HIDE DEF n
<1>4. /\ x \in Request /\ x.phase = "get" /\ x.peer = NoPeer /\ x.tries = n /\ x.misses = 0
      /\ x.list = "primary" /\ x.tried = {} /\ x.had = {} /\ x.reached = {} /\ x.probe = -1
  <2> DEFINE o == NoRequest
  <2>1. /\ o \in Request /\ o.peer = NoPeer /\ o.misses = 0 /\ o.list = "primary"
        /\ o.tried = {} /\ o.had = {} /\ o.reached = {} /\ o.probe = -1
    BY NoRequestIs, Zenon DEF NoRequest
  <2>2. x = [o EXCEPT !.phase = "get", !.method = method, !.tries = n]
    OBVIOUS
  <2> HIDE DEF o, x
  <2>3. /\ x \in Request /\ x.phase = "get" /\ x.peer = o.peer /\ x.tries = n
        /\ x.misses = o.misses /\ x.list = o.list /\ x.tried = o.tried /\ x.had = o.had
        /\ x.reached = o.reached /\ x.probe = o.probe
    BY <1>1, <2>1, <2>2, Zenon DEF Request
  <2> QED
    BY <2>1, <2>3
<1> HIDE DEF x
<1>5. Sound(x)
  BY <1>1, <1>4 DEF Marks, Sound, n
<1>6. Once(x)
  BY <1>4 DEF Once
<1>7. Stays(r, x)
  BY <1>2, <1>3, <1>4, PeersSame DEF Stays
<1> QED
  BY <1>1, <1>3, <1>4, <1>5, <1>6, <1>7, Zenon DEF Turned

LEMMA GetServerTurns ==
    ASSUME Inv, NEW r \in Slots, GetServer(r)
    PROVE  \E x : Turned(r, x)
<1> DEFINE q == req[r]
<1>1. /\ q \in Request /\ Sound(q) /\ q.phase = "get" /\ InPhase(r, Handling)
      /\ block' = block /\ MaxHashes = 20 /\ NoPeer \notin Peer
      /\ block.section \in {"http", "stream"}
  BY RequestIs DEF GetServer, InPhase, Handling
<1>2. q.peer = NoPeer /\ Marks(q)
  BY <1>1 DEF Sound
<1>3. \/ peers' = peers /\ req' = [req EXCEPT ![r] = NoRequest]
      \/ /\ peers' = peers /\ Hashing(q)
         /\ \E h \in Nat :
                req' = [req EXCEPT ![r] = [q EXCEPT !.hash = h, !.misses = @ + 1]]
      \/ \E p \in Peer, x \in Request :
                /\ Obtained(q, x, p) /\ Took(peers, peers', p) /\ SameCurrents(peers')
                /\ req' = [req EXCEPT ![r] = x]
  BY <1>2, GetServerIs, Zenon DEF Inv
<1>4. CASE peers' = peers /\ req' = [req EXCEPT ![r] = NoRequest]
  BY <1>1, <1>2, <1>4, FinalizeTurns, Zenon DEF Finalize
<1>5. CASE /\ peers' = peers /\ Hashing(q)
           /\ \E h \in Nat :
                req' = [req EXCEPT ![r] = [q EXCEPT !.hash = h, !.misses = @ + 1]]
  <2>1. PICK h \in Nat : req' = [req EXCEPT ![r] = [q EXCEPT !.hash = h, !.misses = @ + 1]]
    BY <1>5, Zenon
  <2> DEFINE x == [q EXCEPT !.hash = h, !.misses = @ + 1]
  <2> HIDE DEF q
  <2>2. /\ x \in Request /\ x.phase = q.phase /\ x.method = q.method /\ x.list = q.list
        /\ x.tried = q.tried /\ x.peer = q.peer /\ x.tries = q.tries /\ x.sent = q.sent
        /\ x.misses = q.misses + 1 /\ x.had = q.had /\ x.reached = q.reached
        /\ x.probe = q.probe
    <3>1. q.misses + 1 \in Nat
      BY <1>1 DEF Request
    <3> DEFINE m == q.misses + 1
    <3> HIDE DEF m
    <3>2. x = [q EXCEPT !.hash = h, !.misses = m] /\ m \in Nat
      BY <3>1 DEF m
    <3> HIDE DEF x
    <3>3. /\ x \in Request /\ x.phase = q.phase /\ x.method = q.method /\ x.list = q.list
          /\ x.tried = q.tried /\ x.peer = q.peer /\ x.tries = q.tries /\ x.sent = q.sent
          /\ x.misses = m /\ x.had = q.had /\ x.reached = q.reached /\ x.probe = q.probe
      BY <1>1, <3>2 DEF Request
    <3> QED
      BY <3>3 DEF m
  <2>3. req' = [req EXCEPT ![r] = x]
    BY <2>1
  <2> HIDE DEF x
  <2>4. Sound(x)
    <3>1. q.misses \in Nat /\ q.misses <= MaxHashes /\ q.list = "primary"
      BY <1>1, <1>2, <1>5 DEF Request, Hashing, Marks
    <3>2. x.misses <= MaxHashes + 1
      BY <1>1, <2>2, <3>1
    <3>3. Marks(x)
      BY <1>2, <2>2, <3>1 DEF Marks
    <3> QED
      BY <1>1, <2>2, <3>2, <3>3 DEF Sound
  <2>5. Once(q) => Once(x)
    BY <2>2 DEF Once
  <2>6. Stays(r, x)
    BY <1>5, <2>2, PeersSame DEF Stays, q
  <2> QED
    BY <1>1, <2>2, <2>3, <2>4, <2>5, <2>6, Zenon DEF Turned, q
<1>6. CASE \E p \in Peer, x \in Request :
                /\ Obtained(q, x, p) /\ Took(peers, peers', p) /\ SameCurrents(peers')
                /\ req' = [req EXCEPT ![r] = x]
  <2>1. PICK p \in Peer, x \in Request :
                /\ Obtained(q, x, p) /\ Took(peers, peers', p) /\ SameCurrents(peers')
                /\ req' = [req EXCEPT ![r] = x]
    BY <1>6, Zenon
  <2>2. /\ x.phase = "dial" /\ x.peer = p /\ x.probe \in {0, -1} /\ x.method = q.method
        /\ x.tries = q.tries /\ x.misses = q.misses /\ x.reached = q.reached /\ Marks(x)
    BY <2>1 DEF Obtained
  <2>3. Sound(x)
    <3>1. x.probe >= -1
      BY <2>2
    <3> QED
      BY <1>1, <2>2, <3>1, Zenon DEF Sound
  <2>4. Once(q) => Once(x)
    BY <1>1, <2>2 DEF Once
  <2>5. Joins(r, x, p)
    BY <1>2, <2>1 DEF Joins
  <2> QED
    BY <1>1, <2>1, <2>3, <2>4, <2>5, Zenon DEF Turned
<1> QED
  BY <1>3, <1>4, <1>5, <1>6, Zenon

LEMMA DialTurns ==
    ASSUME Inv, NEW r \in Slots, Dial(r)
    PROVE  \E x : Turned(r, x)
<1> DEFINE q == req[r]
<1>1. /\ q \in Request /\ q.phase = "dial" /\ q.phase \in WithPeer /\ InPhase(r, Handling)
      /\ block' = block /\ block.section \in {"http", "stream"}
  BY RequestIs DEF Dial, InPhase, Handling, WithPeer
<1>2. ASSUME NEW phase \in {"send", "connecting"}, NEW sent \in BOOLEAN, peers' = peers,
             req' = [req EXCEPT ![r] = [q EXCEPT !.phase = phase, !.sent = sent]]
      PROVE  \E x : Turned(r, x)
  BY <1>1, <1>2, MoveTurns, Zenon DEF Request, WithPeer, Once, q
<1>3. \E sent \in BOOLEAN : Connected(q) = [q EXCEPT !.phase = "send", !.sent = sent]
  BY <1>1, Zenon DEF Request, Connected
<1>4. PICK sent \in BOOLEAN : Connected(q) = [q EXCEPT !.phase = "send", !.sent = sent]
  BY <1>3, Zenon
<1>5. [Connected(q) EXCEPT !.phase = "connecting"] = [q EXCEPT !.phase = "connecting", !.sent = sent]
  <2> HIDE DEF q
  <2> QED
    BY <1>4, Zenon DEF Request
<1>6. CASE Finalize(r)
  BY <1>1, <1>6, FinalizeTurns
<1>7. CASE NextServer(r, q, "error")
  BY <1>1, <1>7, NextServerTurns
<1>8. CASE peers' = peers /\ req' = [req EXCEPT ![r] = [Connected(@) EXCEPT !.phase = "connecting"]]
  BY <1>2, <1>5, <1>8, Zenon
<1>9. CASE peers' = peers /\ req' = [req EXCEPT ![r] = Connected(@)]
  BY <1>2, <1>4, <1>9, Zenon
<1> QED
  BY <1>6, <1>7, <1>8, <1>9 DEF Dial

LEMMA TimeoutTurns ==
    ASSUME Inv, NEW r \in Slots, Timeout(r)
    PROVE  \E x : Turned(r, x)
BY NextServerTurns DEF Timeout, Reached, InPhase, WithPeer

LEMMA SendRequestTurns ==
    ASSUME Inv, NEW r \in Slots, SendRequest(r)
    PROVE  \E x : Turned(r, x)
<1> DEFINE q == req[r]
<1>1. /\ block.section = "http" /\ block' = block
      /\ q.phase \in {"send", "connecting", "sending"}
      /\ InPhase(r, Handling) \/ Free
  BY DEF SendRequest, Reached, InPhase, Handling
<1>2. q \in Request /\ q.phase \in WithPeer /\ q.peer \in Peer
  BY <1>1, RequestIs DEF WithPeer
<1>3. CASE NextServer(r, q, "error") \/ NextServer(r, Sent(q), "error")
  BY <1>1, <1>2, <1>3, NextServerTurns
<1>4. CASE Finalize(r)
  BY <1>1, <1>4, FinalizeTurns
<1>5. CASE peers' = peers /\ \E phase \in {"sending", "waiting", "header"} :
                req' = [req EXCEPT ![r] = [Sent(@) EXCEPT !.phase = phase]]
  <2>1. PICK phase \in {"sending", "waiting", "header"} :
                req' = [req EXCEPT ![r] = [Sent(q) EXCEPT !.phase = phase]]
    BY <1>5, Zenon
  <2> DEFINE s == Sent(q)
             x == [s EXCEPT !.phase = phase]
  <2> HIDE DEF q
  <2>2. /\ s \in Request /\ s.method = q.method /\ s.list = q.list
        /\ s.tried = q.tried /\ s.peer = q.peer /\ s.tries = q.tries /\ s.sent = TRUE
        /\ s.misses = q.misses /\ s.had = q.had
        /\ s.reached = q.reached \cup {q.peer} /\ s.probe = q.probe
    BY <1>2, SentIs, Zenon
  <2> HIDE DEF s
  <2>3. /\ x \in Request /\ x.phase = phase /\ x.method = q.method /\ x.list = q.list
        /\ x.tried = q.tried /\ x.peer = q.peer /\ x.tries = q.tries /\ x.sent = TRUE
        /\ x.misses = q.misses /\ x.had = q.had
        /\ x.reached = q.reached \cup {q.peer} /\ x.probe = q.probe
    BY <2>2 DEF Request, WithPeer
  <2>4. req' = [req EXCEPT ![r] = x]
    BY <2>1 DEF s
  <2> HIDE DEF x
  <2>5. Once(q) => Once(x)
    BY <1>1, <2>3 DEF Once
  <2>6. x.phase \in WithPeer \ {"dial"}
    BY <2>3 DEF WithPeer
  <2> QED
    BY <1>1, <1>2, <1>5, <2>3, <2>4, <2>5, <2>6, MoveTurns, Zenon DEF q
<1> QED
  BY <1>3, <1>4, <1>5 DEF SendRequest

\* The phase alone changes.
LEMMA PhaseTurns ==
    ASSUME Inv, NEW r \in Slots, req[r].phase \in WithPeer, InPhase(r, Handling) \/ Free,
           block.section = "http", NEW phase \in {"waiting", "body"},
           peers' = peers, block' = block, req' = [req EXCEPT ![r].phase = phase]
    PROVE  \E x : Turned(r, x)
<1> DEFINE q == req[r]
           x == [q EXCEPT !.phase = phase]
<1>1. q \in Request
  BY RequestIs
<1>2. req' = [req EXCEPT ![r] = x]
  OBVIOUS
<1> HIDE DEF q
<1>3. /\ x \in Request /\ x.phase = phase /\ x.method = q.method /\ x.list = q.list
      /\ x.tried = q.tried /\ x.peer = q.peer /\ x.tries = q.tries /\ x.sent = q.sent
      /\ x.misses = q.misses /\ x.had = q.had /\ x.reached = q.reached /\ x.probe = q.probe
  BY <1>1 DEF Request, WithPeer
<1> HIDE DEF x
<1>4. Once(q) => Once(x)
  BY <1>3 DEF Once
<1>5. x.phase \in WithPeer \ {"dial"}
  BY <1>3 DEF WithPeer
<1> QED
  BY <1>2, <1>3, <1>4, <1>5, MoveTurns, Zenon DEF q

LEMMA ProcessHeaderTurns ==
    ASSUME Inv, NEW r \in Slots, ProcessHeader(r)
    PROVE  \E x : Turned(r, x)
BY NextServerTurns, FinalizeTurns, PhaseTurns DEF ProcessHeader, Reached, InPhase, Handling,
   WithPeer

LEMMA ClientSpeaksTurns ==
    ASSUME Inv, NEW r \in Slots, ClientSpeaks(r)
    PROVE  \E x : Turned(r, x)
BY RequestIs, MoveTurns, Zenon DEF ClientSpeaks, Reached, InPhase, Request, Once, WithPeer

LEMMA InitUpstreamTurns ==
    ASSUME Inv, NEW r \in Slots, InitUpstream(r)
    PROVE  \E x : Turned(r, x)
<1> DEFINE q == req[r]
<1>1. /\ block.section = "stream" /\ block' = block
      /\ q.phase \in {"send", "connecting"}
      /\ InPhase(r, Handling) \/ Free
  BY DEF InitUpstream, Reached, InPhase, Handling
<1>2. q \in Request /\ q.phase \in WithPeer /\ q.phase # "body" /\ q.peer \in Peer
  BY <1>1, RequestIs DEF WithPeer
<1>3. CASE NextServer(r, q, "error")
  BY <1>1, <1>2, <1>3, NextServerTurns
<1>4. CASE Finalize(r)
  BY <1>1, <1>4, FinalizeTurns
<1>5. CASE /\ peers' = [peers EXCEPT ![req[r].peer] = Forgiven(@)]
           /\ req' = [req EXCEPT ![r].phase = "body", ![r].reached = @ \cup {req[r].peer}]
  BY <1>1, <1>2, <1>5, MoveTurns, Zenon DEF Inv, Typed, Request, WithPeer, Once, q
<1> QED
  BY <1>3, <1>4, <1>5 DEF InitUpstream

\* Every step but that of the clock is one of a handler.
LEMMA NextTurns ==
    ASSUME Inv, Next
    PROVE  Tick \/ \E r \in Slots : \E x : Turned(r, x)
<1>1. ASSUME NEW r \in Slots, Arrive(r) \/ Step(r) \/ ClientAbort(r) \/ ClientSpeaks(r)
      PROVE  \E x : Turned(r, x)
  <2>1. CASE Arrive(r)
    BY <2>1, InitRequestTurns DEF Arrive
  <2>2. CASE Step(r)
    BY <2>2, FinalizeTurns, GetServerTurns, DialTurns, TimeoutTurns, SendRequestTurns,
       ProcessHeaderTurns, InitUpstreamTurns DEF EndBody, Reached, Step
  <2>3. CASE ClientAbort(r)
    BY <2>3, FinalizeTurns DEF ClientAbort, Reached
  <2>4. CASE ClientSpeaks(r)
    BY <2>4, ClientSpeaksTurns
  <2> QED
    BY <1>1, <2>1, <2>2, <2>3, <2>4
<1> QED
  BY <1>1 DEF Next

-----------------------------------------------------------------------------
(* The theorems.                                                           *)

LEMMA NextInv == Inv /\ [Next]_vars => Inv'
<1> SUFFICES ASSUME Inv, [Next]_vars PROVE Inv'
  OBVIOUS
<1>1. CASE Next
  BY <1>1, NextTurns, TurnedKeeps, TickKeeps
<1>2. CASE UNCHANGED vars
  BY <1>2, Zenon DEF vars, Inv, Typed, PeerBounds, Clocks, Single, Sound, Marks, Hashing,
     Single, OneHandler, InPhase, Probing, OneProbe, ConnsCounted, Holders, WeightsBalance
<1> QED
  BY <1>1, <1>2

\* The inductive invariant holds: what the requests hold and what the servers
\* record agree, handler after handler (ngx_http_upstream_handler).
THEOREM InvAlways == Spec => []Inv
<1>1. Init => Inv
  BY InitInv
<1> QED
  BY <1>1, NextInv, PTL DEF Spec

\* No number of a server leaves its range, no request loses its way, and the
\* current weights of each list sum up to zero, whatever the weights
\* (ngx_http_upstream_get_peer, ngx_http_upstream_free_round_robin_peer).
THEOREM Accounted == Spec => []PeersAccounted
<1>1. Inv => PeersAccounted
  BY InvTypes DEF Inv, PeersAccounted
<1> QED
  BY <1>1, InvAlways, PTL

\* peer->conns is the number of requests that have the server, whichever way
\* they end (ngx_http_upstream_finalize_request, ngx_http_upstream_next).
THEOREM Counted == Spec => []ConnsCounted
<1>1. Inv => ConnsCounted
  BY DEF Inv
<1> QED
  BY <1>1, InvAlways, PTL

\* No request is given a server twice: the marks of rrp->tried hold over
\* retries, the change to the backups and the misses of ip_hash.
THEOREM NotTwice == Spec => NeverTwice
<1>1. Inv /\ [Next]_vars =>
        [\A r \in Slots :
            req'[r].peer \notin {NoPeer, req[r].peer} => req'[r].peer \notin req[r].had]_vars
  <2> SUFFICES ASSUME Inv, Next PROVE GivenOnce
    BY DEF GivenOnce
  <2> QED
    BY NextTurns, TurnedLets, TickKeeps
<1> QED
  BY <1>1, InvAlways, PTL DEF Spec, NeverTwice

\* A server that max_fails failures have given up is left alone for
\* fail_timeout, and tried by one request at a time after that.
THEOREM RestsAlone == Spec => LeftAlone
<1>1. Inv /\ [Next]_vars =>
        [/\ OneProbe'
         /\ \A p \in Peer :
            GivenUp(peers, p) /\ peers[p].rest <= FailTimeout =>
                /\ peers'[p].fails >= peers[p].fails
                /\ \A r \in Slots : req'[r].peer = p => req[r].peer = p]_vars
  BY NextTurns, TurnedLets, TickKeeps, NextInv DEF LetRest, Inv
<1> QED
  BY <1>1, InvAlways, PTL DEF Spec, LeftAlone

LEMMA NextOnce ==
    ASSUME ~Repeats
    PROVE  Inv /\ SentOnce /\ [Next]_vars => SentOnce'
BY NextTurns, TurnedOnce, TickKeeps DEF vars, SentOnce, Once

\* Unless proxy_next_upstream says non_idempotent, a POST reaches one server at
\* most; so does what a client of a stream server sends
\* (ngx_http_upstream_next, ngx_stream_proxy_next_upstream).
THEOREM ReachesOnce ==
    ASSUME "non_idempotent" \notin NextUpstream
    PROVE  Spec => []ReachOnce
<1>1. Init => SentOnce
  BY InitInv
<1>2. Inv /\ SentOnce /\ [Next]_vars => SentOnce'
  BY NextOnce DEF Repeats
<1>3. Inv /\ SentOnce => ReachOnce
  <2> SUFFICES ASSUME Inv, SentOnce, NEW r \in Slots,
                      req[r].method = "POST" \/ block.section = "stream"
               PROVE  Cardinality(req[r].reached) <= 1
    BY DEF ReachOnce
  <2>1. req[r].reached = {} \/ req[r].reached = {req[r].peer}
    BY RequestIs DEF SentOnce, Once
  <2>2. Cardinality({}) = 0 /\ Cardinality({req[r].peer}) = 1
    BY FS_EmptySet, FS_Singleton, Zenon
  <2> QED
    BY <2>1, <2>2
<1> QED
  BY <1>1, <1>2, <1>3, InvAlways, PTL DEF Spec
=============================================================================

--------------------------- MODULE RoutingProofs ---------------------------
(***************************************************************************)
(* Lemmas about the routing table and the template: every operation gives  *)
(* a table again, and every table a text.  The loop of deletePortRouting   *)
(* is a recursive function; that it is defined, and what it preserves, is  *)
(* proved by looking at the first index where it would fail.               *)
(***************************************************************************)
EXTENDS Template, TLAPS, SequenceTheorems, WellFoundedInduction, NaturalsInduction

\* A non-empty set of naturals has a least element.
LEMMA LeastNatural ==
    ASSUME NEW S \in SUBSET Nat, S # {}
    PROVE  \E n \in S : \A k \in S : n <= k
<1>1. IsWellFoundedOn(OpToRel(<, Nat), Nat)
  BY NatLessThanWellFounded, Zenon
<1>2. PICK n \in S : \A k \in S : ~(<<k, n>> \in OpToRel(<, Nat))
  BY <1>1, WFMin, Zenon
<1>3. \A k \in S : ~(k < n)
  BY <1>2 DEF OpToRel
<1> QED
  BY <1>3

\* One turn of the loop in deletePortRouting keeps a list of instances one.
LEMMA VisitInstanceType ==
    ASSUME NEW s \in Seq(Instance), NEW port, NEW i \in Nat \ {0}
    PROVE  VisitInstance(s, port, i) \in Seq(Instance)
<1>1. CASE i <= Len(s) /\ s[i].port = port
  <2>1. SubSeq(s, 1, i - 1) \in Seq(Instance) /\ SubSeq(s, i + 1, Len(s)) \in Seq(Instance)
    BY <1>1, SubSeqProperties
  <2> QED
    BY <1>1, <2>1, ConcatProperties DEF VisitInstance, SpliceAt
<1>2. CASE ~(i <= Len(s) /\ s[i].port = port)
  BY <1>2 DEF VisitInstance
<1> QED
  BY <1>1, <1>2

\* f holds what a loop that starts from x has made after each of n turns.
LoopRun(f, X, x, step, n) ==
    /\ f \in [0..n -> X]
    /\ \A i \in 0..n : f[i] = IF i = 0 THEN x ELSE step[<<f[i - 1], i>>]

\* A loop over values of X runs for any number of turns: each turn extends
\* the run before it.
LEMMA LoopRuns ==
    ASSUME NEW X, NEW x \in X, NEW step \in [X \X Nat -> X]
    PROVE  \A n \in Nat : \E f : LoopRun(f, X, x, step, n)
<1> DEFINE Run(f, n) == LoopRun(f, X, x, step, n)
           Bad == {n \in Nat : ~\E f : Run(f, n)}
<1>1. SUFFICES ASSUME Bad # {} PROVE FALSE
  OBVIOUS
<1>2. PICK n \in Bad : \A k \in Bad : n <= k
  <2>1. Bad \in SUBSET Nat
    OBVIOUS
  <2> HIDE DEF Bad
  <2> QED
    BY <1>1, <2>1, LeastNatural
<1>3. CASE n = 0
  <2>1. Run([i \in 0..0 |-> x], 0)
    BY DEF LoopRun
  <2> QED
    BY <1>2, <1>3, <2>1
<1>4. CASE n # 0
  <2>0. n \in Nat
    OBVIOUS
  <2>1. n - 1 \in Nat /\ n - 1 \notin Bad
    <3> HIDE DEF Bad
    <3> QED
      BY <1>2, <1>4, <2>0
  <2>2. PICK f : Run(f, n - 1)
    BY <2>1
  <2> DEFINE g == [i \in 0..n |-> IF i = n THEN step[<<f[n - 1], n>>] ELSE f[i]]
  <2>3. f[n - 1] \in X
    BY <2>1, <2>2 DEF LoopRun
  <2>4. step[<<f[n - 1], n>>] \in X
    BY <1>2, <2>3
  <2>5. g \in [0..n -> X]
    BY <2>0, <2>2, <2>4 DEF LoopRun
  <2>6. ASSUME NEW i \in 0..n
        PROVE  g[i] = IF i = 0 THEN x ELSE step[<<g[i - 1], i>>]
    <3>1. CASE i = n
      <4>1. n - 1 \in 0..n /\ n - 1 # n
        BY <1>4, <2>0
      <4>2. g[n] = step[<<f[n - 1], n>>] /\ g[n - 1] = f[n - 1]
        BY <2>0, <4>1
      <4> HIDE DEF g
      <4> QED
        BY <1>4, <3>1, <4>2
    <3>2. CASE i # n
      <4>1. i \in 0..(n - 1) /\ (i # 0 => i - 1 \in 0..n /\ i - 1 # n)
        BY <1>2, <3>2
      <4>2. g[i] = f[i] /\ (i # 0 => g[i - 1] = f[i - 1])
        BY <3>2, <4>1
      <4> QED
        BY <2>2, <4>1, <4>2 DEF LoopRun
    <3> QED
      BY <3>1, <3>2
  <2>7. Run(g, n)
    BY <2>5, <2>6 DEF LoopRun
  <2> QED
    BY <1>2, <2>7
<1> QED
  BY <1>3, <1>4

\* The loop of deletePortRouting is defined and makes lists of instances.
LEMMA SpliceLoopRuns ==
    ASSUME NEW s \in Seq(Instance), NEW port
    PROVE  /\ SpliceLoop(s, port) \in [0..Len(s) -> Seq(Instance)]
           /\ SpliceLoop(s, port)[0] = s
           /\ \A i \in 1..Len(s) :
                SpliceLoop(s, port)[i] = VisitInstance(SpliceLoop(s, port)[i - 1], port, i)
<1> DEFINE X == Seq(Instance)
           next(l, i) == VisitInstance(l, port, i)
           step == [p \in X \X Nat |-> IF p[2] \in 1..Len(s) THEN next(p[1], p[2]) ELSE p[1]]
           Step(f) == [i \in 0..Len(s) |-> IF i = 0 THEN s ELSE VisitInstance(f[i - 1], port, i)]
           loop == CHOOSE f : f = Step(f)
<1>1. Len(s) \in Nat /\ s \in X
  OBVIOUS
<1>2. \A l \in X, i \in 1..Len(s) : next(l, i) \in X
  BY VisitInstanceType
<1>3. step \in [X \X Nat -> X]
  BY <1>2
<1>4. PICK f : LoopRun(f, X, s, step, Len(s))
  <2> HIDE DEF step, X
  <2> QED
    BY <1>1, <1>3, LoopRuns
<1>5. ASSUME NEW i \in 1..Len(s)
      PROVE  f[i - 1] \in X /\ step[<<f[i - 1], i>>] = next(f[i - 1], i)
  <2>1. i - 1 \in 0..Len(s) /\ i \in Nat
    BY <1>1
  <2>2. f[i - 1] \in X
    <3> HIDE DEF X, step
    <3> QED
      BY <1>4, <2>1 DEF LoopRun
  <2> HIDE DEF X, next
  <2> QED
    BY <2>1, <2>2
<1>6. f = Step(f)
  <2>1. ASSUME NEW i \in 0..Len(s)
        PROVE  f[i] = IF i = 0 THEN s ELSE next(f[i - 1], i)
    <3>1. i # 0 => i \in 1..Len(s)
      BY <1>1
    <3> HIDE DEF step, X, next
    <3> QED
      BY <1>4, <1>5, <3>1 DEF LoopRun
  <2>2. f = [i \in 0..Len(s) |-> f[i]]
    BY <1>4 DEF LoopRun
  <2> QED
    BY <2>1, <2>2
<1>7. loop = Step(loop)
  BY <1>6
<1>8. SpliceLoop(s, port) = loop
  BY DEF SpliceLoop
<1> HIDE DEF loop
<1>9. \A i \in 0..Len(s) : loop[i] = f[i]
  <2> DEFINE Differs == {i \in 0..Len(s) : loop[i] # f[i]}
  <2>1. SUFFICES ASSUME Differs # {} PROVE FALSE
    OBVIOUS
  <2>2. PICK k \in Differs : \A j \in Differs : k <= j
    <3>1. Differs \in SUBSET Nat
      BY <1>1
    <3> HIDE DEF Differs
    <3> QED
      BY <2>1, <3>1, LeastNatural
  <2>3. k # 0 => k - 1 \in 0..Len(s) /\ loop[k - 1] = f[k - 1]
    BY <1>1, <2>2
  <2>4. loop[k] = Step(loop)[k] /\ f[k] = Step(f)[k]
    BY <1>6, <1>7
  <2> QED
    BY <2>2, <2>3, <2>4
<1>10. loop \in [0..Len(s) -> X]
  <2>1. \A i \in 0..Len(s) : loop[i] \in X
    BY <1>4, <1>9 DEF LoopRun
  <2> QED
    BY <1>7, <2>1
<1>11. \A i \in 0..Len(s) : loop[i] = Step(loop)[i]
  BY <1>7
<1>12. loop[0] = s
  <2>1. 0 \in 0..Len(s)
    BY <1>1
  <2>2. Step(loop)[0] = s
    BY <2>1
  <2> QED
    BY <1>11, <2>1, <2>2
<1>13. \A i \in 1..Len(s) : i \in 0..Len(s) /\ i # 0
  BY <1>1
<1> QED
  BY <1>8, <1>10, <1>11, <1>12, <1>13

\* The loop of addOrUpdateAppRouting is defined and makes lists of instances.
LEMMA PushBackupsRuns ==
    ASSUME NEW news \in Seq(Instance), NEW old \in Seq(Instance)
    PROVE  /\ PushBackups(news, old) \in [0..Len(old) -> Seq(Instance)]
           /\ PushBackups(news, old)[0] = news
           /\ \A i \in 1..Len(old) :
                PushBackups(news, old)[i] = IF old[i].backup THEN PushBackups(news, old)[i - 1]
                    ELSE Append(PushBackups(news, old)[i - 1], [port |-> old[i].port, backup |-> TRUE])
<1> DEFINE X == Seq(Instance)
           next(l, i) == IF old[i].backup THEN l
                         ELSE Append(l, [port |-> old[i].port, backup |-> TRUE])
           step == [p \in X \X Nat |-> IF p[2] \in 1..Len(old) THEN next(p[1], p[2]) ELSE p[1]]
           Step(f) == [i \in 0..Len(old) |-> IF i = 0 THEN news ELSE IF old[i].backup THEN f[i - 1]
                    ELSE Append(f[i - 1], [port |-> old[i].port, backup |-> TRUE])]
           loop == CHOOSE f : f = Step(f)
<1>1. Len(old) \in Nat /\ news \in X
  OBVIOUS
<1>2. ASSUME NEW l \in X, NEW i \in 1..Len(old)
      PROVE  next(l, i) \in X
  <2>1. [port |-> old[i].port, backup |-> TRUE] \in Instance
    <3>1. old[i] \in Instance
      BY ElementOfSeq
    <3> QED
      BY <3>1 DEF Instance
  <2> QED
    BY <2>1, AppendProperties
<1>3. step \in [X \X Nat -> X]
  BY <1>2
<1>4. PICK f : LoopRun(f, X, news, step, Len(old))
  <2> HIDE DEF step, X
  <2> QED
    BY <1>1, <1>3, LoopRuns
<1>5. ASSUME NEW i \in 1..Len(old)
      PROVE  f[i - 1] \in X /\ step[<<f[i - 1], i>>] = next(f[i - 1], i)
  <2>1. i - 1 \in 0..Len(old) /\ i \in Nat
    BY <1>1
  <2>2. f[i - 1] \in X
    <3> HIDE DEF X, step
    <3> QED
      BY <1>4, <2>1 DEF LoopRun
  <2> HIDE DEF X, next
  <2> QED
    BY <2>1, <2>2
<1>6. f = Step(f)
  <2>1. ASSUME NEW i \in 0..Len(old)
        PROVE  f[i] = IF i = 0 THEN news ELSE next(f[i - 1], i)
    <3>1. i # 0 => i \in 1..Len(old)
      BY <1>1
    <3> HIDE DEF step, X, next
    <3> QED
      BY <1>4, <1>5, <3>1 DEF LoopRun
  <2>2. f = [i \in 0..Len(old) |-> f[i]]
    BY <1>4 DEF LoopRun
  <2> QED
    BY <2>1, <2>2
<1>7. loop = Step(loop)
  BY <1>6
<1>8. PushBackups(news, old) = loop
  BY DEF PushBackups
<1> HIDE DEF loop
<1>9. \A i \in 0..Len(old) : loop[i] = f[i]
  <2> DEFINE Differs == {i \in 0..Len(old) : loop[i] # f[i]}
  <2>1. SUFFICES ASSUME Differs # {} PROVE FALSE
    OBVIOUS
  <2>2. PICK k \in Differs : \A j \in Differs : k <= j
    <3>1. Differs \in SUBSET Nat
      BY <1>1
    <3> HIDE DEF Differs
    <3> QED
      BY <2>1, <3>1, LeastNatural
  <2>3. k # 0 => k - 1 \in 0..Len(old) /\ loop[k - 1] = f[k - 1]
    BY <1>1, <2>2
  <2>4. loop[k] = Step(loop)[k] /\ f[k] = Step(f)[k]
    BY <1>6, <1>7
  <2> QED
    BY <2>2, <2>3, <2>4
<1>10. loop \in [0..Len(old) -> X]
  <2>1. \A i \in 0..Len(old) : loop[i] \in X
    BY <1>4, <1>9 DEF LoopRun
  <2> QED
    BY <1>7, <2>1
<1>11. \A i \in 0..Len(old) : loop[i] = Step(loop)[i]
  BY <1>7
<1>12. loop[0] = news
  <2>1. 0 \in 0..Len(old)
    BY <1>1
  <2>2. Step(loop)[0] = news
    BY <2>1
  <2> QED
    BY <1>11, <2>1, <2>2
<1>13. \A i \in 1..Len(old) : i \in 0..Len(old) /\ i # 0
  BY <1>1
<1> QED
  BY <1>8, <1>10, <1>11, <1>12, <1>13

\* What deletePortRouting leaves of a list of instances is one.
LEMMA SpliceMatchingType ==
    ASSUME NEW s \in Seq(Instance), NEW port
    PROVE  SpliceMatching(s, port) \in Seq(Instance)
<1>1. Len(s) \in 0..Len(s)
  OBVIOUS
<1> QED
  BY <1>1, SpliceLoopRuns DEF SpliceMatching

-----------------------------------------------------------------------------
(* What the loops compute.                                                 *)

\* Induction over the turns of a loop: a set that has 0, and with every number
\* up to n the next, has all of 0..n.
LEMMA TurnInduction ==
    ASSUME NEW n \in Nat, NEW S, 0 \in S, \A i \in 1..n : i - 1 \in S => i \in S
    PROVE  \A i \in 0..n : i \in S
<1> DEFINE Bad == (0..n) \ S
<1>1. SUFFICES ASSUME Bad # {} PROVE FALSE
  OBVIOUS
<1>2. PICK k \in Bad : \A j \in Bad : k <= j
  <2>1. Bad \in SUBSET Nat
    OBVIOUS
  <2> HIDE DEF Bad
  <2> QED
    BY <1>1, <2>1, LeastNatural
<1>3. k \in 1..n /\ k - 1 \in 0..n /\ k - 1 \notin Bad
  BY <1>2
<1> QED
  BY <1>2, <1>3

\* What is left of a list of instances without the k-th.
LEMMA SpliceAtProperties ==
    ASSUME NEW s \in Seq(Instance), NEW k \in 1..Len(s)
    PROVE  /\ SpliceAt(s, k) \in Seq(Instance)
           /\ Len(SpliceAt(s, k)) = Len(s) - 1
           /\ \A i \in 1..(Len(s) - 1) :
                SpliceAt(s, k)[i] = IF i < k THEN s[i] ELSE s[i + 1]
<1> DEFINE u == SubSeq(s, 1, k - 1)
           v == SubSeq(s, k + 1, Len(s))
<1>0. Len(s) \in Nat /\ k \in Nat /\ k >= 1 /\ k <= Len(s)
  OBVIOUS
<1>1. u \in Seq(Instance) /\ Len(u) = k - 1 /\ \A i \in 1..(k - 1) : u[i] = s[i]
  <2>1. \A i \in 1..(k - 1) : s[i] \in Instance
    BY <1>0, ElementOfSeq
  <2>2. /\ u \in Seq(Instance) /\ Len(u) = IF 1 <= k - 1 THEN (k - 1) - 1 + 1 ELSE 0
        /\ \A i \in 1..((k - 1) - 1 + 1) : u[i] = s[1 + i - 1]
    BY <1>0, <2>1, SubSeqProperties
  <2> HIDE DEF u
  <2> QED
    BY <1>0, <2>2
<1>2. v \in Seq(Instance) /\ Len(v) = Len(s) - k /\ \A i \in 1..(Len(s) - k) : v[i] = s[k + i]
  <2>1. \A i \in (k + 1)..Len(s) : s[i] \in Instance
    BY <1>0, ElementOfSeq
  <2>2. /\ v \in Seq(Instance)
        /\ Len(v) = IF k + 1 <= Len(s) THEN Len(s) - (k + 1) + 1 ELSE 0
        /\ \A i \in 1..(Len(s) - (k + 1) + 1) : v[i] = s[(k + 1) + i - 1]
    BY <1>0, <2>1, SubSeqProperties
  <2> HIDE DEF v
  <2> QED
    BY <1>0, <2>2
<1>3. SpliceAt(s, k) = u \o v
  BY DEF SpliceAt
<1> HIDE DEF u, v
<1>4. /\ u \o v \in Seq(Instance) /\ Len(u \o v) = Len(u) + Len(v)
      /\ \A i \in 1..(Len(u) + Len(v)) :
            (u \o v)[i] = IF i <= Len(u) THEN u[i] ELSE v[i - Len(u)]
  BY <1>1, <1>2, ConcatProperties
<1>5. ASSUME NEW i \in 1..(Len(s) - 1)
      PROVE  (u \o v)[i] = IF i < k THEN s[i] ELSE s[i + 1]
  BY <1>0, <1>1, <1>2, <1>4
<1> QED
  BY <1>0, <1>1, <1>2, <1>3, <1>4, <1>5

\* DistinctPorts and the sets of ports, with the indices spelled out.
LEMMA DistinctMeans ==
    ASSUME NEW s \in Seq(Instance)
    PROVE  DistinctPorts(s) <=>
              \A i, j \in 1..Len(s) : s[i].port = s[j].port => i = j
BY DEF DistinctPorts, IsInjective

LEMMA PortsMean ==
    ASSUME NEW s \in Seq(Instance), NEW port
    PROVE  /\ port \in PortsOf(s) <=> \E i \in 1..Len(s) : s[i].port = port
           /\ port \in ActivePorts(s) <=> \E i \in 1..Len(s) : s[i].port = port /\ ~s[i].backup
           /\ port \in BackupPorts(s) <=> \E i \in 1..Len(s) : s[i].port = port /\ s[i].backup
BY DEF PortsOf, ActivePorts, BackupPorts

\* The loop of deletePortRouting on a list without a port twice: it takes out
\* the one instance with the port, if there is one, and nothing else.
LEMMA SpliceDistinct ==
    ASSUME NEW s \in Seq(Instance), NEW port, DistinctPorts(s)
    PROVE  \/ port \notin PortsOf(s) /\ SpliceMatching(s, port) = s
           \/ \E k \in 1..Len(s) : s[k].port = port /\ SpliceMatching(s, port) = SpliceAt(s, k)
<1> DEFINE loop == SpliceLoop(s, port)
           n == Len(s)
<1>1. /\ n \in Nat /\ loop[0] = s /\ SpliceMatching(s, port) = loop[n]
      /\ \A i \in 1..n : loop[i] = VisitInstance(loop[i - 1], port, i)
  BY SpliceLoopRuns DEF SpliceMatching
<1> HIDE DEF loop
<1>2. CASE \A i \in 1..n : s[i].port # port
  <2> DEFINE S == {i \in 0..n : loop[i] = s}
  <2>1. 0 \in S
    BY <1>1
  <2>2. ASSUME NEW i \in 1..n, i - 1 \in S PROVE i \in S
    BY <1>1, <1>2, <2>2 DEF VisitInstance
  <2>3. \A i \in 0..n : i \in S
    <3> HIDE DEF S
    <3> QED
      BY <1>1, <2>1, <2>2, TurnInduction
  <2>4. loop[n] = s
    BY <1>1, <2>3
  <2>5. port \notin PortsOf(s)
    BY <1>2, PortsMean
  <2> QED
    BY <1>1, <2>4, <2>5
<1>3. ASSUME NEW k \in 1..n, s[k].port = port
      PROVE  SpliceMatching(s, port) = SpliceAt(s, k)
  <2> DEFINE t == SpliceAt(s, k)
             S == {i \in 0..n : loop[i] = IF i < k THEN s ELSE t}
  <2>0. \A i \in 1..n : s[i].port = port => i = k
    BY <1>3, DistinctMeans
  <2>1. /\ t \in Seq(Instance) /\ Len(t) = n - 1
        /\ \A i \in 1..(n - 1) : t[i] = IF i < k THEN s[i] ELSE s[i + 1]
    BY SpliceAtProperties
  <2> HIDE DEF t
  <2>2. \A i \in 1..(n - 1) : t[i].port # port
    BY <1>1, <2>0, <2>1
  <2>3. 0 \in S
    BY <1>1
  <2>4. ASSUME NEW i \in 1..n, i - 1 \in S PROVE i \in S
    <3>1. CASE i < k
      BY <1>1, <2>0, <2>4, <3>1 DEF VisitInstance
    <3>2. CASE i = k
      BY <1>1, <1>3, <2>4, <3>2 DEF VisitInstance, t
    <3>3. CASE i > k
      <4>1. loop[i - 1] = t
        BY <1>1, <2>4, <3>3
      <4>2. ~(i <= Len(t) /\ t[i].port = port)
        BY <1>1, <2>1, <2>2
      <4> QED
        BY <1>1, <3>3, <4>1, <4>2 DEF VisitInstance
    <3> QED
      BY <3>1, <3>2, <3>3
  <2>5. \A i \in 0..n : i \in S
    <3> HIDE DEF S
    <3> QED
      BY <1>1, <2>3, <2>4, TurnInduction
  <2>6. loop[n] = t
    BY <1>1, <2>5
  <2> QED
    BY <1>1, <2>6 DEF t
<1> QED
  BY <1>2, <1>3

\* After deletePortRouting the port is gone and every other one is there, once.
LEMMA SplicePorts ==
    ASSUME NEW s \in Seq(Instance), NEW port, DistinctPorts(s)
    PROVE  /\ DistinctPorts(SpliceMatching(s, port))
           /\ PortsOf(SpliceMatching(s, port)) = PortsOf(s) \ {port}
<1>1. CASE port \notin PortsOf(s) /\ SpliceMatching(s, port) = s
  BY <1>1
<1>2. ASSUME NEW k \in 1..Len(s), s[k].port = port,
             SpliceMatching(s, port) = SpliceAt(s, k)
      PROVE  /\ DistinctPorts(SpliceMatching(s, port))
             /\ PortsOf(SpliceMatching(s, port)) = PortsOf(s) \ {port}
  <2> DEFINE t == SpliceAt(s, k)
             n == Len(s)
  <2>1. /\ n \in Nat /\ t \in Seq(Instance) /\ Len(t) = n - 1
        /\ \A i \in 1..(n - 1) : t[i] = IF i < k THEN s[i] ELSE s[i + 1]
    BY SpliceAtProperties
  <2>2. \A i, j \in 1..n : s[i].port = s[j].port => i = j
    BY DistinctMeans
  <2> HIDE DEF t
  <2>3. DistinctPorts(t)
    <3>1. ASSUME NEW i \in 1..(n - 1), NEW j \in 1..(n - 1), t[i].port = t[j].port
          PROVE  i = j
      BY <2>1, <2>2, <3>1
    <3> QED
      BY <2>1, <3>1, DistinctMeans
  <2>4. ASSUME NEW x PROVE x \in PortsOf(t) <=> x \in PortsOf(s) /\ x # port
    <3>1. ASSUME NEW i \in 1..(n - 1), t[i].port = x
          PROVE  x \in PortsOf(s) /\ x # port
      <4>1. PICK j \in 1..n : j # k /\ s[j].port = x
        BY <2>1, <3>1
      <4> QED
        BY <1>2, <2>2, <4>1, PortsMean
    <3>2. ASSUME NEW j \in 1..n, s[j].port = x, x # port
          PROVE  \E i \in 1..(n - 1) : t[i].port = x
      <4>1. j < k \/ j > k
        BY <1>2, <3>2
      <4>2. CASE j < k
        <5>1. j \in 1..(n - 1) /\ t[j] = s[j]
          BY <2>1, <4>2
        <5> QED
          BY <3>2, <5>1
      <4>3. CASE j > k
        <5>1. j - 1 \in 1..(n - 1) /\ t[j - 1] = s[j]
          BY <2>1, <4>3
        <5> QED
          BY <3>2, <5>1
      <4> QED
        BY <4>1, <4>2, <4>3
    <3> QED
      BY <2>1, <3>1, <3>2, PortsMean
  <2> QED
    BY <1>2, <2>3, <2>4 DEF t
<1> QED
  BY <1>1, <1>2, SpliceDistinct

\* One more instance at the end of a list.
LEMMA AppendInstance ==
    ASSUME NEW s \in Seq(Instance), NEW x \in Instance
    PROVE  /\ PortsOf(Append(s, x)) = PortsOf(s) \cup {x.port}
           /\ ActivePorts(Append(s, x)) =
                ActivePorts(s) \cup (IF x.backup THEN {} ELSE {x.port})
           /\ BackupPorts(Append(s, x)) =
                BackupPorts(s) \cup (IF x.backup THEN {x.port} ELSE {})
           /\ DistinctPorts(s) /\ x.port \notin PortsOf(s) => DistinctPorts(Append(s, x))
<1> DEFINE t == Append(s, x)
           n == Len(s)
<1>1. /\ n \in Nat /\ t \in Seq(Instance) /\ Len(t) = n + 1
      /\ \A i \in 1..n : t[i] = s[i]
      /\ t[n + 1] = x
  BY AppendProperties
<1>2. \A i \in 1..(n + 1) : i \in 1..n \/ i = n + 1
  BY <1>1
<1>3. n + 1 \in 1..(n + 1) /\ \A i \in 1..n : i \in 1..(n + 1)
  BY <1>1
<1> HIDE DEF t
<1>4. ASSUME NEW p PROVE p \in PortsOf(t) <=> p \in PortsOf(s) \/ p = x.port
  BY <1>1, <1>2, <1>3, PortsMean
<1>5. ASSUME NEW p
      PROVE  p \in ActivePorts(t) <=> p \in ActivePorts(s) \/ (p = x.port /\ ~x.backup)
  BY <1>1, <1>2, <1>3, PortsMean
<1>6. ASSUME NEW p
      PROVE  p \in BackupPorts(t) <=> p \in BackupPorts(s) \/ (p = x.port /\ x.backup)
  BY <1>1, <1>2, <1>3, PortsMean
<1>7. ASSUME DistinctPorts(s), x.port \notin PortsOf(s) PROVE DistinctPorts(t)
  <2>1. \A i, j \in 1..n : s[i].port = s[j].port => i = j
    BY <1>7, DistinctMeans
  <2>2. \A i \in 1..n : s[i].port # x.port
    BY <1>7, PortsMean
  <2>3. \A i, j \in 1..(n + 1) : t[i].port = t[j].port => i = j
    BY <1>1, <1>2, <2>1, <2>2
  <2> QED
    BY <1>1, <2>3, DistinctMeans
<1> QED
  BY <1>4, <1>5, <1>6, <1>7 DEF t

\* The instances made from the new ports: active ones, no port twice when the
\* call names none twice.
LEMMA AsInstancesProperties ==
    ASSUME NEW ports \in Seq(Ports)
    PROVE  /\ AsInstances(ports) \in Seq(Instance)
           /\ PortsOf(AsInstances(ports)) = Range(ports)
           /\ ActivePorts(AsInstances(ports)) = Range(ports)
           /\ BackupPorts(AsInstances(ports)) = {}
           /\ IsInjective(ports) => DistinctPorts(AsInstances(ports))
<1> DEFINE t == AsInstances(ports)
           n == Len(ports)
<1>1. n \in Nat /\ DOMAIN ports = 1..n /\ ports \in [1..n -> Ports]
  BY LenProperties
<1>2. t = [i \in 1..n |-> [port |-> ports[i], backup |-> FALSE]]
  BY <1>1 DEF AsInstances
<1>3. t \in [1..n -> Instance]
  BY <1>1, <1>2 DEF Instance
<1>4. t \in Seq(Instance) /\ Len(t) = n
  BY <1>1, <1>3, SeqDef
<1>5. \A i \in 1..n : t[i].port = ports[i] /\ ~t[i].backup
  BY <1>2
<1> HIDE DEF t
<1>6. ASSUME NEW p
      PROVE  /\ p \in PortsOf(t) <=> p \in Range(ports)
             /\ p \in ActivePorts(t) <=> p \in Range(ports)
             /\ p \notin BackupPorts(t)
  BY <1>1, <1>4, <1>5, PortsMean DEF Range
<1>7. ASSUME IsInjective(ports) PROVE DistinctPorts(t)
  BY <1>1, <1>4, <1>5, <1>7, DistinctMeans DEF IsInjective
<1> QED
  BY <1>4, <1>6, <1>7 DEF t

\* The loop of addOrUpdateAppRouting: the list it starts from stays in front,
\* and the backups are exactly the former active instances.
LEMMA PushBackupsPorts ==
    ASSUME NEW news \in Seq(Instance), NEW old \in Seq(Instance),
           BackupPorts(news) = {}
    PROVE  /\ ActivePorts(PushBackups(news, old)[Len(old)]) = ActivePorts(news)
           /\ BackupPorts(PushBackups(news, old)[Len(old)]) = ActivePorts(old)
<1> DEFINE loop == PushBackups(news, old)
           n == Len(old)
           upto(i) == {old[j].port : j \in {k \in 1..i : ~old[k].backup}}
           S == {i \in 0..n : ActivePorts(loop[i]) = ActivePorts(news)
                              /\ BackupPorts(loop[i]) = upto(i)}
<1>1. /\ n \in Nat /\ loop \in [0..n -> Seq(Instance)] /\ loop[0] = news
      /\ \A i \in 1..n : loop[i] = IF old[i].backup THEN loop[i - 1]
            ELSE Append(loop[i - 1], [port |-> old[i].port, backup |-> TRUE])
  BY PushBackupsRuns
<1> HIDE DEF loop
<1>2. 0 \in S
  <2>1. upto(0) = {}
    OBVIOUS
  <2> QED
    BY <1>1, <2>1
<1>3. ASSUME NEW i \in 1..n, i - 1 \in S PROVE i \in S
  <2> DEFINE x == [port |-> old[i].port, backup |-> TRUE]
             prev == loop[i - 1]
  <2>0. i \in 0..n /\ i - 1 \in 0..n /\ i \in 1..i /\ n \in Nat
    OBVIOUS
  <2>1. prev \in Seq(Instance)
    BY <1>1, <2>0
  <2>2. x \in Instance /\ x.port = old[i].port /\ x.backup
    <3>1. old[i] \in Instance
      BY ElementOfSeq
    <3> QED
      BY <3>1 DEF Instance
  <2>3. \A j \in 1..i : j \in 1..(i - 1) \/ j = i
    BY <1>1
  <2>4. \A j \in 1..(i - 1) : j \in 1..i
    BY <1>1
  <2>5. CASE old[i].backup
    <3>1. upto(i) = upto(i - 1)
      BY <2>3, <2>4, <2>5
    <3> QED
      BY <1>1, <1>3, <2>0, <2>5, <3>1
  <2>6. CASE ~old[i].backup
    <3>1. upto(i) = upto(i - 1) \cup {old[i].port}
      <4>1. ASSUME NEW p PROVE p \in upto(i) <=> p \in upto(i - 1) \/ p = old[i].port
        BY <2>0, <2>3, <2>4, <2>6
      <4> QED
        BY <4>1
    <3>2. loop[i] = Append(prev, x)
      BY <1>1, <2>6
    <3>3. /\ ActivePorts(prev) = ActivePorts(news) /\ BackupPorts(prev) = upto(i - 1)
      BY <1>3
    <3> HIDE DEF prev, x, upto
    <3>4. /\ ActivePorts(loop[i]) = ActivePorts(prev)
          /\ BackupPorts(loop[i]) = BackupPorts(prev) \cup {old[i].port}
      <4>1. /\ ActivePorts(loop[i]) =
                ActivePorts(prev) \cup (IF x.backup THEN {} ELSE {x.port})
            /\ BackupPorts(loop[i]) =
                BackupPorts(prev) \cup (IF x.backup THEN {x.port} ELSE {})
        BY <2>1, <2>2, <3>2, AppendInstance
      <4> QED
        BY <2>2, <4>1
    <3> QED
      BY <2>0, <3>1, <3>3, <3>4
  <2> QED
    BY <2>5, <2>6
<1>4. \A i \in 0..n : i \in S
  <2> HIDE DEF S
  <2> QED
    BY <1>1, <1>2, <1>3, TurnInduction
<1>5. upto(n) = ActivePorts(old)
  BY <1>1 DEF ActivePorts
<1>6. n \in S
  BY <1>1, <1>4
<1> QED
  BY <1>5, <1>6 DEF loop

\* No port is there twice when the new ones are different, the old ones were,
\* and none of the old is among the new (else the loop throws).
LEMMA PushBackupsDistinct ==
    ASSUME NEW news \in Seq(Instance), NEW old \in Seq(Instance),
           DistinctPorts(news), DistinctPorts(old),
           PortsOf(old) \cap PortsOf(news) = {}
    PROVE  DistinctPorts(PushBackups(news, old)[Len(old)])
<1> DEFINE loop == PushBackups(news, old)
           n == Len(old)
           upto(i) == {old[j].port : j \in 1..i}
           S == {i \in 0..n : DistinctPorts(loop[i])
                              /\ PortsOf(loop[i]) \subseteq PortsOf(news) \cup upto(i)}
<1>1. /\ n \in Nat /\ loop \in [0..n -> Seq(Instance)] /\ loop[0] = news
      /\ \A i \in 1..n : loop[i] = IF old[i].backup THEN loop[i - 1]
            ELSE Append(loop[i - 1], [port |-> old[i].port, backup |-> TRUE])
  BY PushBackupsRuns
<1> HIDE DEF loop
<1>2. 0 \in S
  BY <1>1
<1>3. ASSUME NEW i \in 1..n, i - 1 \in S PROVE i \in S
  <2> DEFINE x == [port |-> old[i].port, backup |-> TRUE]
             prev == loop[i - 1]
  <2>0. i \in 0..n /\ i - 1 \in 0..n /\ i \in 1..i /\ n \in Nat
    OBVIOUS
  <2>1. prev \in Seq(Instance)
    BY <1>1, <2>0
  <2>2. x \in Instance /\ x.port = old[i].port
    <3>1. old[i] \in Instance
      BY ElementOfSeq
    <3> QED
      BY <3>1 DEF Instance
  <2>3. upto(i - 1) \cup {old[i].port} \subseteq upto(i)
    BY <1>1
  <2>4. old[i].port \notin upto(i - 1)
    <3>1. \A j \in 1..n : old[i].port = old[j].port => i = j
      BY <1>1, DistinctMeans
    <3>2. \A j \in 1..(i - 1) : j \in 1..n /\ j # i
      BY <2>0
    <3> QED
      BY <3>1, <3>2
  <2>5. old[i].port \notin PortsOf(news)
    BY <1>1, PortsMean
  <2>6. DistinctPorts(prev) /\ PortsOf(prev) \subseteq PortsOf(news) \cup upto(i - 1)
    BY <1>3
  <2>7. loop[i] = prev \/ loop[i] = Append(prev, x)
    BY <1>1
  <2> HIDE DEF prev, x, upto
  <2>8. CASE loop[i] = prev
    BY <2>0, <2>3, <2>6, <2>8
  <2>9. CASE loop[i] = Append(prev, x)
    <3>1. PortsOf(loop[i]) = PortsOf(prev) \cup {old[i].port} /\ DistinctPorts(loop[i])
      BY <2>1, <2>2, <2>4, <2>5, <2>6, <2>9, AppendInstance
    <3> QED
      BY <2>0, <2>3, <2>6, <3>1
  <2> QED
    BY <2>7, <2>8, <2>9
<1>4. \A i \in 0..n : i \in S
  <2> HIDE DEF S
  <2> QED
    BY <1>1, <1>2, <1>3, TurnInduction
<1>5. n \in S
  BY <1>1, <1>4
<1> QED
  BY <1>5 DEF loop

-----------------------------------------------------------------------------
(* What each operation does to the record it changes.                      *)

\* The table in which that is the record of an application.
SetRecord(conf, m, app, r) == [conf EXCEPT ![m][app] = r]

\* The other records stay as they are.
LEMMA SetRecordAt ==
    ASSUME NEW conf \in Conf, NEW m \in Modes, NEW app \in Apps, NEW r,
           NEW n \in Modes, NEW a \in Apps
    PROVE  SetRecord(conf, m, app, r)[n][a] =
              IF n = m /\ a = app THEN r ELSE conf[n][a]
BY DEF Conf, SetRecord

\* addPortRouting: listening port and balance are those of the first call, an
\* active instance stays one, and the port is there afterwards, once.
LEMMA AddRouteRecord ==
    ASSUME NEW conf \in Conf, NEW app \in Apps, NEW opts \in AddOpts
    PROVE  \E r \in AppConf :
              LET was == RecordToExtend(conf, app, opts)
              IN  /\ AddRoute(conf, app, opts) = SetRecord(conf, AddMode(opts), app, r)
                  /\ AddMode(opts) \in Modes /\ was \in AppConf
                  /\ r.port = was.port /\ r.balance = was.balance
                  /\ PortsOf(r.instances) = PortsOf(was.instances) \cup {opts.out_port}
                  /\ ActivePorts(was.instances) \subseteq ActivePorts(r.instances)
                  /\ PortsOf(was.instances) = {} => opts.out_port \in ActivePorts(r.instances)
                  /\ DistinctPorts(was.instances) => DistinctPorts(r.instances)
<1> DEFINE m == AddMode(opts)
           was == RecordToExtend(conf, app, opts)
           x == [port |-> opts.out_port, backup |-> FALSE]
           r == [was EXCEPT !.instances = Append(@, x)]
<1>1. m \in Modes
  BY DEF AddMode, Or, Modes, AddOpts
<1>2. was \in AppConf
  <2>1. conf[m][app] \in AppConf \cup {Undefined}
    BY <1>1 DEF Conf
  <2>2. [port |-> opts.in_port, instances |-> <<>>,
         balance |-> Or(opts.lb_mode, "null")] \in AppConf
    BY DEF AddOpts, AppConf, Or, Balances
  <2> QED
    BY <2>1, <2>2 DEF RecordToExtend, Or
<1>3. x \in Instance /\ x.port = opts.out_port /\ x.backup = FALSE
  BY DEF AddOpts, Instance
<1>4. AddRoute(conf, app, opts) =
        IF opts.out_port \in PortsOf(was.instances) THEN SetRecord(conf, m, app, was)
        ELSE SetRecord(conf, m, app, r)
  BY DEF AddRoute, SetRecord
<1> HIDE DEF m, was, x
<1>5. was.instances \in Seq(Instance)
  BY <1>2 DEF AppConf
<1>6. Append(was.instances, x) \in Seq(Instance)
  BY <1>3, <1>5, AppendProperties
<1>7. /\ r \in AppConf /\ r.port = was.port /\ r.balance = was.balance
      /\ r.instances = Append(was.instances, x)
  BY <1>2, <1>6 DEF AppConf
<1> HIDE DEF r
<1>8. CASE opts.out_port \in PortsOf(was.instances)
  BY <1>1, <1>2, <1>4, <1>8 DEF m, was
<1>9. CASE opts.out_port \notin PortsOf(was.instances)
  <2>1. /\ PortsOf(r.instances) = PortsOf(was.instances) \cup {opts.out_port}
        /\ ActivePorts(r.instances) = ActivePorts(was.instances) \cup {opts.out_port}
        /\ DistinctPorts(was.instances) => DistinctPorts(r.instances)
    BY <1>3, <1>5, <1>7, <1>9, AppendInstance
  <2> QED
    BY <1>1, <1>2, <1>4, <1>7, <1>9, <2>1 DEF m, was
<1> QED
  BY <1>8, <1>9

\* deletePortRouting: the record is gone when no instance is left, and else has
\* what the loop leaves.
LEMMA DeleteRouteRecord ==
    ASSUME NEW conf \in Conf, NEW app \in Apps, NEW port,
           conf["http"][app] # Undefined
    PROVE  \E r \in AppConf \cup {Undefined} :
              LET was == conf["http"][app]
              IN  /\ DeleteRoute(conf, app, port) = SetRecord(conf, "http", app, r)
                  /\ was \in AppConf
                  /\ r # Undefined =>
                        /\ r \in AppConf /\ r.port = was.port /\ r.balance = was.balance
                        /\ r.instances = SpliceMatching(was.instances, port)
                        /\ r.instances # <<>>
                  /\ r = Undefined => SpliceMatching(was.instances, port) = <<>>
<1> DEFINE was == conf["http"][app]
           left == SpliceMatching(was.instances, port)
           r == IF left = <<>> THEN Undefined ELSE [was EXCEPT !.instances = left]
<1>1. "http" \in Modes /\ was \in AppConf
  BY DEF Conf, Modes
<1>2. left \in Seq(Instance)
  BY <1>1, SpliceMatchingType DEF AppConf
<1>3. DeleteRoute(conf, app, port) = SetRecord(conf, "http", app, r)
  BY <1>1 DEF DeleteRoute, Conf, SetRecord
<1> HIDE DEF was, left
<1>4. left # <<>> => /\ r \in AppConf /\ r.port = was.port /\ r.balance = was.balance
                     /\ r.instances = left
  BY <1>1, <1>2 DEF AppConf
<1>5. r = Undefined => left = <<>>
  BY <1>4, UndefinedAssumption
<1>6. r # Undefined => left # <<>>
  OBVIOUS
<1>7. r \in AppConf \cup {Undefined}
  BY <1>4
<1> HIDE DEF r
<1> QED
  BY <1>1, <1>3, <1>4, <1>5, <1>6, <1>7 DEF was, left

\* addOrUpdateAppRouting: the new ports are active, the former active ones are
\* the backups, and no port is there twice unless it was or is named twice.
LEMMA ReplaceRoutesRecord ==
    ASSUME NEW conf \in Conf, NEW app \in Apps, NEW routing \in RoutingOpts
    PROVE  \E r \in AppConf :
              LET old == PreviousInstances(conf, app, routing)
              IN  /\ ReplaceRoutes(conf, app, routing) =
                        SetRecord(conf, UpdateMode(routing), app, r)
                  /\ UpdateMode(routing) \in Modes /\ old \in Seq(Instance)
                  /\ r.port = routing.in_port
                  /\ r.balance = Or(routing.lb_mode, "round_robin")
                  /\ ActivePorts(r.instances) = Range(routing.out_ports)
                  /\ BackupPorts(r.instances) = ActivePorts(old)
                  /\ /\ DistinctPorts(old) /\ IsInjective(routing.out_ports)
                     /\ ~BindsSamePort(conf, app, routing)
                     => DistinctPorts(r.instances)
<1> DEFINE m == UpdateMode(routing)
           old == PreviousInstances(conf, app, routing)
           ports == routing.out_ports
           news == AsInstances(ports)
           list == PushBackups(news, old)[Len(old)]
           r == [port |-> routing.in_port, instances |-> list,
                 balance |-> Or(routing.lb_mode, "round_robin")]
<1>1. m \in Modes
  BY DEF UpdateMode, Or, Modes, RoutingOpts
<1>2. old \in Seq(Instance)
  BY <1>1 DEF PreviousInstances, Conf, AppConf
<1>3. ports \in Seq(Ports)
  BY DEF RoutingOpts
<1>4. /\ news \in Seq(Instance)
      /\ PortsOf(news) = Range(ports) /\ ActivePorts(news) = Range(ports)
      /\ BackupPorts(news) = {}
      /\ IsInjective(ports) => DistinctPorts(news)
  BY <1>3, AsInstancesProperties
<1>5. ReplaceRoutes(conf, app, routing) = SetRecord(conf, m, app, r)
  BY DEF ReplaceRoutes, SetRecord
<1>6. ~BindsSamePort(conf, app, routing) => PortsOf(old) \cap Range(ports) = {}
  BY DEF BindsSamePort, PortsOf
<1> HIDE DEF m, old, ports, news
<1>7. list \in Seq(Instance)
  <2>1. Len(old) \in 0..Len(old)
    BY <1>2
  <2>2. PushBackups(news, old) \in [0..Len(old) -> Seq(Instance)]
    BY <1>2, <1>4, PushBackupsRuns
  <2> QED
    BY <2>1, <2>2
<1>8. ActivePorts(list) = Range(ports) /\ BackupPorts(list) = ActivePorts(old)
  BY <1>2, <1>4, PushBackupsPorts
<1>9. /\ DistinctPorts(old) /\ IsInjective(ports) /\ ~BindsSamePort(conf, app, routing)
      => DistinctPorts(list)
  BY <1>2, <1>4, <1>6, PushBackupsDistinct
<1> HIDE DEF list
<1>10. r \in AppConf
  BY <1>7 DEF AppConf, RoutingOpts, Or, Balances
<1>11. /\ r.port = routing.in_port /\ r.instances = list
       /\ r.balance = Or(routing.lb_mode, "round_robin")
  OBVIOUS
<1> HIDE DEF r
<1> QED
  BY <1>1, <1>2, <1>5, <1>8, <1>9, <1>10, <1>11 DEF m, old, ports

-----------------------------------------------------------------------------
(* The table operations give tables, and every table a text.               *)

\* Changing the record of one application of a table gives a table.
LEMMA SetRecordType ==
    ASSUME NEW conf \in Conf, NEW m \in Modes, NEW app \in Apps,
           NEW r \in AppConf \cup {Undefined}
    PROVE  SetRecord(conf, m, app, r) \in Conf
BY DEF Conf, SetRecord

\* addPortRouting: a table stays one.
LEMMA AddRouteType ==
    ASSUME NEW conf \in Conf, NEW app \in Apps, NEW opts \in AddOpts
    PROVE  AddRoute(conf, app, opts) \in Conf
<1>1. PICK r \in AppConf :
         /\ AddRoute(conf, app, opts) = SetRecord(conf, AddMode(opts), app, r)
         /\ AddMode(opts) \in Modes
  BY AddRouteRecord
<1> QED
  BY <1>1, SetRecordType

\* deletePortRouting: a table stays one.
LEMMA DeleteRouteType ==
    ASSUME NEW conf \in Conf, NEW app \in Apps, NEW port,
           conf["http"][app] # Undefined
    PROVE  DeleteRoute(conf, app, port) \in Conf
<1>1. PICK r \in AppConf \cup {Undefined} :
         DeleteRoute(conf, app, port) = SetRecord(conf, "http", app, r)
  BY DeleteRouteRecord
<1>2. "http" \in Modes
  BY DEF Modes
<1> QED
  BY <1>1, <1>2, SetRecordType

\* addOrUpdateAppRouting: a table stays one.
LEMMA ReplaceRoutesType ==
    ASSUME NEW conf \in Conf, NEW app \in Apps, NEW routing \in RoutingOpts
    PROVE  ReplaceRoutes(conf, app, routing) \in Conf
<1>1. PICK r \in AppConf :
         /\ ReplaceRoutes(conf, app, routing) = SetRecord(conf, UpdateMode(routing), app, r)
         /\ UpdateMode(routing) \in Modes
  BY ReplaceRoutesRecord
<1> QED
  BY <1>1, SetRecordType

\* The template renders a text from every table.
LEMMA RenderType ==
    ASSUME NEW conf \in Conf
    PROVE  Render(conf) \in Texts
<1>1. ASSUME NEW m \in Modes, NEW r \in AppConf
      PROVE  Block(m, r) \in TextBlock
  <2>1. Method(m, r.balance) \in Balances \cup {""}
    BY DEF Method, AppConf
  <2>2. [i \in DOMAIN r.instances |-> Server(m, r.instances[i])] \in Seq(Servers)
    <3> DEFINE q == r.instances
    <3>1. q \in Seq(Instance) /\ DOMAIN q = 1..Len(q) /\ Len(q) \in Nat
      BY LenProperties DEF AppConf
    <3>2. ASSUME NEW i \in 1..Len(q)
          PROVE  Server(m, q[i]) \in Servers
      <4>1. q[i] \in Instance
        BY <3>1, ElementOfSeq
      <4>2. q[i].port \in Ports
        BY <4>1 DEF Instance
      <4>3. (m = "stream" /\ q[i].backup) \in BOOLEAN
        OBVIOUS
      <4> HIDE DEF q
      <4> QED
        BY <4>2, <4>3 DEF Server, Servers
    <3>3. [i \in 1..Len(q) |-> Server(m, q[i])] \in [1..Len(q) -> Servers]
      BY <3>2
    <3> QED
      BY <3>1, <3>3, SeqDef
  <2> QED
    BY <2>1, <2>2 DEF Block, TextBlock, AppConf
<1>2. ASSUME NEW m \in Modes, NEW a \in Apps
      PROVE  (IF conf[m][a] = Undefined THEN Undefined ELSE Block(m, conf[m][a]))
                \in TextBlock \cup {Undefined}
  BY <1>1 DEF Conf
<1> QED
  BY <1>2 DEF Render, Texts

-----------------------------------------------------------------------------
(* Properties that the operations keep.                                    *)

\* No application has a port twice.
DistinctTable(conf) ==
    \A m \in Modes : \A a \in Apps :
        conf[m][a] # Undefined => DistinctPorts(conf[m][a].instances)

\* listen says on which port an application is served: on different ones in the
\* stream section, and never on one that the other section uses.
ListenApart(listen) ==
    /\ \A a, b \in Apps : listen["stream"][a] = listen["stream"][b] => a = b
    /\ \A a, b \in Apps : listen["http"][a] # listen["stream"][b]

\* A call that does not ask for something nginx cannot be told: the port is the
\* application's, the balance is one of the section, and there is a backend.
SoundAdd(listen, app, opts) ==
    /\ opts.in_port = listen[AddMode(opts)][app]
    /\ Method(AddMode(opts), Or(opts.lb_mode, "null")) \in KnownMethods[AddMode(opts)]
SoundUpdate(listen, app, routing) ==
    /\ routing.in_port = listen[UpdateMode(routing)][app]
    /\ Method(UpdateMode(routing), Or(routing.lb_mode, "round_robin"))
         \in KnownMethods[UpdateMode(routing)]
    /\ routing.out_ports # <<>>

\* What makes the rendering of a record acceptable.  An http server is never
\* written as a backup, so any will do there.
SoundRecord(listen, m, a, r) ==
    /\ r.port = listen[m][a]
    /\ Method(m, r.balance) \in KnownMethods[m]
    /\ PortsOf(r.instances) # {}
    /\ m = "stream" => ActivePorts(r.instances) # {}

SoundTable(listen, conf) ==
    \A m \in Modes : \A a \in Apps :
        conf[m][a] # Undefined => SoundRecord(listen, m, a, conf[m][a])

\* No list of instances has a port of another kind.
LEMMA PortsSplit ==
    ASSUME NEW s \in Seq(Instance)
    PROVE  PortsOf(s) = ActivePorts(s) \cup BackupPorts(s)
BY DEF PortsOf, ActivePorts, BackupPorts

LEMMA EmptyPorts ==
    ASSUME NEW s \in Seq(Instance)
    PROVE  PortsOf(s) = {} <=> s = <<>>
<1>1. s = <<>> => PortsOf(s) = {}
  BY DEF PortsOf
<1>2. ASSUME s # <<>> PROVE PortsOf(s) # {}
  <2>1. 1 \in 1..Len(s)
    BY <1>2, EmptySeq
  <2> QED
    BY <2>1, PortsMean
<1> QED
  BY <1>1, <1>2

LEMMA RecordInstances ==
    ASSUME NEW conf \in Conf, NEW m \in Modes, NEW a \in Apps, conf[m][a] # Undefined
    PROVE  conf[m][a] \in AppConf /\ conf[m][a].instances \in Seq(Instance)
BY DEF Conf, AppConf

LEMMA AddRouteKeeps ==
    ASSUME NEW conf \in Conf, NEW app \in Apps, NEW opts \in AddOpts
    PROVE  /\ DistinctTable(conf) => DistinctTable(AddRoute(conf, app, opts))
           /\ \A listen : SoundTable(listen, conf) /\ SoundAdd(listen, app, opts)
                            => SoundTable(listen, AddRoute(conf, app, opts))
<1> DEFINE m == AddMode(opts)
           was == RecordToExtend(conf, app, opts)
<1>1. PICK r \in AppConf :
         /\ AddRoute(conf, app, opts) = SetRecord(conf, m, app, r)
         /\ m \in Modes /\ was \in AppConf
         /\ r.port = was.port /\ r.balance = was.balance
         /\ PortsOf(r.instances) = PortsOf(was.instances) \cup {opts.out_port}
         /\ ActivePorts(was.instances) \subseteq ActivePorts(r.instances)
         /\ PortsOf(was.instances) = {} => opts.out_port \in ActivePorts(r.instances)
         /\ DistinctPorts(was.instances) => DistinctPorts(r.instances)
  BY AddRouteRecord
<1>2. conf[m][app] # Undefined => was = conf[m][app]
  BY DEF RecordToExtend, Or
<1>3. conf[m][app] = Undefined =>
        was = [port |-> opts.in_port, instances |-> <<>>, balance |-> Or(opts.lb_mode, "null")]
  BY DEF RecordToExtend, Or
<1> HIDE DEF was
<1>4. ASSUME conf[m][app] = Undefined
      PROVE  /\ was.port = opts.in_port /\ was.balance = Or(opts.lb_mode, "null")
             /\ was.instances = <<>>
  BY <1>3, <1>4
<1>5. ASSUME NEW n \in Modes, NEW a \in Apps
      PROVE  AddRoute(conf, app, opts)[n][a] = IF n = m /\ a = app THEN r ELSE conf[n][a]
  BY <1>1, SetRecordAt
<1>6. ASSUME DistinctTable(conf) PROVE DistinctPorts(was.instances)
  <2>1. CASE conf[m][app] = Undefined
    BY <1>4, <2>1 DEF DistinctPorts, IsInjective
  <2>2. CASE conf[m][app] # Undefined
    BY <1>1, <1>2, <1>6, <2>2 DEF DistinctTable
  <2> QED
    BY <2>1, <2>2
<1>7. ASSUME NEW listen, SoundTable(listen, conf), SoundAdd(listen, app, opts)
      PROVE  SoundRecord(listen, m, app, r)
  <2>1. CASE conf[m][app] = Undefined
    <3>1. was.instances \in Seq(Instance) /\ PortsOf(was.instances) = {}
      BY <1>1, <1>4, <2>1, EmptyPorts DEF AppConf
    <3> QED
      BY <1>1, <1>4, <1>7, <2>1, <3>1 DEF SoundRecord, SoundAdd
  <2>2. CASE conf[m][app] # Undefined
    <3>1. SoundRecord(listen, m, app, was)
      BY <1>1, <1>2, <1>7, <2>2 DEF SoundTable
    <3> QED
      BY <1>1, <3>1 DEF SoundRecord
  <2> QED
    BY <2>1, <2>2
<1> QED
  BY <1>1, <1>5, <1>6, <1>7 DEF DistinctTable, SoundTable

LEMMA DeleteRouteKeeps ==
    ASSUME NEW conf \in Conf, NEW app \in Apps, NEW port,
           conf["http"][app] # Undefined
    PROVE  /\ DistinctTable(conf) => DistinctTable(DeleteRoute(conf, app, port))
           /\ \A listen : SoundTable(listen, conf)
                            => SoundTable(listen, DeleteRoute(conf, app, port))
<1> DEFINE was == conf["http"][app]
<1>1. PICK r \in AppConf \cup {Undefined} :
         /\ DeleteRoute(conf, app, port) = SetRecord(conf, "http", app, r)
         /\ was \in AppConf
         /\ r # Undefined =>
              /\ r \in AppConf /\ r.port = was.port /\ r.balance = was.balance
              /\ r.instances = SpliceMatching(was.instances, port)
              /\ r.instances # <<>>
  BY DeleteRouteRecord
<1>2. "http" \in Modes /\ "http" # "stream"
  BY DEF Modes
<1> HIDE DEF was
<1>3. was.instances \in Seq(Instance) /\ (r # Undefined => r.instances \in Seq(Instance))
  BY <1>1 DEF AppConf
<1>4. ASSUME NEW n \in Modes, NEW a \in Apps
      PROVE  DeleteRoute(conf, app, port)[n][a] =
                IF n = "http" /\ a = app THEN r ELSE conf[n][a]
  BY <1>1, <1>2, SetRecordAt
<1>5. ASSUME DistinctTable(conf), r # Undefined PROVE DistinctPorts(r.instances)
  <2>1. DistinctPorts(was.instances)
    BY <1>2, <1>5 DEF DistinctTable, was
  <2> QED
    BY <1>1, <1>3, <1>5, <2>1, SplicePorts
<1>6. ASSUME NEW listen, SoundTable(listen, conf), r # Undefined
      PROVE  SoundRecord(listen, "http", app, r)
  <2>1. SoundRecord(listen, "http", app, was)
    BY <1>2, <1>6 DEF SoundTable, was
  <2>2. PortsOf(r.instances) # {}
    BY <1>1, <1>3, <1>6, EmptyPorts
  <2> QED
    BY <1>1, <1>2, <1>6, <2>1, <2>2 DEF SoundRecord
<1> QED
  BY <1>4, <1>5, <1>6 DEF DistinctTable, SoundTable

LEMMA ReplaceRoutesKeeps ==
    ASSUME NEW conf \in Conf, NEW app \in Apps, NEW routing \in RoutingOpts,
           ~BindsSamePort(conf, app, routing)
    PROVE  /\ DistinctTable(conf) /\ IsInjective(routing.out_ports)
                => DistinctTable(ReplaceRoutes(conf, app, routing))
           /\ \A listen : SoundTable(listen, conf) /\ SoundUpdate(listen, app, routing)
                            => SoundTable(listen, ReplaceRoutes(conf, app, routing))
<1> DEFINE m == UpdateMode(routing)
           old == PreviousInstances(conf, app, routing)
<1>1. PICK r \in AppConf :
         /\ ReplaceRoutes(conf, app, routing) = SetRecord(conf, m, app, r)
         /\ m \in Modes /\ old \in Seq(Instance)
         /\ r.port = routing.in_port /\ r.balance = Or(routing.lb_mode, "round_robin")
         /\ ActivePorts(r.instances) = Range(routing.out_ports)
         /\ DistinctPorts(old) /\ IsInjective(routing.out_ports) => DistinctPorts(r.instances)
  BY ReplaceRoutesRecord
<1> HIDE DEF m, old
<1>2. r.instances \in Seq(Instance)
  BY DEF AppConf
<1>3. ASSUME NEW n \in Modes, NEW a \in Apps
      PROVE  ReplaceRoutes(conf, app, routing)[n][a] =
                IF n = m /\ a = app THEN r ELSE conf[n][a]
  <2>1. ReplaceRoutes(conf, app, routing) = SetRecord(conf, m, app, r) /\ m \in Modes
    BY <1>1
  <2> QED
    BY <2>1, SetRecordAt
<1>4. ASSUME DistinctTable(conf) PROVE DistinctPorts(old)
  <2>1. CASE conf[m][app] = Undefined
    BY <2>1 DEF m, old, PreviousInstances, DistinctPorts, IsInjective
  <2>2. CASE conf[m][app] # Undefined
    BY <1>1, <1>4, <2>2 DEF m, old, DistinctTable, PreviousInstances
  <2> QED
    BY <2>1, <2>2
<1>5. ASSUME NEW listen, SoundUpdate(listen, app, routing)
      PROVE  SoundRecord(listen, m, app, r)
  <2>1. Range(routing.out_ports) # {}
    <3>1. routing.out_ports \in Seq(Ports) /\ routing.out_ports # <<>>
      BY <1>5 DEF SoundUpdate, RoutingOpts
    <3>2. 1 \in DOMAIN routing.out_ports
      BY <3>1, EmptySeq, LenProperties
    <3> QED
      BY <3>2 DEF Range
  <2>2. PortsOf(r.instances) # {}
    BY <1>1, <1>2, <2>1, PortsSplit
  <2> QED
    BY <1>1, <1>5, <2>1, <2>2 DEF m, SoundRecord, SoundUpdate
<1> QED
  BY <1>1, <1>3, <1>4, <1>5 DEF DistinctTable, SoundTable

\* nginx accepts the rendering of a sound table.
LEMMA SoundIsValid ==
    ASSUME NEW conf \in Conf, NEW listen, ListenApart(listen), SoundTable(listen, conf)
    PROVE  Valid(Render(conf))
<1> DEFINE text == Render(conf)
<1>1. ASSUME NEW m \in Modes, NEW a \in Blocks(text, m)
      PROVE  /\ a \in Apps /\ conf[m][a] # Undefined
             /\ text[m][a] = Block(m, conf[m][a])
             /\ SoundRecord(listen, m, a, conf[m][a])
  BY <1>1 DEF Blocks, Render, SoundTable
<1> HIDE DEF text
<1>2. "http" \in Modes /\ "stream" \in Modes /\ \A m \in Modes : m = "http" \/ m = "stream"
  BY DEF Modes
<1>3. KnownDirectives(text)
  <2> SUFFICES ASSUME NEW m \in Modes, NEW a \in Blocks(text, m)
               PROVE  text[m][a].method \in KnownMethods[m]
    BY DEF KnownDirectives
  <2>1. text[m][a].method = Method(m, conf[m][a].balance)
    <3>1. text[m][a] = Block(m, conf[m][a])
      BY <1>1
    <3> QED
      BY <3>1 DEF Block
  <2> QED
    BY <1>1, <2>1 DEF SoundRecord
<1>4. ASSUME NEW m \in Modes, NEW a \in Blocks(text, m)
      PROVE  text[m][a].listen = listen[m][a]
  <2>1. text[m][a].listen = conf[m][a].port
    <3>1. text[m][a] = Block(m, conf[m][a])
      BY <1>1
    <3> QED
      BY <3>1 DEF Block
  <2> QED
    BY <1>1, <2>1 DEF SoundRecord
<1>5. StreamListensDiffer(text)
  BY <1>1, <1>2, <1>4 DEF StreamListensDiffer, ListenApart
<1>6. SectionsBindApart(text)
  BY <1>1, <1>2, <1>4 DEF SectionsBindApart, Listens, ListenApart
<1>7. UpstreamsHaveServers(text)
  <2> SUFFICES ASSUME NEW m \in Modes, NEW a \in Blocks(text, m)
               PROVE  \E i \in DOMAIN text[m][a].servers : ~text[m][a].servers[i].backup
    BY DEF UpstreamsHaveServers
  <2> DEFINE q == conf[m][a].instances
  <2>1. q \in Seq(Instance)
    BY <1>1, RecordInstances
  <2>2. text[m][a].servers = [i \in 1..Len(q) |-> Server(m, q[i])]
    <3>1. DOMAIN q = 1..Len(q)
      BY <2>1
    <3> QED
      <4>1. text[m][a] = Block(m, conf[m][a])
        BY <1>1
      <4> QED
        BY <3>1, <4>1 DEF Block
  <2>3. \E i \in 1..Len(q) : m = "http" \/ ~q[i].backup
    <3>1. CASE m = "http"
      BY <1>1, <2>1, <3>1, PortsMean DEF SoundRecord
    <3>2. CASE m = "stream"
      BY <1>1, <2>1, <3>2, PortsMean DEF SoundRecord
    <3> QED
      BY <1>2, <3>1, <3>2
  <2> HIDE DEF q
  <2>4. ASSUME NEW i \in 1..Len(q), m = "http" \/ ~q[i].backup
        PROVE  ~text[m][a].servers[i].backup
    <3>1. text[m][a].servers[i] = Server(m, q[i])
      BY <2>2
    <3>2. Server(m, q[i]).backup = (m = "stream" /\ q[i].backup)
      BY DEF Server
    <3> QED
      BY <2>4, <3>1, <3>2
  <2> QED
    BY <2>2, <2>3, <2>4
<1> QED
  BY <1>3, <1>5, <1>6, <1>7 DEF Valid, text
=============================================================================

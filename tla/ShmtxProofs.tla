---------------------------- MODULE ShmtxProofs ----------------------------
(***************************************************************************)
(* The shared mutex for any finite number of workers, any number of which  *)
(* are killed: exclusion, the balance of the counter and the semaphore,    *)
(* and no lost wakeup.  The five properties of Shmtx are inductive         *)
(* together: that nobody is forgotten when a process reads wait <= 0 needs *)
(* the balance, and the balance needs that who takes its wait++ back       *)
(* holds the lock.                                                         *)
(***************************************************************************)
EXTENDS Shmtx, FiniteSetTheorems, TLAPS

Inv == TypeOK /\ MutualExclusion /\ LockOwned /\ Balance /\ NoLostWakeup

-----------------------------------------------------------------------------
(* How many processes are at some labels when one of them goes elsewhere.  *)

\* There are finitely many processes at any labels.
LEMMA AtFinite ==
    ASSUME NEW L
    PROVE  IsFiniteSet(At(L)) /\ Cardinality(At(L)) \in Nat
<1>1. IsFiniteSet(All)
  BY ShmtxAssumption, FS_AddElement DEF All
<1>2. At(L) \subseteq All
  BY DEF At
<1> QED
  BY <1>1, <1>2, FS_Subset, FS_CardinalityType

\* A move within the labels or outside of them changes nothing, a move in
\* adds one, a move out takes one away.
LEMMA Counted ==
    ASSUME TypeOK, NEW p \in All, NEW label, Goto(p, label), NEW L
    PROVE  /\ (pc[p] \in L <=> label \in L) => At(L)' = At(L)
           /\ pc[p] \notin L /\ label \in L =>
                Cardinality(At(L)') = Cardinality(At(L)) + 1
           /\ pc[p] \in L /\ label \notin L =>
                Cardinality(At(L)') = Cardinality(At(L)) - 1
<1>1. pc' = [pc EXCEPT ![p] = label] /\ DOMAIN pc = All
  BY DEF TypeOK, Goto
<1>2. \A q \in All : pc'[q] = IF q = p THEN label ELSE pc[q]
  BY <1>1
<1>3. At(L)' = {q \in All : pc'[q] \in L} /\ At(L) = {q \in All : pc[q] \in L}
  BY DEF At
<1>4. CASE pc[p] \in L <=> label \in L
  BY <1>2, <1>3, <1>4
<1>5. CASE pc[p] \notin L /\ label \in L
  <2>1. At(L)' = At(L) \cup {p} /\ p \notin At(L)
    BY <1>2, <1>3, <1>5
  <2> QED
    BY <2>1, <1>5, AtFinite, FS_AddElement
<1>6. CASE pc[p] \in L /\ label \notin L
  <2>1. At(L)' = At(L) \ {p} /\ p \in At(L)
    BY <1>2, <1>3, <1>6
  <2> QED
    BY <2>1, <1>6, AtFinite, FS_RemoveElement
<1> QED
  BY <1>4, <1>5, <1>6

-----------------------------------------------------------------------------
(* The invariant.                                                          *)

\* At the start nobody holds the lock or waits for it.
LEMMA InvInit == Init => Inv
<1> SUFFICES ASSUME Init PROVE Inv
  OBVIOUS
<1>1. TypeOK
  <2>1. /\ pc \in [All -> {"out", "add", "recheck", "sub", "sleep", "awake", "critical",
                       "read", "cas", "post", "dead"}]
        /\ pc[Master] = "out" /\ seen \in [All -> Int]
    BY DEF Init, All
  <2>2. torn \in BOOLEAN
    BY DEF Init
  <2> QED
    BY <2>1, <2>2 DEF Init, TypeOK
<1> USE ShmtxAssumption
<1>4. MutualExclusion /\ LockOwned
  BY DEF Init, MutualExclusion, LockOwned, Holding, All
<1>2. At(Waiting) = {} /\ At({"post"}) = {} /\ At({"sleep"}) = {}
  BY DEF Init, At, Waiting, All
<1>3. Balance /\ NoLostWakeup
  BY <1>2, FS_EmptySet DEF Init, Balance, NoLostWakeup, Due, Given
<1> QED
  BY <1>1, <1>3, <1>4 DEF Inv

\* A step keeps the types, the exclusion and the ownership of the lock.
LEMMA LockStep ==
    ASSUME TypeOK, MutualExclusion, LockOwned, [Next]_vars
    PROVE  TypeOK' /\ MutualExclusion' /\ LockOwned'
<1> USE DEF TypeOK, MutualExclusion, LockOwned, Holding, Goto, All
<1> USE ShmtxAssumption
<1>1. ASSUME NEW p \in Proc, TryLock(p) PROVE TypeOK' /\ MutualExclusion' /\ LockOwned'
  BY <1>1 DEF TryLock, Take
<1>2. ASSUME NEW p \in Proc, Lock(p) PROVE TypeOK' /\ MutualExclusion' /\ LockOwned'
  BY <1>2 DEF Lock, Take
<1>3. ASSUME NEW p \in Proc, AddWait(p) PROVE TypeOK' /\ MutualExclusion' /\ LockOwned'
  BY <1>3 DEF AddWait
<1>4. ASSUME NEW p \in Proc, Recheck(p) PROVE TypeOK' /\ MutualExclusion' /\ LockOwned'
  BY <1>4 DEF Recheck, Take
<1>5. ASSUME NEW p \in Proc, SubWait(p) PROVE TypeOK' /\ MutualExclusion' /\ LockOwned'
  BY <1>5 DEF SubWait
<1>6. ASSUME NEW p \in Proc, SemWait(p) PROVE TypeOK' /\ MutualExclusion' /\ LockOwned'
  BY <1>6 DEF SemWait
<1>7. ASSUME NEW p \in Proc, Unlock(p) PROVE TypeOK' /\ MutualExclusion' /\ LockOwned'
  BY <1>7 DEF Unlock
<1>8. ASSUME NEW p \in Proc, Crash(p) PROVE TypeOK' /\ MutualExclusion' /\ LockOwned'
  BY <1>8 DEF Crash, Waking
<1>9. ASSUME NEW p \in Proc, ForceUnlock(p) PROVE TypeOK' /\ MutualExclusion' /\ LockOwned'
  BY <1>9 DEF ForceUnlock
<1>10. ASSUME NEW p \in All, ReadWait(p) PROVE TypeOK' /\ MutualExclusion' /\ LockOwned'
  BY <1>10 DEF ReadWait
<1>11. ASSUME NEW p \in All, CasWait(p) PROVE TypeOK' /\ MutualExclusion' /\ LockOwned'
  BY <1>11 DEF CasWait
<1>12. ASSUME NEW p \in All, SemPost(p) PROVE TypeOK' /\ MutualExclusion' /\ LockOwned'
  BY <1>12 DEF SemPost
<1>13. CASE UNCHANGED vars
  BY <1>13 DEF vars
<1> QED
  BY <1>1, <1>2, <1>3, <1>4, <1>5, <1>6, <1>7, <1>8, <1>9, <1>10, <1>11, <1>12, <1>13
  DEF Next

\* The counter and the semaphore change by what the two counts change by.
LEMMA BalanceMove ==
    ASSUME TypeOK, Balance, torn => torn', crashes' = crashes,
           NEW w \in Int, wait' = w, NEW m \in Int, sem' = m,
           NEW i \in Int, NEW k \in Int, w + m = wait + sem + i - k,
           Cardinality(At(Waiting)') = Cardinality(At(Waiting)) + i,
           Cardinality(At({"post"})') = Cardinality(At({"post"})) + k
    PROVE  Balance'
<1> SUFFICES ASSUME ~torn' PROVE Due' <= Given' /\ Given' <= Due' + crashes'
  BY DEF Balance
<1>1. Cardinality(At(Waiting)) \in Nat /\ Cardinality(At({"post"})) \in Nat
  BY AtFinite
<1>2. wait \in Int /\ sem \in Int /\ crashes \in Int
  BY DEF TypeOK
<1>3. Due <= Given /\ Given <= Due + crashes
  BY DEF Balance
<1>4. Due = Cardinality(At(Waiting)) /\ Given = wait + sem + Cardinality(At({"post"}))
  BY DEF Due, Given
<1>5. Due' = Due + i /\ Given' = w + m + (Cardinality(At({"post"})) + k)
  BY DEF Due, Given
<1>6. Given' = Given + i
  BY <1>1, <1>2, <1>4, <1>5
<1>7. Given \in Int /\ Due \in Int
  BY <1>1, <1>2, <1>4
<1> QED
  BY <1>2, <1>3, <1>5, <1>6, <1>7

\* A step keeps the balance.
LEMMA BalanceStep ==
    ASSUME TypeOK, Balance, [Next]_vars
    PROVE  Balance'
<1> DEFINE Same(L) == Cardinality(At(L)') = Cardinality(At(L))
           More(L) == Cardinality(At(L)') = Cardinality(At(L)) + 1
           Less(L) == Cardinality(At(L)') = Cardinality(At(L)) + (-1)
<1>0. /\ \A p \in Proc : p \in All
      /\ wait \in Int /\ sem \in Nat /\ crashes \in Nat
      /\ \A L : Cardinality(At(L)) \in Nat
  BY AtFinite DEF All, TypeOK
<1>a. ASSUME NEW p \in All, NEW label, Goto(p, label), NEW L,
             pc[p] \in L <=> label \in L
      PROVE  Same(L)
  BY <1>a, Counted
<1>b. ASSUME NEW p \in All, NEW label, Goto(p, label), NEW L,
             pc[p] \notin L, label \in L
      PROVE  More(L)
  BY <1>b, Counted
<1>c. ASSUME NEW p \in All, NEW label, Goto(p, label), NEW L,
             pc[p] \in L, label \notin L
      PROVE  Less(L)
  <2>1. Cardinality(At(L)') = Cardinality(At(L)) - 1
    BY <1>c, Counted
  <2> QED
    BY <2>1, <1>0
<1>d. ASSUME UNCHANGED <<wait, sem, crashes, torn>>, Same(Waiting), Same({"post"})
      PROVE  Balance'
  BY <1>d, <1>0 DEF Balance, Due, Given
<1>1. ASSUME NEW p \in Proc, TryLock(p) \/ Lock(p) PROVE Balance'
  <2>1. PICK label \in {"critical", "out", "add"} : Goto(p, label)
    BY <1>1 DEF TryLock, Lock, Take
  <2>2. pc[p] \in {"out", "awake"} /\ UNCHANGED <<wait, sem, crashes, torn>>
    BY <1>1 DEF TryLock, Lock, Take
  <2> QED
    BY <2>1, <2>2, <1>0, <1>a, <1>d DEF Waiting
<1>2. ASSUME NEW p \in Proc, AddWait(p) PROVE Balance'
  <2>1. Goto(p, "recheck") /\ pc[p] = "add"
    BY <1>2 DEF AddWait
  <2>2. More(Waiting) /\ Same({"post"})
    BY <2>1, <1>0, <1>a, <1>b DEF Waiting
  <2> QED
    BY <1>2, <2>2, <1>0, BalanceMove DEF AddWait
<1>3. ASSUME NEW p \in Proc, Recheck(p) PROVE Balance'
  <2>1. PICK label \in {"sub", "sleep"} : Goto(p, label)
    BY <1>3 DEF Recheck, Take
  <2>2. pc[p] = "recheck" /\ UNCHANGED <<wait, sem, crashes, torn>>
    BY <1>3 DEF Recheck, Take
  <2> QED
    BY <2>1, <2>2, <1>0, <1>a, <1>d DEF Waiting
<1>4. ASSUME NEW p \in Proc, SubWait(p) PROVE Balance'
  <2>1. Goto(p, "critical") /\ pc[p] = "sub"
    BY <1>4 DEF SubWait
  <2>2. Less(Waiting) /\ Same({"post"})
    BY <2>1, <1>0, <1>a, <1>c DEF Waiting
  <2> QED
    BY <1>4, <2>2, <1>0, BalanceMove DEF SubWait
<1>5. ASSUME NEW p \in Proc, SemWait(p) PROVE Balance'
  <2>1. Goto(p, "awake") /\ pc[p] = "sleep"
    BY <1>5 DEF SemWait
  <2>2. Less(Waiting) /\ Same({"post"})
    BY <2>1, <1>0, <1>a, <1>c DEF Waiting
  <2> QED
    BY <1>5, <2>2, <1>0, BalanceMove DEF SemWait
<1>6. ASSUME NEW p \in Proc, Unlock(p) PROVE Balance'
  <2>1. PICK label \in {"read", "out"} : Goto(p, label)
    BY <1>6 DEF Unlock
  <2>2. pc[p] = "critical" /\ UNCHANGED <<wait, sem, crashes, torn>>
    BY <1>6 DEF Unlock
  <2> QED
    BY <2>1, <2>2, <1>0, <1>a, <1>d DEF Waiting
<1>7. ASSUME NEW p \in Proc, Crash(p) PROVE Balance'
  <2>1. Goto(p, "dead") /\ wait' = wait /\ sem' = sem /\ crashes' = crashes + 1
    BY <1>7 DEF Crash
  <2>2. CASE pc[p] = "post"
    BY <1>7, <2>2 DEF Crash, Waking, Balance
  <2>3. CASE pc[p] # "post"
    <3>1. Same({"post"})
      BY <2>1, <2>3, <1>0, <1>a
    <3>2. Same(Waiting) \/ Less(Waiting)
      BY <2>1, <1>0, <1>a, <1>c DEF Waiting
    <3>3. torn => torn'
      BY <1>7 DEF Crash
    <3> QED
      BY <2>1, <3>1, <3>2, <3>3, <1>0 DEF Balance, Due, Given
  <2> QED
    BY <2>2, <2>3
<1>8. ASSUME NEW p \in Proc, ForceUnlock(p) PROVE Balance'
  <2>1. UNCHANGED <<wait, sem, crashes, torn>>
    BY <1>8 DEF ForceUnlock
  <2>2. At(Waiting)' = At(Waiting) /\ At({"post"})' = At({"post"})
    BY <1>8, ShmtxAssumption DEF ForceUnlock, At, Waiting, All, TypeOK
  <2> QED
    BY <2>1, <2>2, <1>d
<1>9. ASSUME NEW p \in All, ReadWait(p) PROVE Balance'
  <2>1. PICK label \in {"out", "cas"} : Goto(p, label)
    BY <1>9 DEF ReadWait
  <2>2. pc[p] = "read" /\ UNCHANGED <<wait, sem, crashes, torn>>
    BY <1>9 DEF ReadWait
  <2> QED
    BY <2>1, <2>2, <1>a, <1>d DEF Waiting
<1>10. ASSUME NEW p \in All, CasWait(p) PROVE Balance'
  <2>1. CASE wait' = wait - 1 /\ Goto(p, "post")
    <3>1. Same(Waiting) /\ More({"post"})
      BY <1>10, <2>1, <1>a, <1>b DEF Waiting, CasWait
    <3> QED
      BY <1>10, <2>1, <3>1, <1>0, BalanceMove DEF CasWait
  <2>2. CASE wait' = wait /\ Goto(p, "read")
    BY <1>10, <2>2, <1>a, <1>d DEF Waiting, CasWait
  <2> QED
    BY <1>10, <2>1, <2>2 DEF CasWait
<1>11. ASSUME NEW p \in All, SemPost(p) PROVE Balance'
  <2>1. Goto(p, "out") /\ pc[p] = "post"
    BY <1>11 DEF SemPost
  <2>2. Same(Waiting) /\ Less({"post"})
    BY <2>1, <1>a, <1>c DEF Waiting
  <2> QED
    BY <1>11, <2>2, <1>0, BalanceMove DEF SemPost
<1>12. CASE UNCHANGED vars
  BY <1>12, <1>d DEF vars, At
<1> QED
  BY <1>1, <1>2, <1>3, <1>4, <1>5, <1>6, <1>7, <1>8, <1>9, <1>10, <1>11, <1>12 DEF Next

\* A step loses no wakeup.  Only a process that reads wait <= 0 gives up its
\* duty to wake; by the balance a sleeper is then owed a post under way.
LEMMA WakeStep ==
    ASSUME TypeOK, MutualExclusion, Balance, NoLostWakeup, [Next]_vars
    PROVE  NoLostWakeup'
<1> SUFFICES ASSUME ~torn', NEW q \in All, pc'[q] = "sleep", sem' = 0, lock' = Free
             PROVE  \E r \in All : pc'[r] \in Waking
  BY DEF NoLostWakeup, At
<1>0. ASSUME NEW r \in All, ~torn, pc[r] = "sleep", sem = 0, lock = Free
      PROVE  \E u \in All : pc[u] \in Waking
  BY <1>0 DEF NoLostWakeup, At
<1> USE DEF TypeOK, Goto, Waking, All
<1> USE ShmtxAssumption
<1>1. ASSUME NEW p \in Proc, TryLock(p) \/ Lock(p) PROVE \E r \in All : pc'[r] \in Waking
  BY <1>1 DEF TryLock, Lock, Take
<1>2. ASSUME NEW p \in Proc, AddWait(p) PROVE \E r \in All : pc'[r] \in Waking
  BY <1>2, <1>0 DEF AddWait
<1>3. ASSUME NEW p \in Proc, Recheck(p) PROVE \E r \in All : pc'[r] \in Waking
  BY <1>3 DEF Recheck, Take
<1>4. ASSUME NEW p \in Proc, SubWait(p) PROVE \E r \in All : pc'[r] \in Waking
  BY <1>4 DEF SubWait, MutualExclusion, Holding
<1>5. ASSUME NEW p \in Proc, SemWait(p) PROVE \E r \in All : pc'[r] \in Waking
  BY <1>5 DEF SemWait
<1>6. ASSUME NEW p \in Proc, Unlock(p) PROVE \E r \in All : pc'[r] \in Waking
  BY <1>6 DEF Unlock, MutualExclusion, Holding
<1>7. ASSUME NEW p \in Proc, Crash(p) PROVE \E r \in All : pc'[r] \in Waking
  BY <1>7, <1>0 DEF Crash
<1>8. ASSUME NEW p \in Proc, ForceUnlock(p) PROVE \E r \in All : pc'[r] \in Waking
  BY <1>8, <1>0 DEF ForceUnlock
<1>9. ASSUME NEW p \in All, ReadWait(p) PROVE \E r \in All : pc'[r] \in Waking
  <2>1. CASE wait > 0
    BY <1>9, <2>1 DEF ReadWait
  <2>2. CASE wait <= 0
    <3>1. pc[q] = "sleep" /\ sem = 0 /\ ~torn
      BY <1>9, <2>2 DEF ReadWait
    <3>2. At(Waiting) # {} /\ Cardinality(At(Waiting)) \in Nat
          /\ Cardinality(At({"post"})) \in Nat
      BY <3>1, AtFinite DEF At, Waiting
    <3>3. Cardinality(At(Waiting)) # 0
      BY <3>2, AtFinite, FS_EmptySet
    <3>4. Cardinality(At({"post"})) # 0
      BY <3>1, <3>2, <3>3, <2>2 DEF Balance, Due, Given
    <3>5. PICK r \in All : pc[r] = "post"
      BY <3>4, FS_EmptySet DEF At
    <3> QED
      BY <1>9, <3>5 DEF ReadWait
  <2> QED
    BY <2>1, <2>2
<1>10. ASSUME NEW p \in All, CasWait(p) PROVE \E r \in All : pc'[r] \in Waking
  BY <1>10 DEF CasWait
<1>11. ASSUME NEW p \in All, SemPost(p) PROVE \E r \in All : pc'[r] \in Waking
  BY <1>11 DEF SemPost
<1>12. CASE UNCHANGED vars
  BY <1>12, <1>0 DEF vars
<1> QED
  BY <1>1, <1>2, <1>3, <1>4, <1>5, <1>6, <1>7, <1>8, <1>9, <1>10, <1>11, <1>12 DEF Next

\* The invariant holds throughout.
LEMMA InvAlways == Spec => []Inv
<1>1. Init => Inv
  BY InvInit
<1>2. Inv /\ [Next]_vars => Inv'
  BY LockStep, BalanceStep, WakeStep DEF Inv
<1> QED
  BY <1>1, <1>2, PTL DEF Spec

\* ngx_shmtx_lock and ngx_shmtx_trylock give the lock to one process at a
\* time, for any number of workers and of crashes.
THEOREM Excludes == Spec => []MutualExclusion
<1>1. Inv => MutualExclusion
  BY DEF Inv
<1> QED
  BY <1>1, InvAlways, PTL

\* Nobody sleeps on a free lock that nobody is about to wake: the second test
\* of the lock in ngx_shmtx_lock and the loop of ngx_shmtx_wakeup suffice.
THEOREM WakesUp == Spec => []NoLostWakeup
<1>1. Inv => NoLostWakeup
  BY DEF Inv
<1> QED
  BY <1>1, InvAlways, PTL

\* The counter and the semaphore account for all who wait.
THEOREM Balanced == Spec => []Balance
<1>1. Inv => Balance
  BY DEF Inv
<1> QED
  BY <1>1, InvAlways, PTL
=============================================================================

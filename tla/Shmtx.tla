------------------------------- MODULE Shmtx -------------------------------
(***************************************************************************)
(* The mutex that the worker processes share (ngx_shmtx.c, in the build    *)
(* with atomic operations and POSIX semaphores): one step per atomic       *)
(* operation.  A worker may be killed anywhere; the master then breaks the *)
(* lock of the dead process and starts another in its place.               *)
(***************************************************************************)
EXTENDS Integers, FiniteSets

CONSTANTS
    Proc,       \* the worker processes
    Master,     \* the process that breaks locks
    Free,       \* no pid : *mtx->lock == 0
    MaxCrashes  \* bound: workers killed

ASSUME ShmtxAssumption ==
    /\ Master \notin Proc /\ Free \notin Proc \cup {Master}
    /\ IsFiniteSet(Proc) /\ MaxCrashes \in Nat

VARIABLES
    lock,     \* *mtx->lock
    wait,     \* *mtx->wait, as the signed number it is compared as
    sem,      \* mtx->sem
    pc,       \* where each process is
    seen,     \* seen[p] : the value of *mtx->wait that p has read
    crashes,  \* history: how many were killed
    torn      \* history: one was killed between clearing the lock and waking
              \* another, or when it had just been waked
vars == <<lock, wait, sem, pc, seen, crashes, torn>>

All == Proc \cup {Master}
At(labels) == {p \in All : pc[p] \in labels}

\* Between wait++ and the wait-- that takes it back or the sem_post() that
\* answers it.
Waiting == {"recheck", "sub", "sleep"}
Waking == {"read", "cas", "post", "awake"}
Holding == {"critical", "sub"}

Init ==
    /\ lock = Free /\ wait = 0 /\ sem = 0
    /\ pc = [p \in All |-> "out"] /\ seen = [p \in All |-> 0]
    /\ crashes = 0 /\ torn = FALSE

Goto(p, label) == pc' = [pc EXCEPT ![p] = label]

-----------------------------------------------------------------------------
(* ngx_shmtx_trylock, ngx_shmtx_lock.                                      *)

\* Faulty variant: the lock is taken although it may have been taken since.
TakeUnchecked(p, yes, no) ==
    /\ \/ lock' = p /\ Goto(p, yes)
       \/ lock # Free /\ Goto(p, no) /\ UNCHANGED lock
    /\ UNCHANGED <<wait, sem, seen, crashes, torn>>

\* *mtx->lock == 0 && ngx_atomic_cmp_set(mtx->lock, 0, ngx_pid)
Take(p, yes, no) ==
    /\ \/ lock = Free /\ lock' = p /\ Goto(p, yes)
       \/ lock # Free /\ Goto(p, no) /\ UNCHANGED lock
    /\ UNCHANGED <<wait, sem, seen, crashes, torn>>

TryLock(p) == pc[p] = "out" /\ Take(p, "critical", "out")

\* The first test and those between the pauses, which are one when they fail.
Lock(p) == pc[p] \in {"out", "awake"} /\ Take(p, "critical", "add")

AddWait(p) ==
    /\ pc[p] = "add"
    /\ wait' = wait + 1 /\ Goto(p, "recheck")
    /\ UNCHANGED <<lock, sem, seen, crashes, torn>>

\* Faulty variant: the lock is not tested again before the process sleeps.
RecheckNot(p) ==
    /\ pc[p] = "recheck" /\ Goto(p, "sleep")
    /\ UNCHANGED <<lock, wait, sem, seen, crashes, torn>>

Recheck(p) == pc[p] = "recheck" /\ Take(p, "sub", "sleep")

SubWait(p) ==
    /\ pc[p] = "sub"
    /\ wait' = wait - 1 /\ Goto(p, "critical")
    /\ UNCHANGED <<lock, sem, seen, crashes, torn>>

SemWait(p) ==
    /\ pc[p] = "sleep" /\ sem > 0
    /\ sem' = sem - 1 /\ Goto(p, "awake")
    /\ UNCHANGED <<lock, wait, seen, crashes, torn>>

-----------------------------------------------------------------------------
(* ngx_shmtx_unlock and ngx_shmtx_wakeup.                                  *)

Unlock(p) ==
    /\ pc[p] = "critical"
    /\ lock' = IF lock = p THEN Free ELSE lock
    /\ Goto(p, IF lock = p THEN "read" ELSE "out")
    /\ UNCHANGED <<wait, sem, seen, crashes, torn>>

ReadWait(p) ==
    /\ pc[p] = "read"
    /\ \/ wait <= 0 /\ Goto(p, "out") /\ UNCHANGED seen
       \/ wait > 0 /\ Goto(p, "cas") /\ seen' = [seen EXCEPT ![p] = wait]
    /\ UNCHANGED <<lock, wait, sem, crashes, torn>>

CasWait(p) ==
    /\ pc[p] = "cas"
    /\ \/ wait = seen[p] /\ wait' = wait - 1 /\ Goto(p, "post")
       \/ wait # seen[p] /\ Goto(p, "read") /\ UNCHANGED wait
    /\ seen' = [seen EXCEPT ![p] = 0]
    /\ UNCHANGED <<lock, sem, crashes, torn>>

SemPost(p) ==
    /\ pc[p] = "post"
    /\ sem' = sem + 1 /\ Goto(p, "out")
    /\ UNCHANGED <<lock, wait, seen, crashes, torn>>

-----------------------------------------------------------------------------
(* A worker is killed.  The master breaks its lock, wakes who waits, and   *)
(* has another worker in its place: ngx_shmtx_force_unlock.                *)

Crash(p) ==
    /\ crashes < MaxCrashes /\ pc[p] # "dead"
    /\ crashes' = crashes + 1
    /\ torn' = (torn \/ pc[p] \in Waking)
    /\ Goto(p, "dead") /\ seen' = [seen EXCEPT ![p] = 0]
    /\ UNCHANGED <<lock, wait, sem>>

ForceUnlock(p) ==
    /\ pc[p] = "dead" /\ pc[Master] = "out"
    /\ lock' = IF lock = p THEN Free ELSE lock
    /\ pc' = [pc EXCEPT ![p] = "out", ![Master] = IF lock = p THEN "read" ELSE "out"]
    /\ UNCHANGED <<wait, sem, seen, crashes, torn>>

Next ==
    \/ \E p \in Proc :
        \/ TryLock(p) \/ Lock(p) \/ AddWait(p) \/ Recheck(p) \/ SubWait(p) \/ SemWait(p)
        \/ Unlock(p) \/ Crash(p) \/ ForceUnlock(p)
    \/ \E p \in All : ReadWait(p) \/ CasWait(p) \/ SemPost(p)

Spec == Init /\ [][Next]_vars

-----------------------------------------------------------------------------
(* Properties.                                                             *)

\* Types; the semaphore never counts below zero.
TypeOK ==
    /\ lock \in Proc \cup {Free} /\ wait \in Int /\ sem \in Nat
    /\ pc \in [All -> {"out", "add", "recheck", "sub", "sleep", "awake", "critical",
                       "read", "cas", "post", "dead"}]
    /\ pc[Master] \in {"out", "read", "cas", "post"}
    /\ seen \in [All -> Int] /\ crashes \in Nat /\ torn \in BOOLEAN

\* No two processes are between a successful ngx_shmtx_lock or _trylock and
\* ngx_shmtx_unlock, and who is there has its pid in the lock: also when
\* workers are killed and their locks are broken.
MutualExclusion == \A p \in Proc : pc[p] \in Holding => lock = p

\* The counter and the semaphore together account for everybody who waits; a
\* worker that was killed leaves its share behind.  (The counter alone may be
\* negative: a process that takes the lock on its second test takes back a
\* wait++ that has been answered.)
Due == Cardinality(At(Waiting))
Given == wait + sem + Cardinality(At({"post"}))
Balance == ~torn => Due <= Given /\ Given <= Due + crashes

\* Nobody sleeps on a lock that is free without somebody being about to wake:
\* also not when the holder, or another one that waits, is killed.
NoLostWakeup ==
    ~torn /\ At({"sleep"}) # {} /\ sem = 0 /\ lock = Free => At(Waking) # {}

\* Only a killed worker leaves its pid in the lock, for the master to break.
LockOwned == lock # Free => lock \in Proc /\ pc[lock] \in Holding \cup {"dead"}
=============================================================================

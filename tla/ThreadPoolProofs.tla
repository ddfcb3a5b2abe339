-------------------------- MODULE ThreadPoolProofs --------------------------
(***************************************************************************)
(* Theorems about ThreadPool, for any finite number of threads, any tasks  *)
(* and any max_queue.                                                      *)
(***************************************************************************)
EXTENDS ThreadPool, TLAPS, FiniteSetTheorems, SequenceTheorems

Labels == {"start", "signalled", "asleep", "run", "notify", "ended"}
Places == {"loop", "handler", "stopping", "joining", "destroyed", "gave up"}
ThreadState == [at : Labels, task : Tasks]
WorkerState == [at : Places, list : Seq(Task), left : Nat]

TypeOK ==
    /\ queue \in Seq(Tasks) /\ waiting \in Int /\ done \in Seq(Task)
    /\ notified \in BOOLEAN /\ threads \in [Thread -> ThreadState]
    /\ active \in [Tasks -> BOOLEAN] /\ owed \in [Task -> Int]
    /\ worker \in WorkerState

-----------------------------------------------------------------------------
(* Lists as sets of tasks.                                                 *)

Elements(s) == {s[i] : i \in DOMAIN s}
NoneTwice(s) == \A i, j \in DOMAIN s : s[i] = s[j] => i = j

LEMMA AppendElements ==
    ASSUME NEW S, NEW s \in Seq(S), NEW x \in S
    PROVE  /\ Append(s, x) \in Seq(S) /\ Len(Append(s, x)) = Len(s) + 1
           /\ Elements(Append(s, x)) = Elements(s) \cup {x}
           /\ NoneTwice(s) /\ x \notin Elements(s) => NoneTwice(Append(s, x))
<1>0. Len(s) \in Nat /\ DOMAIN s = 1..Len(s)
  OBVIOUS
<1>1. /\ Append(s, x) \in Seq(S) /\ Len(Append(s, x)) = Len(s) + 1
      /\ DOMAIN Append(s, x) = 1..Len(s) + 1
      /\ \A i \in 1..Len(s) : Append(s, x)[i] = s[i]
      /\ Append(s, x)[Len(s) + 1] = x
  OBVIOUS
<1>2. 1..Len(s) + 1 = 1..Len(s) \cup {Len(s) + 1}
  BY <1>0
<1>3. Elements(Append(s, x)) = Elements(s) \cup {x}
  <2>1. ASSUME NEW y PROVE y \in Elements(Append(s, x)) <=> y \in Elements(s) \/ y = x
    BY <1>0, <1>1, <1>2 DEF Elements
  <2> QED
    BY <2>1
<1>4. NoneTwice(s) /\ x \notin Elements(s) => NoneTwice(Append(s, x))
  BY <1>0, <1>1, <1>2 DEF Elements, NoneTwice
<1> QED
  BY <1>1, <1>3, <1>4

LEMMA TailElements ==
    ASSUME NEW S, NEW s \in Seq(S), s # <<>>
    PROVE  /\ Head(s) \in S /\ Tail(s) \in Seq(S) /\ Len(Tail(s)) = Len(s) - 1
           /\ Len(s) \in Nat \ {0}
           /\ Head(s) \in Elements(s)
           /\ NoneTwice(s) => /\ Elements(Tail(s)) = Elements(s) \ {Head(s)}
                              /\ NoneTwice(Tail(s))
<1>0. Len(s) \in Nat \ {0} /\ DOMAIN s = 1..Len(s) /\ Head(s) = s[1]
  BY EmptySeq
<1>1. /\ Head(s) \in S /\ Tail(s) \in Seq(S) /\ Len(Tail(s)) = Len(s) - 1
      /\ \A i \in 1..Len(s) - 1 : Tail(s)[i] = s[i + 1]
  BY HeadTailProperties
<1>2. DOMAIN Tail(s) = 1..Len(s) - 1
  BY <1>1
<1>3. \A i \in 1..Len(s) - 1 : i + 1 \in 1..Len(s) /\ i + 1 # 1
  BY <1>0
<1>4. \A i \in 1..Len(s) : i = 1 \/ (i - 1 \in 1..Len(s) - 1 /\ (i - 1) + 1 = i)
  BY <1>0
<1>5. 1 \in 1..Len(s)
  BY <1>0
<1>6. ASSUME NoneTwice(s) PROVE Elements(Tail(s)) = Elements(s) \ {Head(s)}
  <2>1. ASSUME NEW y \in Elements(Tail(s)) PROVE y \in Elements(s) \ {Head(s)}
    BY <1>0, <1>1, <1>2, <1>3, <1>5, <1>6 DEF Elements, NoneTwice
  <2>2. ASSUME NEW y \in Elements(s), y # Head(s) PROVE y \in Elements(Tail(s))
    <3>1. PICK i \in 1..Len(s) : s[i] = y
      BY <1>0 DEF Elements
    <3>2. i - 1 \in 1..Len(s) - 1 /\ (i - 1) + 1 = i
      BY <1>0, <1>4, <2>2, <3>1
    <3>3. Tail(s)[i - 1] = y
      BY <1>1, <3>1, <3>2
    <3> QED
      BY <1>2, <3>2, <3>3 DEF Elements
  <2> QED
    BY <2>1, <2>2
<1>7. ASSUME NoneTwice(s) PROVE NoneTwice(Tail(s))
  <2> SUFFICES ASSUME NEW i \in 1..Len(s) - 1, NEW j \in 1..Len(s) - 1,
                      Tail(s)[i] = Tail(s)[j]
               PROVE  i = j
    BY <1>2 DEF NoneTwice
  <2>1. s[i + 1] = s[j + 1] /\ i + 1 \in 1..Len(s) /\ j + 1 \in 1..Len(s)
    BY <1>1, <1>3
  <2>2. i + 1 = j + 1
    BY <1>0, <1>7, <2>1 DEF NoneTwice
  <2> QED
    BY <2>2
<1> QED
  BY <1>0, <1>1, <1>5, <1>6, <1>7 DEF Elements

LEMMA EmptyElements ==
    Elements(<<>>) = {} /\ NoneTwice(<<>>)
BY DEF Elements, NoneTwice

-----------------------------------------------------------------------------
(* A thread goes from one place to another.                                *)

Running == {threads[h].task : h \in At("run")}
RunOnce == \A g, h \in At("run") : threads[g].task = threads[h].task => g = h

LEMMA ThreadMoves ==
    ASSUME threads \in [Thread -> ThreadState], NEW h \in Thread, NEW b \in Labels,
           NEW t \in Tasks, threads' = [threads EXCEPT ![h] = [at |-> b, task |-> t]]
    PROVE  /\ threads' \in [Thread -> ThreadState]
           /\ \A l : At(l)' = IF l = b THEN At(l) \cup {h} ELSE At(l) \ {h}
           /\ threads[h].at # "run" /\ b # "run" =>
                Running' = Running /\ (RunOnce => RunOnce')
           /\ threads[h].at # "run" /\ b = "run" =>
                Running' = Running \cup {t} /\ (RunOnce /\ t \notin Running => RunOnce')
           /\ threads[h].at = "run" /\ b # "run" /\ RunOnce =>
                Running' = Running \ {threads[h].task} /\ RunOnce'
<1>1. threads' \in [Thread -> ThreadState]
  BY DEF ThreadState
<1>2. /\ threads'[h].at = b /\ threads'[h].task = t
      /\ \A g \in Thread : g # h => threads'[g] = threads[g]
  OBVIOUS
<1>3. \A l : At(l)' = IF l = b THEN At(l) \cup {h} ELSE At(l) \ {h}
  BY <1>2 DEF At
<1>4. ASSUME threads[h].at # "run", b # "run"
      PROVE  Running' = Running /\ (RunOnce => RunOnce')
  <2>1. At("run")' = At("run") /\ h \notin At("run") /\ At("run") \subseteq Thread
    BY <1>3, <1>4 DEF At
  <2> QED
    BY <1>2, <2>1 DEF Running, RunOnce
<1>5. ASSUME threads[h].at # "run", b = "run"
      PROVE  Running' = Running \cup {t} /\ (RunOnce /\ t \notin Running => RunOnce')
  <2>1. At("run")' = At("run") \cup {h} /\ h \notin At("run") /\ At("run") \subseteq Thread
    BY <1>3, <1>5 DEF At
  <2>2. ASSUME NEW x PROVE x \in Running' <=> x \in Running \/ x = t
    BY <1>2, <2>1 DEF Running
  <2> QED
    BY <1>2, <2>1, <2>2 DEF Running, RunOnce
<1>6. ASSUME threads[h].at = "run", b # "run", RunOnce
      PROVE  Running' = Running \ {threads[h].task} /\ RunOnce'
  <2>1. At("run")' = At("run") \ {h} /\ h \in At("run") /\ At("run") \subseteq Thread
    BY <1>3, <1>6 DEF At
  <2>2. ASSUME NEW x PROVE x \in Running' <=> x \in Running /\ x # threads[h].task
    BY <1>2, <1>6, <2>1 DEF Running, RunOnce
  <2> QED
    BY <1>2, <1>6, <2>1, <2>2 DEF Running, RunOnce
<1> QED
  BY <1>1, <1>3, <1>4, <1>5, <1>6

\* The form in which the actions write it.
LEMMA AtChanges ==
    ASSUME threads \in [Thread -> ThreadState], NEW h \in Thread, NEW b
    PROVE  /\ [threads EXCEPT ![h].at = b] =
                [threads EXCEPT ![h] = [at |-> b, task |-> threads[h].task]]
           /\ threads[h].task \in Tasks /\ threads[h].at \in Labels
<1>1. threads[h] \in [at : Labels, task : Tasks]
  BY DEF ThreadState
<1>2. [threads[h] EXCEPT !.at = b] = [at |-> b, task |-> threads[h].task]
  BY <1>1
<1>3. [threads EXCEPT ![h].at = b] = [threads EXCEPT ![h] = [threads[h] EXCEPT !.at = b]]
  OBVIOUS
<1> QED
  BY <1>1, <1>2, <1>3

LEMMA PostEffects ==
    ASSUME TypeOK, NEW t \in Tasks, Post(t)
    PROVE  /\ threads' \in [Thread -> ThreadState]
           /\ Running' = Running /\ (RunOnce => RunOnce')
           /\ At("ended")' = At("ended")
           /\ \/ At("asleep") = {} /\ threads' = threads
              \/ \E h \in At("asleep") :
                    \A l : At(l)' = IF l = "signalled" THEN At(l) \cup {h} ELSE At(l) \ {h}
<1>0. threads \in [Thread -> ThreadState]
  BY DEF TypeOK
<1>1. CASE At("asleep") = {}
  <2>1. threads' = threads
    BY <1>1 DEF Post
  <2> QED
    BY <1>0, <1>1, <2>1 DEF Running, RunOnce, At
<1>2. CASE At("asleep") # {}
  <2>1. PICK h \in At("asleep") : threads' = [threads EXCEPT ![h].at = "signalled"]
    BY <1>2 DEF Post, Signalled
  <2>2. h \in Thread /\ threads[h].at # "run" /\ "signalled" \in Labels
    BY <2>1 DEF At, Labels
  <2>3. /\ threads' = [threads EXCEPT ![h] = [at |-> "signalled", task |-> threads[h].task]]
        /\ threads[h].task \in Tasks
    BY <1>0, <2>1, <2>2, AtChanges
  <2>4. /\ threads' \in [Thread -> ThreadState]
        /\ \A l : At(l)' = IF l = "signalled" THEN At(l) \cup {h} ELSE At(l) \ {h}
        /\ Running' = Running /\ (RunOnce => RunOnce')
    BY <1>0, <2>2, <2>3, ThreadMoves
  <2>5. At("ended")' = At("ended")
    <3>1. h \notin At("ended")
      BY <2>1 DEF At
    <3> QED
      BY <2>4, <3>1
  <2> QED
    BY <2>1, <2>4, <2>5
<1> QED
  BY <1>1, <1>2

LEMMA TakeEffects ==
    ASSUME TypeOK, NEW h \in Thread, threads[h].at # "run", TakeTask(h)
    PROVE  /\ threads' \in [Thread -> ThreadState]
           /\ \/ /\ queue = <<>> /\ queue' = queue
                 /\ Running' = Running /\ (RunOnce => RunOnce')
                 /\ \A l : At(l)' = IF l = "asleep" THEN At(l) \cup {h} ELSE At(l) \ {h}
              \/ /\ queue # <<>> /\ queue' = Tail(queue)
                 /\ Running' = Running \cup {Head(queue)}
                 /\ RunOnce /\ Head(queue) \notin Running => RunOnce'
                 /\ \A l : At(l)' = IF l = "run" THEN At(l) \cup {h} ELSE At(l) \ {h}
<1>0. threads \in [Thread -> ThreadState] /\ queue \in Seq(Tasks)
      /\ "asleep" \in Labels /\ "run" \in Labels
  BY DEF TypeOK, Labels
<1>1. CASE queue = <<>>
  <2>1. threads' = [threads EXCEPT ![h].at = "asleep"] /\ queue' = queue
    BY <1>1 DEF TakeTask
  <2>2. /\ threads' = [threads EXCEPT ![h] = [at |-> "asleep", task |-> threads[h].task]]
        /\ threads[h].task \in Tasks
    BY <1>0, <2>1, AtChanges
  <2>3. /\ threads' \in [Thread -> ThreadState]
        /\ \A l : At(l)' = IF l = "asleep" THEN At(l) \cup {h} ELSE At(l) \ {h}
        /\ Running' = Running /\ (RunOnce => RunOnce')
    BY <1>0, <2>2, ThreadMoves
  <2> QED
    BY <1>1, <2>1, <2>3
<1>2. CASE queue # <<>>
  <2>1. threads' = [threads EXCEPT ![h] = [at |-> "run", task |-> Head(queue)]]
        /\ queue' = Tail(queue)
    BY <1>2 DEF TakeTask
  <2>2. Head(queue) \in Tasks
    BY <1>0, <1>2, TailElements
  <2> QED
    BY <1>0, <1>2, <2>1, <2>2, ThreadMoves
<1> QED
  BY <1>1, <1>2

-----------------------------------------------------------------------------
(* The inductive invariant.                                                *)

\* A task is in one of four places, once, exactly when it is active; so is the
\* exit task.
Placed ==
    /\ NoneTwice(queue) /\ NoneTwice(done) /\ NoneTwice(worker.list) /\ RunOnce
    /\ Elements(queue) \cap Running = {}
    /\ (Elements(queue) \cup Running) \cap Elements(done) = {}
    /\ (Elements(queue) \cup Running \cup Elements(done)) \cap Elements(worker.list) = {}
    /\ {t \in Tasks : active[t]} =
          Elements(queue) \cup Running \cup Elements(done) \cup Elements(worker.list)

\* The worker's list is empty but between the handlers.
Listed == worker.at = "handler" <=> worker.list # <<>>

Owed == \A t \in Task : owed[t] = IF active[t] THEN -1 ELSE 0

\* The worker waits for one exit task at a time, and counts the threads that
\* have ended.
Stopped ==
    /\ active[ExitTask] <=> worker.at = "joining"
    /\ worker.at \in {"loop", "handler"} => At("ended") = {}
    /\ worker.at = "stopping" =>
            worker.left + Cardinality(At("ended")) = Cardinality(Thread)
    /\ worker.at = "joining" =>
            worker.left + Cardinality(At("ended")) + 1 = Cardinality(Thread)
    /\ worker.at = "destroyed" => At("ended") = Thread

PoolInv == TypeOK /\ Placed /\ Listed /\ Owed /\ Stopped

LEMMA PoolInit ==
    ASSUME IsFiniteSet(Thread)
    PROVE  Init => PoolInv
<1> SUFFICES ASSUME Init PROVE PoolInv
  OBVIOUS
<1>1. TypeOK
  <2>1. <<>> \in Seq(Task) /\ <<>> \in Seq(Tasks)
    OBVIOUS
  <2>2. threads \in [Thread -> ThreadState]
    BY DEF Init, ThreadState, Labels, Tasks
  <2>3. worker \in WorkerState
    BY <2>1 DEF Init, WorkerState, Places
  <2>4. active \in [Tasks -> BOOLEAN]
    BY DEF Init
  <2>5. queue \in Seq(Tasks) /\ done \in Seq(Task)
    BY <2>1 DEF Init
  <2>6. waiting \in Int /\ owed \in [Task -> Int]
    BY DEF Init
  <2>7. notified \in BOOLEAN
    BY DEF Init
  <2> QED
    BY <2>2, <2>3, <2>4, <2>5, <2>6, <2>7 DEF TypeOK
<1>2. At("run") = {} /\ At("ended") = {}
  BY DEF Init, At
<1>3. Placed
  BY <1>2, EmptyElements DEF Init, Placed, Running, RunOnce
<1>4. Listed /\ Owed
  BY DEF Init, Listed, Owed, Tasks
<1>5. Stopped
  BY <1>2 DEF Init, Stopped, Tasks
<1> QED
  BY <1>1, <1>3, <1>4, <1>5 DEF PoolInv

LEMMA PostTaskStep ==
    ASSUME ExitTask \notin Task, PoolInv, NEW t \in Task, PostTask(t)
    PROVE  PoolInv'
<1> USE DEF PoolInv
<1>0. /\ queue \in Seq(Tasks) /\ active \in [Tasks -> BOOLEAN] /\ t \in Tasks
      /\ waiting \in Int /\ owed \in [Task -> Int]
  BY DEF TypeOK, Tasks
<1>1. /\ worker.at = "loop" /\ ~active[t] /\ Post(t)
      /\ owed' = [owed EXCEPT ![t] = @ - 1] /\ UNCHANGED <<done, notified, worker>>
  BY DEF PostTask
<1>2. /\ queue' = Append(queue, t) /\ waiting' = waiting + 1
      /\ active' = [active EXCEPT ![t] = TRUE]
  BY <1>1 DEF Post
<1>3. threads' \in [Thread -> ThreadState] /\ Running' = Running /\ (RunOnce => RunOnce')
  BY <1>0, <1>1, PostEffects
<1>4. At("ended")' = At("ended")
  BY <1>0, <1>1, PostEffects
<1>5. t \notin Elements(queue) /\ t \notin Running /\ t \notin Elements(done)
      /\ t \notin Elements(worker.list)
  BY <1>0, <1>1 DEF Placed
<1>6. /\ queue' \in Seq(Tasks) /\ Elements(queue') = Elements(queue) \cup {t}
      /\ NoneTwice(queue')
  BY <1>0, <1>2, <1>5, AppendElements DEF Placed
<1>7. TypeOK'
  BY <1>0, <1>1, <1>2, <1>3, <1>6 DEF TypeOK
<1>8. Placed'
  <2>1. {u \in Tasks : active'[u]} = {u \in Tasks : active[u]} \cup {t}
    BY <1>0, <1>2
  <2> QED
    BY <1>1, <1>3, <1>5, <1>6, <2>1 DEF Placed
<1>9. Listed' /\ Owed'
  <2>1. owed[t] = 0
    BY <1>1 DEF Owed
  <2>2. ASSUME NEW u \in Task PROVE owed'[u] = IF active'[u] THEN -1 ELSE 0
    <3>1. u \in Tasks
      BY DEF Tasks
    <3> QED
      BY <1>0, <1>1, <1>2, <2>1, <3>1 DEF Owed
  <2> QED
    BY <1>1, <2>2 DEF Listed, Owed
<1>10. Stopped'
  <2>1. active'[ExitTask] = active[ExitTask]
    BY <1>0, <1>2 DEF Tasks
  <2> QED
    BY <1>1, <1>4, <2>1 DEF Stopped
<1> QED
  BY <1>7, <1>8, <1>9, <1>10

\* A thread that looks at the queue, from the start of its loop or from its
\* sleep.
LEMMA TakeStep ==
    ASSUME PoolInv, NEW h \in Thread, threads[h].at \notin {"run", "ended"}, TakeTask(h),
           waiting' \in Int, UNCHANGED <<active, done, notified, worker, owed>>
    PROVE  PoolInv'
<1> USE DEF PoolInv
<1>0. queue \in Seq(Tasks) /\ h \notin At("ended")
  BY DEF TypeOK, At
<1>1. threads' \in [Thread -> ThreadState]
  BY TakeEffects
<1>2. Listed' /\ Owed'
  BY DEF Listed, Owed
<1>3. ASSUME At("ended")' = At("ended") \ {h} PROVE Stopped'
  <2>1. At("ended")' = At("ended")
    BY <1>0, <1>3
  <2> QED
    BY <2>1 DEF Stopped
<1>4. CASE /\ queue = <<>> /\ queue' = queue
           /\ Running' = Running /\ (RunOnce => RunOnce')
           /\ \A l : At(l)' = IF l = "asleep" THEN At(l) \cup {h} ELSE At(l) \ {h}
  <2>1. Placed'
    BY <1>4 DEF Placed
  <2>2. TypeOK'
    BY <1>0, <1>1, <1>4 DEF TypeOK
  <2> QED
    BY <1>2, <1>3, <1>4, <2>1, <2>2
<1>5. CASE /\ queue # <<>> /\ queue' = Tail(queue)
           /\ Running' = Running \cup {Head(queue)}
           /\ RunOnce /\ Head(queue) \notin Running => RunOnce'
           /\ \A l : At(l)' = IF l = "run" THEN At(l) \cup {h} ELSE At(l) \ {h}
  <2>1. /\ Head(queue) \in Elements(queue) /\ queue' \in Seq(Tasks) /\ NoneTwice(queue')
        /\ Elements(queue') = Elements(queue) \ {Head(queue)}
    BY <1>0, <1>5, TailElements DEF Placed
  <2>2. Placed'
    BY <1>5, <2>1 DEF Placed
  <2>3. TypeOK'
    BY <1>1, <2>1 DEF TypeOK
  <2> QED
    BY <1>2, <1>3, <1>5, <2>2, <2>3
<1> QED
  BY <1>4, <1>5, TakeEffects

LEMMA RunStep ==
    ASSUME ExitTask \notin Task, PoolInv, NEW h \in Thread, RunTask(h)
    PROVE  PoolInv'
<1> USE DEF PoolInv
<1> DEFINE t == threads[h].task
<1>0. /\ threads \in [Thread -> ThreadState] /\ done \in Seq(Task)
      /\ threads[h].at = "run" /\ "notify" \in Labels /\ h \notin At("ended")
      /\ t \in Task /\ t \in Tasks /\ t \in Running
  BY DEF TypeOK, RunTask, Labels, At, Running, ThreadState, Tasks
<1>1. /\ done' = Append(done, t)
      /\ threads' = [threads EXCEPT ![h] = [at |-> "notify", task |-> t]]
      /\ UNCHANGED <<queue, waiting, active, notified, worker, owed>>
  BY <1>0, AtChanges DEF RunTask
<1>2. /\ threads' \in [Thread -> ThreadState]
      /\ At("ended")' = At("ended") \ {h}
      /\ Running' = Running \ {t} /\ RunOnce'
  <2>1. RunOnce /\ "notify" # "run" /\ "notify" # "ended"
    BY DEF Placed
  <2>2. /\ threads' \in [Thread -> ThreadState]
        /\ \A l : At(l)' = IF l = "notify" THEN At(l) \cup {h} ELSE At(l) \ {h}
        /\ Running' = Running \ {t} /\ RunOnce'
    BY <1>0, <1>1, <2>1, ThreadMoves
  <2> QED
    BY <2>1, <2>2
<1> HIDE DEF t
<1>3. t \notin Elements(done)
  BY <1>0 DEF Placed
<1>4. /\ done' \in Seq(Task) /\ Elements(done') = Elements(done) \cup {t}
      /\ NoneTwice(done')
  BY <1>0, <1>1, <1>3, AppendElements DEF Placed
<1>5. Placed'
  BY <1>0, <1>1, <1>2, <1>4 DEF Placed
<1>6. TypeOK' /\ Listed' /\ Owed'
  BY <1>1, <1>2, <1>4 DEF TypeOK, Listed, Owed
<1>7. Stopped'
  <2>1. At("ended")' = At("ended")
    BY <1>0, <1>2
  <2> QED
    BY <1>1, <2>1 DEF Stopped
<1> QED
  BY <1>5, <1>6, <1>7

LEMMA NotifyStep ==
    ASSUME PoolInv, NEW h \in Thread, Notify(h)
    PROVE  PoolInv'
<1> USE DEF PoolInv
<1>0. /\ threads \in [Thread -> ThreadState] /\ threads[h].at # "run"
      /\ "start" \in Labels /\ h \notin At("ended")
  BY DEF TypeOK, Notify, Labels, At
<1>1. /\ threads' = [threads EXCEPT ![h] = [at |-> "start", task |-> threads[h].task]]
      /\ threads[h].task \in Tasks
  BY <1>0, AtChanges DEF Notify
<1>2. /\ notified' = TRUE
      /\ UNCHANGED <<queue, waiting, active, done, worker, owed>>
  BY DEF Notify
<1>3. /\ threads' \in [Thread -> ThreadState]
      /\ At("ended")' = At("ended") \ {h}
      /\ Running' = Running /\ (RunOnce => RunOnce')
  <2>1. /\ threads' \in [Thread -> ThreadState]
        /\ \A l : At(l)' = IF l = "start" THEN At(l) \cup {h} ELSE At(l) \ {h}
        /\ Running' = Running /\ (RunOnce => RunOnce')
    BY <1>0, <1>1, ThreadMoves
  <2> QED
    BY <2>1
<1>4. At("ended")' = At("ended")
  BY <1>0, <1>3
<1>5. TypeOK' /\ Listed' /\ Owed'
  BY <1>2, <1>3 DEF TypeOK, Listed, Owed
<1>6. Placed' /\ Stopped'
  BY <1>2, <1>3, <1>4 DEF Placed, Stopped
<1> QED
  BY <1>5, <1>6

\* How the actions write a change of the worker's state.
LEMMA WorkerMoves ==
    ASSUME worker \in WorkerState, NEW a \in Places,
           worker' = [worker EXCEPT !.at = a]
    PROVE  /\ worker' \in WorkerState /\ worker'.at = a
           /\ worker'.list = worker.list /\ worker'.left = worker.left
BY DEF WorkerState

LEMMA WorkerLists ==
    ASSUME worker \in WorkerState, NEW a \in Places, NEW l \in Seq(Task),
           worker' = [worker EXCEPT !.at = a, !.list = l]
    PROVE  /\ worker' \in WorkerState /\ worker'.at = a
           /\ worker'.list = l /\ worker'.left = worker.left
BY DEF WorkerState

LEMMA WorkerCounts ==
    ASSUME worker \in WorkerState, NEW a \in Places, NEW n \in Nat,
           worker' = [worker EXCEPT !.at = a, !.left = n]
    PROVE  /\ worker' \in WorkerState /\ worker'.at = a
           /\ worker'.list = worker.list /\ worker'.left = n
BY DEF WorkerState

LEMMA ExitStep ==
    ASSUME IsFiniteSet(Thread), ExitTask \notin Task, PoolInv, NEW h \in Thread, Exit(h)
    PROVE  PoolInv'
<1> USE DEF PoolInv
<1>0. /\ threads \in [Thread -> ThreadState] /\ threads[h].at = "run"
      /\ "ended" \in Labels /\ h \notin At("ended") /\ h \in At("run")
      /\ threads[h].task = ExitTask /\ ExitTask \in Tasks
      /\ active \in [Tasks -> BOOLEAN] /\ worker \in WorkerState
  BY DEF TypeOK, Exit, Labels, At, Tasks
<1>1. threads' = [threads EXCEPT ![h] = [at |-> "ended", task |-> ExitTask]]
  BY <1>0, AtChanges DEF Exit
<1>2. /\ active' = [active EXCEPT ![ExitTask] = FALSE]
      /\ UNCHANGED <<queue, waiting, done, notified, owed>>
  BY DEF Exit
<1>3. ExitTask \in Running
  BY <1>0 DEF Running
<1>4. active[ExitTask] /\ worker.at = "joining"
  BY <1>0, <1>3 DEF Placed, Stopped
<1>5. /\ worker' \in WorkerState /\ worker'.at = "stopping"
      /\ worker'.list = worker.list /\ worker'.left = worker.left
  <2>1. "stopping" \in Places
    BY DEF Places
  <2>2. worker' = [worker EXCEPT !.at = "stopping"]
    BY DEF Exit
  <2> QED
    BY <1>0, <2>1, <2>2, WorkerMoves
<1>6. RunOnce
  BY DEF Placed
<1>7. /\ threads' \in [Thread -> ThreadState]
      /\ \A l : At(l)' = IF l = "ended" THEN At(l) \cup {h} ELSE At(l) \ {h}
      /\ Running' = Running \ {ExitTask} /\ RunOnce'
  BY <1>0, <1>1, <1>6, ThreadMoves
<1>8. At("ended")' = At("ended") \cup {h}
  BY <1>7
<1>9. /\ Cardinality(At("ended")) \in Nat
      /\ Cardinality(At("ended")') = Cardinality(At("ended")) + 1
  <2>1. IsFiniteSet(At("ended"))
    BY FS_Subset DEF At
  <2> QED
    BY <1>0, <1>8, <2>1, FS_AddElement, FS_CardinalityType
<1>10. TypeOK'
  BY <1>0, <1>2, <1>5, <1>7 DEF TypeOK
<1>11. Placed'
  <2>1. {u \in Tasks : active'[u]} = {u \in Tasks : active[u]} \ {ExitTask}
    BY <1>0, <1>2
  <2>2. /\ ExitTask \notin Elements(queue) /\ ExitTask \notin Elements(done)
        /\ ExitTask \notin Elements(worker.list)
    BY <1>3 DEF Placed
  <2> QED
    BY <1>2, <1>5, <1>7, <2>1, <2>2 DEF Placed
<1>12. Listed' /\ Owed'
  <2>1. Listed'
    BY <1>4, <1>5 DEF Listed
  <2>2. ASSUME NEW u \in Task PROVE active'[u] = active[u]
    BY <1>0, <1>2 DEF Tasks
  <2> QED
    BY <1>2, <2>1, <2>2 DEF Owed
<1>13. Stopped'
  <2>1. active'[ExitTask] = FALSE
    BY <1>0, <1>2
  <2>2. worker.left + Cardinality(At("ended")) + 1 = Cardinality(Thread)
    BY <1>4 DEF Stopped
  <2>3. worker.left \in Nat
    BY <1>0 DEF WorkerState
  <2>4. worker'.left + Cardinality(At("ended")') = Cardinality(Thread)
    BY <1>5, <1>9, <2>2, <2>3
  <2> QED
    BY <1>5, <2>1, <2>4 DEF Stopped
<1> QED
  BY <1>10, <1>11, <1>12, <1>13

LEMMA HandlerStep ==
    ASSUME PoolInv, Handler
    PROVE  PoolInv'
<1> USE DEF PoolInv
<1>0. worker \in WorkerState /\ done \in Seq(Task) /\ worker.at = "loop"
  BY DEF TypeOK, Handler
<1>1. notified' = FALSE /\ done' = <<>> /\ UNCHANGED <<queue, waiting, threads, active, owed>>
  BY DEF Handler
<1>2. /\ worker' \in WorkerState /\ worker'.list = done
      /\ worker'.at = IF done = <<>> THEN "loop" ELSE "handler"
  <2> DEFINE a == IF done = <<>> THEN "loop" ELSE "handler"
  <2>1. a \in Places
    BY DEF Places
  <2>2. worker' = [worker EXCEPT !.at = a, !.list = done]
    BY DEF Handler
  <2> HIDE DEF a
  <2>3. worker' \in WorkerState /\ worker'.list = done /\ worker'.at = a
    BY <1>0, <2>1, <2>2, WorkerLists
  <2> QED
    BY <2>3 DEF a
<1>3. worker.list = <<>> /\ Elements(worker.list) = {} /\ Elements(done') = {}
      /\ NoneTwice(done')
  BY <1>0, <1>1, EmptyElements DEF Listed
<1>4. At("ended")' = At("ended") /\ Running' = Running /\ (RunOnce => RunOnce')
  BY <1>1 DEF At, Running, RunOnce
<1>5. Placed'
  BY <1>1, <1>2, <1>3, <1>4 DEF Placed
<1>6. TypeOK'
  <2>1. done' \in Seq(Task)
    BY <1>1
  <2>2. notified' \in BOOLEAN
    BY <1>1
  <2> QED
    BY <1>1, <1>2, <2>1, <2>2 DEF TypeOK
<1>7. Listed' /\ Owed'
  BY <1>1, <1>2 DEF Listed, Owed
<1>8. Stopped'
  BY <1>0, <1>1, <1>2, <1>4 DEF Stopped
<1> QED
  BY <1>5, <1>6, <1>7, <1>8

LEMMA CompletedStep ==
    ASSUME ExitTask \notin Task, PoolInv, Completed
    PROVE  PoolInv'
<1> USE DEF PoolInv
<1> DEFINE t == Head(worker.list)
           rest == Tail(worker.list)
<1>0. /\ worker \in WorkerState /\ worker.at = "handler" /\ worker.list # <<>>
      /\ queue \in Seq(Tasks) /\ active \in [Tasks -> BOOLEAN] /\ waiting \in Int
      /\ owed \in [Task -> Int]
  BY DEF TypeOK, Completed, Listed
<1>1. worker.list \in Seq(Task)
  BY <1>0 DEF WorkerState
<1>2. /\ t \in Task /\ rest \in Seq(Task) /\ t \in Elements(worker.list)
      /\ Elements(rest) = Elements(worker.list) \ {t} /\ NoneTwice(rest)
  BY <1>0, <1>1, TailElements DEF Placed
<1>3. worker' = [worker EXCEPT !.at = IF rest = <<>> THEN "loop" ELSE "handler",
                               !.list = rest]
      /\ UNCHANGED <<done, notified>>
  BY DEF Completed
<1>4. \/ /\ active' = [active EXCEPT ![t] = FALSE] /\ owed' = [owed EXCEPT ![t] = @ + 1]
         /\ UNCHANGED <<queue, waiting, threads>>
      \/ Post(t) /\ UNCHANGED owed
  BY DEF Completed
<1> HIDE DEF t, rest
<1>5. /\ worker' \in WorkerState /\ worker'.list = rest
      /\ worker'.at = IF rest = <<>> THEN "loop" ELSE "handler"
  <2> DEFINE a == IF rest = <<>> THEN "loop" ELSE "handler"
  <2>1. a \in Places
    BY DEF Places
  <2>2. worker' = [worker EXCEPT !.at = a, !.list = rest]
    BY <1>3
  <2> HIDE DEF a
  <2>3. worker' \in WorkerState /\ worker'.list = rest /\ worker'.at = a
    BY <1>0, <1>2, <2>1, <2>2, WorkerLists
  <2> QED
    BY <2>3 DEF a
<1>6. /\ t \in Tasks /\ t # ExitTask /\ active[t]
      /\ t \notin Elements(queue) /\ t \notin Running /\ t \notin Elements(done)
  <2>1. t \in Tasks
    BY <1>2 DEF Tasks
  <2> QED
    BY <1>2, <2>1 DEF Placed
<1>7. Listed'
  BY <1>5 DEF Listed
<1>8. ASSUME At("ended")' = At("ended"), active'[ExitTask] = active[ExitTask]
      PROVE  Stopped'
  BY <1>0, <1>5, <1>8 DEF Stopped
<1>9. CASE /\ active' = [active EXCEPT ![t] = FALSE] /\ owed' = [owed EXCEPT ![t] = @ + 1]
           /\ UNCHANGED <<queue, waiting, threads>>
  <2>1. At("ended")' = At("ended") /\ Running' = Running /\ (RunOnce => RunOnce')
    BY <1>9 DEF At, Running, RunOnce
  <2>2. {u \in Tasks : active'[u]} = {u \in Tasks : active[u]} \ {t}
    BY <1>0, <1>9
  <2>3. Placed'
    BY <1>2, <1>3, <1>5, <1>6, <1>9, <2>1, <2>2 DEF Placed
  <2>4. TypeOK'
    <3>1. active' \in [Tasks -> BOOLEAN]
      BY <1>0, <1>9
    <3>2. owed' \in [Task -> Int]
      BY <1>0, <1>2, <1>9
    <3> QED
      BY <1>3, <1>5, <1>9, <3>1, <3>2 DEF TypeOK
  <2>5. owed[t] = -1
    BY <1>2, <1>6 DEF Owed
  <2>6. ASSUME NEW u \in Task PROVE owed'[u] = IF active'[u] THEN -1 ELSE 0
    <3>1. u \in Tasks
      BY DEF Tasks
    <3> QED
      BY <1>0, <1>9, <2>5, <3>1 DEF Owed
  <2>7. active'[ExitTask] = active[ExitTask]
    BY <1>0, <1>6, <1>9 DEF Tasks
  <2> QED
    BY <1>7, <1>8, <2>1, <2>3, <2>4, <2>6, <2>7 DEF Owed
<1>10. CASE Post(t) /\ UNCHANGED owed
  <2>1. /\ queue' = Append(queue, t) /\ waiting' = waiting + 1
        /\ active' = [active EXCEPT ![t] = TRUE]
    BY <1>10 DEF Post
  <2>2. active' = active
    BY <1>0, <1>6, <2>1
  <2>3. /\ threads' \in [Thread -> ThreadState] /\ Running' = Running
        /\ (RunOnce => RunOnce') /\ At("ended")' = At("ended")
    BY <1>6, <1>10, PostEffects
  <2>4. /\ queue' \in Seq(Tasks) /\ Elements(queue') = Elements(queue) \cup {t}
        /\ NoneTwice(queue')
    BY <1>0, <1>6, <2>1, AppendElements DEF Placed
  <2>5. Placed'
    BY <1>2, <1>3, <1>5, <1>6, <2>2, <2>3, <2>4 DEF Placed
  <2>6. TypeOK'
    BY <1>0, <1>3, <1>5, <1>10, <2>1, <2>2, <2>3, <2>4 DEF TypeOK
  <2>7. Owed'
    BY <1>10, <2>2 DEF Owed
  <2> QED
    BY <1>7, <1>8, <2>2, <2>3, <2>5, <2>6, <2>7
<1> QED
  BY <1>4, <1>9, <1>10

\* The worker changes its own state only.
LEMMA DestroyStep ==
    ASSUME IsFiniteSet(Thread), PoolInv, Destroy
    PROVE  PoolInv'
<1> USE DEF PoolInv
<1>0. worker \in WorkerState /\ worker.at = "loop" /\ "stopping" \in Places
      /\ Cardinality(Thread) \in Nat
  BY FS_CardinalityType DEF TypeOK, Destroy, Places
<1>1. worker' = [worker EXCEPT !.at = "stopping", !.left = Cardinality(Thread)]
      /\ UNCHANGED <<queue, waiting, threads, active, done, notified, owed>>
  BY DEF Destroy
<1>2. /\ worker' \in WorkerState /\ worker'.at = "stopping"
      /\ worker'.list = worker.list /\ worker'.left = Cardinality(Thread)
  BY <1>0, <1>1, WorkerCounts
<1>3. At("ended")' = At("ended") /\ Running' = Running /\ (RunOnce => RunOnce')
  BY <1>1 DEF At, Running, RunOnce
<1>4. Cardinality(At("ended")') = 0
  BY <1>0, <1>3, FS_EmptySet DEF Stopped
<1>5. TypeOK' /\ Placed'
  BY <1>1, <1>2, <1>3 DEF TypeOK, Placed
<1>6. Listed' /\ Owed'
  BY <1>0, <1>1, <1>2 DEF Listed, Owed
<1>7. Stopped'
  BY <1>0, <1>1, <1>2, <1>4 DEF Stopped
<1> QED
  BY <1>5, <1>6, <1>7

LEMMA StopLastStep ==
    ASSUME IsFiniteSet(Thread), PoolInv, StopLast
    PROVE  PoolInv'
<1> USE DEF PoolInv
<1>0. /\ worker \in WorkerState /\ worker.at = "stopping" /\ worker.left = 0
      /\ "destroyed" \in Places
  BY DEF TypeOK, StopLast, Places
<1>1. worker' = [worker EXCEPT !.at = "destroyed"]
      /\ UNCHANGED <<queue, waiting, threads, active, done, notified, owed>>
  BY DEF StopLast
<1>2. worker' \in WorkerState /\ worker'.at = "destroyed" /\ worker'.list = worker.list
  BY <1>0, <1>1, WorkerMoves
<1>3. At("ended")' = At("ended") /\ Running' = Running /\ (RunOnce => RunOnce')
  BY <1>1 DEF At, Running, RunOnce
<1>4. At("ended") = Thread
  <2>1. At("ended") \subseteq Thread
    BY DEF At
  <2>2. Cardinality(At("ended")) \in Nat
    BY <2>1, FS_Subset, FS_CardinalityType
  <2>3. Cardinality(At("ended")) = Cardinality(Thread)
    BY <1>0, <2>2 DEF Stopped
  <2> QED
    BY <2>1, <2>3, FS_Subset
<1>5. TypeOK' /\ Placed'
  BY <1>1, <1>2, <1>3 DEF TypeOK, Placed
<1>6. Listed' /\ Owed'
  BY <1>0, <1>1, <1>2 DEF Listed, Owed
<1>7. Stopped'
  BY <1>0, <1>1, <1>2, <1>3, <1>4 DEF Stopped
<1> QED
  BY <1>5, <1>6, <1>7

LEMMA StopOneStep ==
    ASSUME IsFiniteSet(Thread), ExitTask \notin Task, PoolInv, StopOne
    PROVE  PoolInv'
<1> USE DEF PoolInv
<1>0. /\ worker \in WorkerState /\ worker.at = "stopping"
      /\ "gave up" \in Places /\ "joining" \in Places
      /\ queue \in Seq(Tasks) /\ active \in [Tasks -> BOOLEAN] /\ ExitTask \in Tasks
  BY DEF TypeOK, StopOne, Places, Tasks
<1>1. worker.left \in Nat \ {0} /\ waiting \in Int
  <2>1. worker.left \in Nat /\ waiting \in Int
    BY DEF TypeOK, WorkerState
  <2>2. worker.left > 0
    BY DEF StopOne
  <2> QED
    BY <2>1, <2>2
<1>2. UNCHANGED <<done, notified, owed>>
  BY DEF StopOne
<1>3. ~active[ExitTask]
  BY <1>0 DEF Stopped
<1>4. CASE Overflow
  <2>1. worker' = [worker EXCEPT !.at = "gave up"]
        /\ UNCHANGED <<queue, waiting, threads, active>>
    BY <1>4 DEF StopOne
  <2>2. worker' \in WorkerState /\ worker'.at = "gave up" /\ worker'.list = worker.list
    BY <1>0, <2>1, WorkerMoves
  <2>3. Running' = Running /\ (RunOnce => RunOnce')
    BY <2>1 DEF At, Running, RunOnce
  <2>4. TypeOK' /\ Placed'
    BY <1>2, <2>1, <2>2, <2>3 DEF TypeOK, Placed
  <2>5. Listed' /\ Owed' /\ Stopped'
    BY <1>0, <1>2, <1>3, <2>1, <2>2 DEF Listed, Owed, Stopped
  <2> QED
    BY <2>4, <2>5
<1>5. CASE ~Overflow
  <2>0. worker' = [worker EXCEPT !.at = "joining", !.left = worker.left - 1]
        /\ Post(ExitTask)
    BY <1>5 DEF StopOne
  <2>1. /\ queue' = Append(queue, ExitTask) /\ waiting' = waiting + 1
        /\ active' = [active EXCEPT ![ExitTask] = TRUE]
    BY <2>0 DEF Post
  <2>2. /\ worker' \in WorkerState /\ worker'.at = "joining"
        /\ worker'.list = worker.list /\ worker'.left = worker.left - 1
    <3>1. worker.left - 1 \in Nat
      BY <1>1
    <3> QED
      BY <1>0, <2>0, <3>1, WorkerCounts
  <2>3. /\ threads' \in [Thread -> ThreadState] /\ Running' = Running
        /\ (RunOnce => RunOnce') /\ At("ended")' = At("ended")
    BY <1>0, <2>0, PostEffects
  <2>4. /\ ExitTask \notin Elements(queue) /\ ExitTask \notin Running
        /\ ExitTask \notin Elements(done) /\ ExitTask \notin Elements(worker.list)
    BY <1>0, <1>3 DEF Placed
  <2>5. /\ queue' \in Seq(Tasks) /\ Elements(queue') = Elements(queue) \cup {ExitTask}
        /\ NoneTwice(queue')
    BY <1>0, <2>1, <2>4, AppendElements DEF Placed
  <2>6. TypeOK'
    <3>1. active' \in [Tasks -> BOOLEAN]
      BY <1>0, <2>1
    <3>2. waiting' \in Int
      BY <1>1, <2>1
    <3> QED
      BY <1>2, <2>2, <2>3, <2>5, <3>1, <3>2 DEF TypeOK
  <2>7. Placed'
    <3>1. {u \in Tasks : active'[u]} = {u \in Tasks : active[u]} \cup {ExitTask}
      BY <1>0, <2>1
    <3> QED
      BY <1>2, <2>2, <2>3, <2>4, <2>5, <3>1 DEF Placed
  <2>8. Listed' /\ Owed'
    <3>1. ASSUME NEW u \in Task PROVE active'[u] = active[u]
      BY <1>0, <2>1 DEF Tasks
    <3> QED
      BY <1>0, <1>2, <2>2, <3>1 DEF Listed, Owed
  <2>9. Stopped'
    <3>1. active'[ExitTask]
      BY <1>0, <2>1
    <3>2. Cardinality(At("ended")) \in Nat
      BY FS_Subset, FS_CardinalityType DEF At
    <3>3. worker.left + Cardinality(At("ended")) = Cardinality(Thread)
      BY <1>0 DEF Stopped
    <3>4. worker'.left + Cardinality(At("ended")) + 1 = Cardinality(Thread)
      BY <1>1, <2>2, <3>2, <3>3
    <3> QED
      BY <2>2, <2>3, <3>1, <3>4 DEF Stopped
  <2> QED
    BY <2>6, <2>7, <2>8, <2>9
<1> QED
  BY <1>4, <1>5

LEMMA PoolStep ==
    ASSUME IsFiniteSet(Thread), ExitTask \notin Task, PoolInv, [Next]_vars
    PROVE  PoolInv'
<1>1. CASE \E t \in Task : PostTask(t)
  BY <1>1, PostTaskStep
<1>2. ASSUME NEW h \in Thread, Start(h) PROVE PoolInv'
  <2>1. threads[h].at \notin {"run", "ended"} /\ TakeTask(h) /\ waiting' = waiting - 1
        /\ UNCHANGED <<active, done, notified, worker, owed>>
    BY <1>2 DEF Start
  <2>2. waiting' \in Int
    BY <2>1 DEF PoolInv, TypeOK
  <2> QED
    BY <2>1, <2>2, TakeStep
<1>3. ASSUME NEW h \in Thread, WakeUp(h) PROVE PoolInv'
  <2>1. threads[h].at \notin {"run", "ended"} /\ TakeTask(h) /\ waiting' = waiting
        /\ UNCHANGED <<active, done, notified, worker, owed>>
    BY <1>3 DEF WakeUp
  <2>2. waiting' \in Int
    BY <2>1 DEF PoolInv, TypeOK
  <2> QED
    BY <2>1, <2>2, TakeStep
<1>4. CASE \E h \in Thread : ThreadStep(h) \/ WakeUp(h)
  BY <1>2, <1>3, <1>4, RunStep, NotifyStep, ExitStep DEF ThreadStep
<1>5. CASE WorkerStep \/ Destroy
  BY <1>5, HandlerStep, CompletedStep, StopOneStep, StopLastStep, DestroyStep DEF WorkerStep
<1>6. CASE UNCHANGED vars
  <2>1. /\ UNCHANGED <<queue, waiting, threads, active>>
        /\ UNCHANGED <<done, notified, worker, owed>>
    BY <1>6 DEF vars
  <2>2. Running' = Running /\ (RunOnce => RunOnce') /\ At("ended")' = At("ended")
    BY <2>1 DEF Running, RunOnce, At
  <2>3. TypeOK' /\ Listed' /\ Owed'
    BY <2>1 DEF PoolInv, TypeOK, Listed, Owed
  <2>4. Placed' /\ Stopped'
    BY <2>1, <2>2 DEF PoolInv, Placed, Stopped
  <2> QED
    BY <2>3, <2>4 DEF PoolInv
<1> QED
  BY <1>1, <1>4, <1>5, <1>6 DEF Next

-----------------------------------------------------------------------------
(* The counters.                                                           *)

Resting == At("asleep") \cup At("signalled")
Coming == At("signalled") \cup At("start") \cup At("notify")
Counted == WaitingCounts /\ NoIdleThread

LEMMA CountsAreNumbers ==
    ASSUME IsFiniteSet(Thread), threads \in [Thread -> ThreadState]
    PROVE  /\ IsFiniteSet(Resting) /\ Cardinality(Resting) \in Nat
           /\ IsFiniteSet(Coming) /\ Cardinality(Coming) \in Nat
<1>1. Resting \subseteq Thread /\ Coming \subseteq Thread
  BY DEF Resting, Coming, At
<1> QED
  BY <1>1, FS_Subset, FS_CardinalityType

LEMMA PostCounts ==
    ASSUME IsFiniteSet(Thread), TypeOK, Counted, NEW t \in Tasks, Post(t)
    PROVE  Counted'
<1>0. /\ IsFiniteSet(Resting) /\ Cardinality(Resting) \in Nat
      /\ IsFiniteSet(Coming) /\ Cardinality(Coming) \in Nat
      /\ waiting \in Int /\ queue \in Seq(Tasks)
  BY CountsAreNumbers DEF TypeOK
<1>1. waiting' = waiting + 1 /\ queue' = Append(queue, t)
  BY DEF Post
<1>2. Len(queue) \in Nat /\ Len(queue') = Len(queue) + 1
  BY <1>0, <1>1
<1>3. waiting = Len(queue) - Cardinality(Resting)
  BY DEF Counted, WaitingCounts, Resting
<1>4. CASE At("asleep") = {} /\ threads' = threads
  <2>1. Resting' = Resting /\ At("asleep")' = {}
    BY <1>4 DEF Resting, At
  <2>2. waiting' = Len(queue') - Cardinality(Resting')
    BY <1>0, <1>1, <1>2, <1>3, <2>1
  <2> QED
    BY <2>1, <2>2 DEF Counted, WaitingCounts, NoIdleThread, Resting
<1>5. ASSUME NEW h \in At("asleep"),
             \A l : At(l)' = IF l = "signalled" THEN At(l) \cup {h} ELSE At(l) \ {h}
      PROVE  Counted'
  <2>1. /\ At("asleep")' = At("asleep") \ {h} /\ At("signalled")' = At("signalled") \cup {h}
        /\ At("start")' = At("start") \ {h} /\ At("notify")' = At("notify") \ {h}
    BY <1>5
  <2>2. h \notin Coming /\ h \notin At("start") /\ h \notin At("notify")
    BY DEF At, Coming
  <2>3. Resting' = Resting /\ Coming' = Coming \cup {h}
    BY <2>1, <2>2 DEF Resting, Coming
  <2>4. Cardinality(Coming') = Cardinality(Coming) + 1
    BY <1>0, <2>2, <2>3, FS_AddElement
  <2>5. Len(queue) <= Cardinality(Coming)
    BY DEF Counted, NoIdleThread, Coming
  <2>6. waiting' = Len(queue') - Cardinality(Resting')
    BY <1>0, <1>1, <1>2, <1>3, <2>3
  <2>7. Len(queue') <= Cardinality(Coming')
    BY <1>0, <1>2, <2>4, <2>5
  <2> QED
    BY <2>6, <2>7 DEF Counted, WaitingCounts, NoIdleThread, Resting, Coming
<1> QED
  BY <1>4, <1>5, PostEffects

\* A thread leaves its wait by taking a task, or goes (back) to sleep.
LEMMA TakeCounts ==
    ASSUME IsFiniteSet(Thread), TypeOK, Counted, NEW h \in Thread, TakeTask(h),
           \/ threads[h].at = "start" /\ waiting' = waiting - 1
           \/ threads[h].at \in {"signalled", "asleep"} /\ waiting' = waiting
    PROVE  Counted'
<1>0. /\ IsFiniteSet(Resting) /\ Cardinality(Resting) \in Nat
      /\ IsFiniteSet(Coming) /\ Cardinality(Coming) \in Nat
      /\ waiting \in Int /\ queue \in Seq(Tasks)
  BY CountsAreNumbers DEF TypeOK
<1>1. waiting = Len(queue) - Cardinality(Resting)
  BY DEF Counted, WaitingCounts, Resting
<1>2. /\ h \in Resting <=> threads[h].at # "start"
      /\ h \in Coming <=> threads[h].at # "asleep"
      /\ h \in At("asleep") <=> threads[h].at = "asleep"
      /\ threads[h].at \in {"start", "signalled", "asleep"}
  BY DEF Resting, Coming, At
<1>3. CASE /\ queue = <<>> /\ queue' = queue
           /\ \A l : At(l)' = IF l = "asleep" THEN At(l) \cup {h} ELSE At(l) \ {h}
  <2>1. /\ At("asleep")' = At("asleep") \cup {h} /\ At("signalled")' = At("signalled") \ {h}
    BY <1>3
  <2>2. Resting' = Resting \cup {h}
    BY <2>1 DEF Resting
  <2>3. Cardinality(Resting') =
            IF threads[h].at = "start" THEN Cardinality(Resting) + 1 ELSE Cardinality(Resting)
    BY <1>0, <1>2, <2>2, FS_AddElement
  <2>4. waiting' = Len(queue') - Cardinality(Resting')
    BY <1>0, <1>1, <1>2, <1>3, <2>3
  <2>5. Cardinality(Coming') \in Nat
    <3>1. Coming' \subseteq Thread
      BY DEF Coming, At
    <3> QED
      BY <3>1, FS_Subset, FS_CardinalityType
  <2> QED
    BY <1>3, <2>4, <2>5 DEF Counted, WaitingCounts, NoIdleThread, Resting, Coming
<1>4. CASE /\ queue # <<>> /\ queue' = Tail(queue)
           /\ \A l : At(l)' = IF l = "run" THEN At(l) \cup {h} ELSE At(l) \ {h}
  <2>1. /\ At("asleep")' = At("asleep") \ {h} /\ At("signalled")' = At("signalled") \ {h}
        /\ At("start")' = At("start") \ {h} /\ At("notify")' = At("notify") \ {h}
    BY <1>4
  <2>2. Resting' = Resting \ {h} /\ Coming' = Coming \ {h}
    BY <2>1 DEF Resting, Coming
  <2>3. Len(queue) \in Nat \ {0} /\ Len(queue') = Len(queue) - 1
    BY <1>0, <1>4, TailElements
  <2>4. Cardinality(Resting') =
            IF threads[h].at = "start" THEN Cardinality(Resting) ELSE Cardinality(Resting) - 1
    BY <1>0, <1>2, <2>2, FS_RemoveElement
  <2>5. Cardinality(Coming') =
            IF threads[h].at = "asleep" THEN Cardinality(Coming) ELSE Cardinality(Coming) - 1
    BY <1>0, <1>2, <2>2, FS_RemoveElement
  <2>6. waiting' = Len(queue') - Cardinality(Resting')
    BY <1>0, <1>1, <1>2, <2>3, <2>4
  <2>7. ASSUME At("asleep")' # {} PROVE Len(queue') <= Cardinality(Coming')
    <3>1. At("asleep") # {}
      BY <2>1, <2>7
    <3>2. Len(queue) <= Cardinality(Coming)
      BY <3>1 DEF Counted, NoIdleThread, Coming
    <3> QED
      BY <1>0, <2>3, <2>5, <3>2
  <2> QED
    BY <2>6, <2>7 DEF Counted, WaitingCounts, NoIdleThread, Resting, Coming
<1>5. threads[h].at # "run"
  BY <1>2
<1> QED
  BY <1>3, <1>4, <1>5, TakeEffects

\* A thread that comes from running a task.
LEMMA RunCounts ==
    ASSUME IsFiniteSet(Thread), TypeOK, Counted, NEW h \in Thread,
           NEW b \in {"notify", "start", "ended"},
           threads[h].at = "run" \/ (threads[h].at = "notify" /\ b = "start"),
           threads' = [threads EXCEPT ![h].at = b], UNCHANGED <<queue, waiting>>
    PROVE  Counted'
<1>0. /\ threads \in [Thread -> ThreadState] /\ b \in Labels /\ queue \in Seq(Tasks)
  BY DEF TypeOK, Labels
<1>1. /\ threads' = [threads EXCEPT ![h] = [at |-> b, task |-> threads[h].task]]
      /\ threads[h].task \in Tasks
  BY <1>0, AtChanges
<1>2. \A l : At(l)' = IF l = b THEN At(l) \cup {h} ELSE At(l) \ {h}
  BY <1>0, <1>1, ThreadMoves
<1>3. /\ At("asleep")' = At("asleep") \ {h} /\ At("signalled")' = At("signalled") \ {h}
      /\ At("start")' = IF b = "start" THEN At("start") \cup {h} ELSE At("start") \ {h}
      /\ At("notify")' = IF b = "notify" THEN At("notify") \cup {h} ELSE At("notify") \ {h}
  BY <1>2
<1>4. h \notin At("asleep") /\ h \notin At("signalled")
  BY DEF At
<1>5. h \notin At("start") /\ (h \in At("notify") => b = "start")
  BY DEF At
<1>6. Resting' = Resting /\ At("asleep")' = At("asleep") /\ Coming \subseteq Coming'
  BY <1>3, <1>4, <1>5 DEF Resting, Coming
<1>7. Cardinality(Coming) <= Cardinality(Coming') /\ Cardinality(Coming) \in Nat
      /\ Cardinality(Coming') \in Nat /\ Len(queue) \in Nat
  <2>1. Coming' \subseteq Thread /\ Coming \subseteq Thread
    BY DEF Coming, At
  <2>2. IsFiniteSet(Coming') /\ IsFiniteSet(Coming)
    BY <2>1, FS_Subset
  <2> QED
    BY <1>0, <1>6, <2>2, FS_Subset, FS_CardinalityType
<1>8. WaitingCounts'
  BY <1>6 DEF Counted, WaitingCounts, Resting
<1>9. ASSUME At("asleep") # {} PROVE Len(queue) <= Cardinality(Coming')
  <2>1. Len(queue) <= Cardinality(Coming)
    BY <1>9 DEF Counted, NoIdleThread, Coming
  <2> QED
    BY <1>7, <2>1
<1> QED
  BY <1>6, <1>8, <1>9 DEF Counted, NoIdleThread, Coming

LEMMA CountedStep ==
    ASSUME IsFiniteSet(Thread), ExitTask \notin Task, PoolInv, Counted, [Next]_vars
    PROVE  Counted'
<1>0. TypeOK /\ Task \subseteq Tasks /\ ExitTask \in Tasks
  BY DEF PoolInv, Tasks
<1>1. ASSUME UNCHANGED <<queue, waiting, threads>> PROVE Counted'
  BY <1>1 DEF Counted, WaitingCounts, NoIdleThread, At
<1>2. CASE \E t \in Task : PostTask(t)
  BY <1>0, <1>2, PostCounts DEF PostTask
<1>3. ASSUME NEW h \in Thread, Start(h) PROVE Counted'
  BY <1>0, <1>3, TakeCounts DEF Start
<1>4. ASSUME NEW h \in Thread, WakeUp(h) PROVE Counted'
  BY <1>0, <1>4, TakeCounts DEF WakeUp
<1>5. ASSUME NEW h \in Thread, RunTask(h) PROVE Counted'
  BY <1>0, <1>5, RunCounts DEF RunTask
<1>6. ASSUME NEW h \in Thread, Notify(h) PROVE Counted'
  BY <1>0, <1>6, RunCounts DEF Notify
<1>7. ASSUME NEW h \in Thread, Exit(h) PROVE Counted'
  BY <1>0, <1>7, RunCounts DEF Exit
<1>8. CASE Handler \/ Destroy \/ StopLast
  BY <1>1, <1>8 DEF Handler, Destroy, StopLast
<1>9. CASE Completed
  <2>1. Head(worker.list) \in Task
    <3>1. worker.list \in Seq(Task) /\ worker.list # <<>>
      BY <1>0, <1>9 DEF PoolInv, TypeOK, WorkerState, Completed, Listed
    <3> QED
      BY <3>1, TailElements
  <2>2. \/ UNCHANGED <<queue, waiting, threads>>
        \/ Post(Head(worker.list))
    BY <1>9 DEF Completed
  <2> QED
    BY <1>0, <1>1, <2>1, <2>2, PostCounts
<1>10. CASE StopOne
  <2>1. UNCHANGED <<queue, waiting, threads>> \/ Post(ExitTask)
    BY <1>10 DEF StopOne
  <2> QED
    BY <1>0, <1>1, <2>1, PostCounts
<1>11. CASE UNCHANGED vars
  BY <1>1, <1>11 DEF vars
<1> QED
  BY <1>2, <1>3, <1>4, <1>5, <1>6, <1>7, <1>8, <1>9, <1>10, <1>11
     DEF Next, ThreadStep, WorkerStep

-----------------------------------------------------------------------------
(* What follows.                                                           *)

LEMMA TimesInList ==
    ASSUME NEW S, NEW s \in Seq(S), NoneTwice(s), NEW t
    PROVE  Cardinality({i \in DOMAIN s : s[i] = t}) = IF t \in Elements(s) THEN 1 ELSE 0
<1>1. CASE t \in Elements(s)
  <2>1. PICK i \in DOMAIN s : s[i] = t
    BY <1>1 DEF Elements
  <2>2. {j \in DOMAIN s : s[j] = t} = {i}
    BY <2>1 DEF NoneTwice
  <2> QED
    BY <1>1, <2>2, FS_Singleton
<1>2. CASE t \notin Elements(s)
  <2>1. {i \in DOMAIN s : s[i] = t} = {}
    BY <1>2 DEF Elements
  <2> QED
    BY <1>2, <2>1, FS_EmptySet
<1> QED
  BY <1>1, <1>2

LEMMA TimesRunning ==
    ASSUME RunOnce, NEW t
    PROVE  Cardinality({h \in At("run") : threads[h].task = t}) = IF t \in Running THEN 1 ELSE 0
<1>1. CASE t \in Running
  <2>1. PICK g \in At("run") : threads[g].task = t
    BY <1>1 DEF Running
  <2>2. {h \in At("run") : threads[h].task = t} = {g}
    BY <2>1 DEF RunOnce
  <2> QED
    BY <1>1, <2>2, FS_Singleton
<1>2. CASE t \notin Running
  <2>1. {h \in At("run") : threads[h].task = t} = {}
    BY <1>2 DEF Running
  <2> QED
    BY <1>2, <2>1, FS_EmptySet
<1> QED
  BY <1>1, <1>2

LEMMA PlacedOnce ==
    ASSUME PoolInv
    PROVE  OnePlace
<1> SUFFICES ASSUME NEW t \in Task
             PROVE  LET places == Cardinality({i \in DOMAIN queue : queue[i] = t})
                            + Cardinality({h \in At("run") : threads[h].task = t})
                            + Cardinality({i \in DOMAIN done : done[i] = t})
                            + Cardinality({i \in DOMAIN worker.list : worker.list[i] = t})
                    IN  places = (IF active[t] THEN 1 ELSE 0) /\ owed[t] = -places
  BY DEF OnePlace
<1>0. /\ queue \in Seq(Tasks) /\ done \in Seq(Task) /\ worker.list \in Seq(Task)
      /\ t \in Tasks
  BY DEF PoolInv, TypeOK, WorkerState, Tasks
<1> DEFINE q == Cardinality({i \in DOMAIN queue : queue[i] = t})
           r == Cardinality({h \in At("run") : threads[h].task = t})
           d == Cardinality({i \in DOMAIN done : done[i] = t})
           l == Cardinality({i \in DOMAIN worker.list : worker.list[i] = t})
<1>1. q = IF t \in Elements(queue) THEN 1 ELSE 0
  BY <1>0, TimesInList DEF PoolInv, Placed
<1>2. r = IF t \in Running THEN 1 ELSE 0
  BY TimesRunning DEF PoolInv, Placed
<1>3. d = IF t \in Elements(done) THEN 1 ELSE 0
  BY <1>0, TimesInList DEF PoolInv, Placed
<1>4. l = IF t \in Elements(worker.list) THEN 1 ELSE 0
  BY <1>0, TimesInList DEF PoolInv, Placed
<1>5. owed[t] = IF active[t] THEN -1 ELSE 0
  BY DEF PoolInv, Owed
<1>6. /\ active[t] <=> t \in Elements(queue) \cup Running \cup Elements(done)
                            \cup Elements(worker.list)
      /\ t \in Elements(queue) => t \notin Running
      /\ t \in Elements(done) => t \notin Elements(queue) \cup Running
      /\ t \in Elements(worker.list) =>
            t \notin Elements(queue) \cup Running \cup Elements(done)
  BY <1>0 DEF PoolInv, Placed
<1> HIDE DEF q, r, d, l
<1>7. q + r + d + l = IF active[t] THEN 1 ELSE 0
  BY <1>1, <1>2, <1>3, <1>4, <1>6
<1>8. owed[t] = -(q + r + d + l)
  BY <1>5, <1>7
<1> QED
  BY <1>7, <1>8 DEF q, r, d, l

\* For any finite pool and any max_queue, also a negative one: at every moment
\* an active task is in exactly one of the queue, a thread, the list of done
\* tasks and the completion handler's list, tp->waiting is the tasks less the
\* waiting threads, no thread sleeps beside an unattended task, and the mutex is
\* destroyed only when every thread has ended.
THEOREM PoolAccounts ==
    ASSUME IsFiniteSet(Thread), ExitTask \notin Task
    PROVE  Spec => []TasksAccounted
<1>1. Init => PoolInv
  BY PoolInit
<1>2. Init => Counted
  <2> SUFFICES ASSUME Init PROVE Counted
    OBVIOUS
  <2>1. At("asleep") = {} /\ At("signalled") = {}
    BY DEF Init, At
  <2>2. waiting = 0 /\ Len(queue) = 0
    BY DEF Init
  <2> QED
    BY <2>1, <2>2, FS_EmptySet DEF Counted, WaitingCounts, NoIdleThread
<1>3. PoolInv /\ [Next]_vars => PoolInv'
  BY PoolStep
<1>4. PoolInv /\ Counted /\ [Next]_vars => Counted'
  BY CountedStep
<1>5. PoolInv /\ Counted => TasksAccounted
  BY PlacedOnce DEF PoolInv, Counted, Stopped, DestroyedUnused, TasksAccounted
<1> QED
  BY <1>1, <1>2, <1>3, <1>4, <1>5, PTL DEF Spec
=============================================================================

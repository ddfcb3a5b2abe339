----------------------------- MODULE MCProgress -----------------------------
(***************************************************************************)
(* What must eventually happen in nginx, for TLC: the parts of MCProxying  *)
(* and MCServer that have fairness, each on a smaller instance.  A         *)
(* behaviour is one of one part, so that a fairness condition of one part  *)
(* and one of another can be stated as one: the n-th conjunct of Fair is   *)
(* the n-th condition of every part.                                       *)
(***************************************************************************)
EXTENDS MCUpstream

CONSTANTS NoPid, InvalidPid, L, c1, c2, NoConn, h1, h2, task1, task2, ExitTask

VARIABLES
    part,
    master, flags, woken, procs, world, mutex, past,
    cycle, new, stage, kernel, taken, reloads,
    w, outside,
    queue, waiting, threads, active, done, notified, worker, owed,
    p, net

W == INSTANCE Workers
     WITH Pids <- 1..3, NWorkers <- 1, MaxSignals <- 2, MaxFaults <- 1,
          Signals <- {"HUP", "QUIT", "TERM", "WINCH", "USR1", "USR2"}
Y == INSTANCE Cycle
     WITH Addr <- {1, 2}, Zone <- {1}, Size <- {1}, Tries <- 2, MaxReloads <- 2
N == INSTANCE Connections
     WITH Conn <- {L, c1, c2}, Listener <- L, Fraction <- 2, MaxClients <- 2,
          MaxHalves <- 2, MaxFaults <- 1, world <- outside
P == INSTANCE ThreadPool
     WITH Task <- {task1, task2}, Thread <- {h1, h2}, max_queue <- 1
Pipe == INSTANCE EventPipe
        WITH Total <- 4, Lengths <- {-1, 3}, Num <- 2, Size <- 1, BusySize <- 1,
             MaxFile <- 1, FileWrite <- 1, Postpone <- 2

-----------------------------------------------------------------------------

Parts == {"upstream", "workers", "cycle", "connections", "pool", "pipe"}
In(name) == part = name

workerVars == <<master, flags, woken, procs, world, mutex, past>>
cycleVars == <<cycle, new, stage, kernel, taken, reloads>>
connVars == <<w, outside>>
poolVars == <<queue, waiting, threads, active, done, notified, worker, owed>>
pipeVars == <<p, net>>
allVars == <<part, vars, workerVars, cycleVars, connVars, poolVars, pipeVars>>

ProgressInit ==
    /\ part \in Parts
    /\ Init /\ (~In("upstream") => block = CHOOSE x \in Blocks : TRUE)
    /\ Y!Init /\ (~In("cycle") => taken = {})
    /\ N!Init /\ (~In("connections") => w.use_accept_mutex)
    /\ Pipe!Init /\ (~In("pipe") => p.pre = 0 /\ p.length = -1)
    /\ W!Init /\ P!Init

ProgressNext ==
    \/ /\ In("upstream") /\ Next
       /\ UNCHANGED <<part, workerVars, cycleVars, connVars, poolVars, pipeVars>>
    \/ /\ In("workers") /\ W!Next
       /\ UNCHANGED <<part, vars, cycleVars, connVars, poolVars, pipeVars>>
    \/ /\ In("cycle") /\ Y!Next
       /\ UNCHANGED <<part, vars, workerVars, connVars, poolVars, pipeVars>>
    \/ /\ In("connections") /\ N!Next
       /\ UNCHANGED <<part, vars, workerVars, cycleVars, poolVars, pipeVars>>
    \/ /\ In("pool") /\ P!Next
       /\ UNCHANGED <<part, vars, workerVars, cycleVars, connVars, pipeVars>>
    \/ /\ In("pipe") /\ Pipe!Next
       /\ UNCHANGED <<part, vars, workerVars, cycleVars, connVars, poolVars>>

-----------------------------------------------------------------------------
(* Fairness: the pair of what enables a step and the step, as stated in    *)
(* the modules.                                                            *)

\* Weak: the process itself goes on.
Can1 == \/ In("upstream") /\ CanStep(r1)
        \/ In("workers") /\ W!CanTurn
        \/ In("cycle") /\ stage # "idle"
        \/ In("connections") /\ N!CanLoop
        \/ In("pool") /\ P!CanWork
        \/ In("pipe") /\ Pipe!CanStep
Do1 == \/ In("upstream") /\ Step(r1)
       \/ In("workers") /\ W!AnyTurn
       \/ In("cycle") /\ Y!Step
       \/ In("connections") /\ N!Loops
       \/ In("pool") /\ P!WorkerStep
       \/ In("pipe") /\ Pipe!Step

\* Weak: clients come or read, the interval timer rings, a thread runs.
Can2 == \/ In("upstream") /\ CanArrive
        \/ In("workers") /\ W!CanAlarm
        \/ In("pool") /\ P!CanRun(h1)
        \/ In("pipe") /\ Pipe!CanDrain
Do2 == \/ In("upstream") /\ AnyArrives
       \/ In("workers") /\ W!Alarm
       \/ In("pool") /\ P!Run(h1)
       \/ In("pipe") /\ Pipe!Drained

\* Weak: the other thread, and each worker.
Can3 == (In("pool") /\ P!CanRun(h2)) \/ (In("workers") /\ W!CanWork(1))
Do3 == (In("pool") /\ P!Run(h2)) \/ (In("workers") /\ W!WorkerStep(1))
CanWork(n) == In("workers") /\ W!CanWork(n)
DoWork(n) == In("workers") /\ W!WorkerStep(n)

\* Strong: the clock, the commands to each worker, the timer of each connection.
Often(n) == \/ In("upstream") /\ n = 1 /\ CanTick
            \/ In("workers") /\ W!CanHear(n)
            \/ In("connections") /\ N!CanExpire(<<L, c1, c2>>[n])
DoOften(n) == \/ In("upstream") /\ n = 1 /\ Tick
              \/ In("workers") /\ W!WorkerTurn(n)
              \/ In("connections") /\ N!Expires(<<L, c1, c2>>[n])

Fair ==
    /\ <>[]Can1 => []<><<Do1>>_allVars
    /\ <>[]Can2 => []<><<Do2>>_allVars
    /\ <>[]Can3 => []<><<Do3>>_allVars
    /\ \A n \in {2, 3} : <>[]CanWork(n) => []<><<DoWork(n)>>_allVars
    /\ \A n \in 1..3 : []<>Often(n) => []<><<DoOften(n)>>_allVars

ProgressSpec == ProgressInit /\ [][ProgressNext]_allVars /\ Fair

-----------------------------------------------------------------------------
(* Properties, stated in the modules, each of the behaviours of its part.  *)

\* Upstream and EventPipe: every request ends, every server is tried again and
\* every response comes to its end.
RequestsEnd ==
    /\ In("upstream") => Ends /\ Recovers
    /\ In("pipe") => Pipe!ResponseEnds
\* Workers and Cycle: the processes come to what the signals have asked for, and
\* a reload comes to its end.
ProcessesSettle ==
    /\ In("workers") => W!Settles
    /\ In("cycle") => Y!ReloadEnds
\* Connections and ThreadPool: a worker told to quit gets to its end, a client is
\* accepted, a task is completed, and stopping the threads ends.
WorkerFinishes ==
    /\ In("connections") => N!Drains /\ N!Accepted
    /\ In("pool") => P!Completes
=============================================================================

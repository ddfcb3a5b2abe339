------------------------------ MODULE MCServer ------------------------------
(***************************************************************************)
(* The processes of nginx for TLC, in parts that share no state: `shmtx'   *)
(* is the mutex between workers, `workers' the master and its processes,   *)
(* `cycle' a reload in the master, `connections' the event loop of one     *)
(* worker, `pool' its threads, `timers' its timers, `tree' the tree they   *)
(* are in, with more nodes, and `slab' the allocator of a shared zone.  A  *)
(* behaviour is one of one part; the variables of the others stay as they  *)
(* begin.                                                                  *)
(***************************************************************************)
EXTENDS Shmtx, TLC

CONSTANTS
    p1, p2,                \* workers of Shmtx
    NoPid, InvalidPid,
    L, c1, c2, NoConn,     \* connections: a listening socket and two more
    h1, h2, task1, task2, task3, ExitTask

VARIABLES
    part,
    master, flags, woken, procs, world, mutex, past,
    cycle, new, stage, kernel, taken, reloads,
    w, outside,
    queue, waiting, threads, active, done, notified, worker, owed,
    timerTree, now, asked, phase, turns,
    tree,
    pool, live

-----------------------------------------------------------------------------
(* The other modules.                                                      *)

W == INSTANCE Workers
     WITH Pids <- 1..4, NWorkers <- 2, MaxSignals <- 2, MaxFaults <- 1,
          Signals <- {"HUP", "QUIT", "TERM", "WINCH", "USR2"}
Y == INSTANCE Cycle
     WITH Addr <- {1, 2}, Zone <- {1}, Size <- {1, 2}, Tries <- 2, MaxReloads <- 3
N == INSTANCE Connections
     WITH Conn <- {L, c1, c2}, Listener <- L, Fraction <- 2, MaxClients <- 2,
          MaxHalves <- 3, MaxFaults <- 1, world <- outside
P == INSTANCE ThreadPool
     WITH Task <- {task1, task2, task3}, Thread <- {h1, h2}, max_queue <- 1
T == INSTANCE Timers
     WITH Node <- 1..3, Width <- 4, Delays <- {0, 2, 5}, LazyDelay <- 2, MaxStep <- 2,
          MaxTurns <- 2, tree <- timerTree
B == INSTANCE Rbtree WITH Node <- 1..9, Width <- 4
S == INSTANCE Slab
     WITH Pages <- 4, Chunks <- <<3, 2>>, Bitmap <- <<1, 0>>, MaxRun <- 3

\* Any of the nodes is put in the tree or taken out; two have the same key, and
\* the keys overflow.
TreeKey(n) == (13 + n \div 2) % 16
InTree(n) == tree.kid[B!Left][n] # B!Null
TreeNext ==
    \E n \in 1..9 : tree' = IF InTree(n) THEN B!Delete(tree, n) ELSE B!Insert(tree, n, TreeKey(n))

-----------------------------------------------------------------------------

Parts == {"shmtx", "workers", "cycle", "connections", "pool", "timers", "tree", "slab"}

ServerInit ==
    /\ part \in Parts
    /\ Init /\ W!Init /\ P!Init /\ T!Init /\ S!Init /\ tree = B!EmptyTree
    /\ Y!Init /\ (part # "cycle" => taken = {})
    /\ N!Init /\ (part # "connections" => w.use_accept_mutex)

workerVars == <<master, flags, woken, procs, world, mutex, past>>
cycleVars == <<cycle, new, stage, kernel, taken, reloads>>
connVars == <<w, outside>>
poolVars == <<queue, waiting, threads, active, done, notified, worker, owed>>
timerVars == <<timerTree, now, asked, phase, turns>>
slabVars == <<pool, live>>
serverVars ==
    <<part, vars, workerVars, cycleVars, connVars, poolVars, timerVars, tree, slabVars>>

ServerNext ==
    \/ /\ part = "shmtx" /\ Next
       /\ UNCHANGED <<part, workerVars, cycleVars, connVars, poolVars, timerVars, tree, slabVars>>
    \/ /\ part = "workers" /\ W!Next
       /\ UNCHANGED <<part, vars, cycleVars, connVars, poolVars, timerVars, tree, slabVars>>
    \/ /\ part = "cycle" /\ Y!Next
       /\ UNCHANGED <<part, vars, workerVars, connVars, poolVars, timerVars, tree, slabVars>>
    \/ /\ part = "connections" /\ N!Next
       /\ UNCHANGED <<part, vars, workerVars, cycleVars, poolVars, timerVars, tree, slabVars>>
    \/ /\ part = "pool" /\ P!Next
       /\ UNCHANGED <<part, vars, workerVars, cycleVars, connVars, timerVars, tree, slabVars>>
    \/ /\ part = "timers" /\ T!Next
       /\ UNCHANGED <<part, vars, workerVars, cycleVars, connVars, poolVars, tree, slabVars>>
    \/ /\ part = "tree" /\ TreeNext
       /\ UNCHANGED <<part, vars, workerVars, cycleVars, connVars, poolVars, timerVars, slabVars>>
    \/ /\ part = "slab" /\ S!Next
       /\ UNCHANGED <<part, vars, workerVars, cycleVars, connVars, poolVars, timerVars, tree>>

ServerSpec == ServerInit /\ [][ServerNext]_serverVars

-----------------------------------------------------------------------------
(* Properties, stated in the modules.                                      *)

In(name) == part = name

\* Workers: the master accounts for its workers and is the last to go.
WorkersAccounted == In("workers") => W!WorkersAccounted
\* Cycle: a reload keeps what the running configuration needs.
ReloadKeeps == [][Y!KeepsRunning]_serverVars
\* Connections: structures, reusable connections and counters are accounted for.
ConnectionsAccounted == In("connections") => N!ConnectionsAccounted
\* Every event reaches the connection it is for, and nothing else.
EventsDelivered == In("connections") => N!EventsDelivered
\* Timers bound every wait.
WaitsBounded == In("connections") => N!WaitsBounded
\* ThreadPool: tasks and threads are accounted for.
TasksAccounted == In("pool") => P!TasksAccounted
\* Timers: they are kept as they were asked for; Rbtree: every sequence of
\* insertions and deletions leaves a red-black tree.
TimersKept ==
    /\ In("timers") => T!TimersKept
    /\ In("tree") => B!RedBlackTree(tree, {n \in 1..9 : InTree(n)}) /\ B!WalksInOrder(tree)
\* Slab: the allocator accounts for all memory.
MemoryAccounted == In("slab") => S!MemoryAccounted
=============================================================================

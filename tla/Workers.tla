------------------------------ MODULE Workers ------------------------------
(***************************************************************************)
(* The master process of nginx and its workers: spawning, the process      *)
(* table, channels, reloading, graceful and quick shutdown, upgrading the  *)
(* binary, crashes and respawning, and the accept mutex that a worker may  *)
(* die with (ngx_process_cycle.c, ngx_process.c, ngx_shmtx.c).             *)
(*                                                                         *)
(* The master blocks its signals outside sigsuspend, so a turn of its loop *)
(* sees the flags as they were at the start: a turn is one step.  No path  *)
(* of the template has a cache, so there are no cache processes.           *)
(***************************************************************************)
EXTENDS Integers, SequencesExt, FiniteSetsExt

CONSTANTS
    Pids,        \* process ids
    NWorkers,    \* worker_processes
    Signals,     \* the signals that are sent to the master
    MaxSignals,  \* bound: how many are sent
    MaxFaults,   \* bound: crashes, failed starts, failed forks
    NoPid, InvalidPid

VARIABLES
    master,   \* the variables of the master's loop
    flags,    \* ngx_reap, ngx_quit, ... by the names of the signals
    woken,    \* sigsuspend() returns
    procs,    \* ngx_processes[0 .. ngx_last_process - 1]
    world,    \* world[p] : what the kernel has under pid p
    mutex,    \* ngx_accept_mutex : the pid in it or NoPid
    past      \* history: [signals, faults, harm, rollback]

vars == <<master, flags, woken, procs, world, mutex, past>>

None == [state |-> "none", gen |-> 0, cmds |-> {}, fatal |-> FALSE]
Process(state, gen) == [None EXCEPT !.state = state, !.gen = gen]

Running == {"starting", "running", "exiting", "hung"}
Workers(w) == {p \in Pids : w[p].state \in Running}

\* A slot whose process has gone; entries are compared by pid only.
FreeSlot ==
    [pid |-> NoPid, exited |-> FALSE, exiting |-> FALSE, respawn |-> FALSE,
     just_spawn |-> FALSE, detached |-> FALSE, channel |-> FALSE]

-----------------------------------------------------------------------------
(* Steps of the master's turn, as functions of s, which holds master,      *)
(* flags, procs, world and mutex.  s.forks is whether fork() succeeds, as  *)
(* long as there are pids; s.failed records that it did not.               *)

Unused(w) == {p \in Pids : w[p].state = "none"}
NoFork(s) == ~s.forks \/ Unused(s.world) = {}

\* ngx_spawn_process in the first free slot.
SlotFor(ps) ==
    LET free == {i \in DOMAIN ps : ps[i].pid = NoPid}
    IN  IF free = {} THEN Len(ps) + 1 ELSE Min(free)

Put(ps, i, slot) == IF i > Len(ps) THEN Append(ps, slot) ELSE [ps EXCEPT ![i] = slot]

NewProcess(s, p) == [s.world EXCEPT ![p] = Process("starting", s.master.gen)]

Spawn(s, just) ==
    IF NoFork(s) THEN [s EXCEPT !.failed = TRUE]
    ELSE LET p == Min(Unused(s.world))
         IN  [s EXCEPT
                !.procs = Put(s.procs, SlotFor(s.procs),
                              [FreeSlot EXCEPT !.pid = p, !.respawn = TRUE,
                                               !.just_spawn = just, !.channel = TRUE]),
                !.world = NewProcess(s, p)]

\* Into the slot of a process that has died: its other flags stay as they are.
Respawn(s, i) ==
    IF NoFork(s) THEN [s EXCEPT !.failed = TRUE]
    ELSE LET p == Min(Unused(s.world))
         IN  [s EXCEPT !.procs[i].pid = p, !.procs[i].exited = FALSE,
                       !.procs[i].channel = TRUE,
                       !.world = NewProcess(s, p)]

StartWorkers(s, just) ==
    LET after[i \in 0..NWorkers] == IF i = 0 THEN s ELSE Spawn(after[i - 1], just)
    IN  after[NWorkers]

\* ngx_process_get_status, in the handler of SIGCHLD: every zombie is waited
\* for, and its locks are broken.
Dead(s) == {p \in Pids : s.world[p].state = "zombie"}
Known(ps, p) == {i \in DOMAIN ps : ps[i].pid = p}

\* Faulty variant: no process is respawned that has ended by itself.
MarkSlotForGood(s, i) ==
    IF s.procs[i].pid \notin Dead(s) THEN s
    ELSE [s EXCEPT !.procs[i].exited = TRUE, !.procs[i].respawn = FALSE]

MarkSlot(s, i) ==
    LET p == s.procs[i].pid
    IN  IF p \notin Dead(s) THEN s
        ELSE [s EXCEPT !.procs[i].exited = TRUE,
                       !.procs[i].respawn = @ /\ ~s.world[p].fatal]

MarkDead(s) ==
    LET after[i \in 0..Len(s.procs)] == IF i = 0 THEN s ELSE MarkSlot(after[i - 1], i)
    IN  after[Len(s.procs)]

Buried(s) == [p \in Pids |-> IF p \in Dead(s) THEN None ELSE s.world[p]]

GetStatus(s) ==
    [MarkDead(s) EXCEPT !.world = Buried(s),
                        !.mutex = IF @ \in Dead(s) THEN NoPid ELSE @]

Stopping(s) == s.flags \cap {"TERM", "QUIT"} # {}

\* The last slot is dropped, any other one is marked free.
Vacate(s, i) ==
    [s EXCEPT !.procs = IF i = Len(@) THEN Front(@) ELSE [@ EXCEPT ![i] = FreeSlot]]

NewBinaryGone(s, i) ==
    IF s.procs[i].pid # s.master.new_binary THEN s
    ELSE [s EXCEPT !.master.new_binary = NoPid,
                   !.master.noaccepting = FALSE,
                   !.flags = IF s.master.noaccepting THEN @ \cup {"restart"} ELSE @]

\* One slot of the loop of ngx_reap_children.
ReapSlot(s, i) ==
    LET q == s.procs[i]
        closed == IF q.detached THEN s ELSE [s EXCEPT !.procs[i].channel = FALSE]
    IN  IF i > Len(s.procs) \/ q.pid = NoPid THEN s
        ELSE IF ~q.exited
             THEN [s EXCEPT !.master.live = @ \/ q.exiting \/ ~q.detached]
        ELSE IF q.respawn /\ ~q.exiting /\ ~Stopping(s)
             THEN [Respawn(closed, i) EXCEPT !.master.live = @ \/ ~NoFork(s)]
        ELSE Vacate(NewBinaryGone(closed, i), i)

ReapChildren(s) ==
    LET after[i \in 0..Len(s.procs)] ==
            IF i = 0 THEN [s EXCEPT !.master.live = FALSE, !.flags = @ \ {"CHLD"}]
            ELSE ReapSlot(after[i - 1], i)
    IN  after[Len(s.procs)]

\* kill(), with SIGKILL or with what a worker takes like the command: a pid
\* that is not there any more is left to the next reaping.
Kill(s, i, cmd) ==
    LET p == s.procs[i].pid
    IN  IF s.world[p].state = "none"
        THEN [s EXCEPT !.procs[i].exited = TRUE, !.procs[i].exiting = FALSE,
                       !.flags = @ \cup {"CHLD"}]
        ELSE [s EXCEPT !.procs[i].exiting = @ \/ cmd # "reopen",
                       !.world[p] = IF @.state \notin Running THEN @
                                    ELSE IF cmd = "kill" THEN Process("zombie", 0)
                                    ELSE [@ EXCEPT !.cmds = @ \cup {cmd}],
                       !.flags = IF cmd = "kill" THEN @ \cup {"CHLD"} ELSE @]

\* Through the channel, whose other end the master keeps open as well.
Tell(s, i, cmd) ==
    [s EXCEPT !.procs[i].exiting = @ \/ cmd # "reopen",
              !.world[s.procs[i].pid] =
                    IF @.state \in Running THEN [@ EXCEPT !.cmds = @ \cup {cmd}] ELSE @]

\* Faulty variant: just_spawn stays set.
SignalSlotKeepsJust(s, i, cmd) ==
    LET q == s.procs[i]
    IN  IF q.detached \/ q.pid = NoPid \/ q.just_spawn \/ (q.exiting /\ cmd = "quit") THEN s
        ELSE IF cmd # "kill" /\ q.channel THEN Tell(s, i, cmd)
        ELSE Kill(s, i, cmd)

\* One slot of the loop of ngx_signal_worker_processes.
SignalSlot(s, i, cmd) ==
    LET q == s.procs[i]
    IN  IF q.detached \/ q.pid = NoPid THEN s
        ELSE IF q.just_spawn THEN [s EXCEPT !.procs[i].just_spawn = FALSE]
        ELSE IF q.exiting /\ cmd = "quit" THEN s
        ELSE IF cmd # "kill" /\ q.channel THEN Tell(s, i, cmd)
        ELSE Kill(s, i, cmd)

SignalWorkers(s, cmd) ==
    LET after[i \in 0..Len(s.procs)] ==
            IF i = 0 THEN s ELSE SignalSlot(after[i - 1], i, cmd)
    IN  after[Len(s.procs)]

\* ngx_exec_new_binary, which answers -1 when it cannot.
ExecNewBinary(s) ==
    IF NoFork(s) THEN [s EXCEPT !.master.new_binary = InvalidPid, !.failed = TRUE]
    ELSE LET p == Min(Unused(s.world))
         IN  [s EXCEPT
                !.procs = Put(s.procs, SlotFor(s.procs),
                              [FreeSlot EXCEPT !.pid = p, !.detached = TRUE]),
                !.world[p] = Process("binary", 0),
                !.master.new_binary = p]

-----------------------------------------------------------------------------
(* A turn of the master's loop after sigsuspend() has returned.            *)

Without(s, flag) == [s EXCEPT !.flags = @ \ {flag}]

\* TERM again and again at growing intervals, KILL after a second.
Terminate(s) ==
    LET t == [s EXCEPT !.master.delay = IF @ = 0 THEN 50 ELSE @]
    IN  IF t.master.sigio > 0 THEN [t EXCEPT !.master.sigio = @ - 1]
        ELSE SignalWorkers([t EXCEPT !.master.sigio = NWorkers + 2],
                           IF t.master.delay > 1000 THEN "kill" ELSE "terminate")

\* The old workers have the cycle before, the new ones are not told to quit.
Reconfigure(s) ==
    LET t == [s EXCEPT !.master.gen = @ + 1]
    IN  SignalWorkers([StartWorkers(t, TRUE) EXCEPT !.master.live = TRUE], "quit")

Restart(s) ==
    IF "restart" \notin s.flags THEN s
    ELSE [StartWorkers(Without(s, "restart"), FALSE) EXCEPT !.master.live = TRUE]
Reopen(s) ==
    IF "USR1" \notin s.flags THEN s ELSE SignalWorkers(Without(s, "USR1"), "reopen")
ChangeBinary(s) ==
    IF "USR2" \notin s.flags THEN s ELSE ExecNewBinary(Without(s, "USR2"))
NoAccept(s) ==
    IF "WINCH" \notin s.flags THEN s
    ELSE SignalWorkers([Without(s, "WINCH") EXCEPT !.master.noaccepting = TRUE], "quit")

Rest(s) == NoAccept(ChangeBinary(Reopen(Restart(s))))

\* accepted : ngx_init_cycle() takes the configuration.  A reload that is
\* refused, or that starts the workers of a former binary again, leaves what
\* else was signalled to the next turn.
Reload(s, accepted) ==
    IF "HUP" \notin s.flags THEN Rest(s)
    ELSE LET t == Without(s, "HUP")
         IN  IF t.master.new_binary # NoPid
             THEN [StartWorkers(t, FALSE) EXCEPT !.master.noaccepting = FALSE]
             ELSE IF accepted THEN Rest(Reconfigure(t)) ELSE t

Reap(s) == IF "CHLD" \in s.flags THEN ReapChildren(GetStatus(s)) ELSE s

\* Faulty variant: the master does not wait for its workers.
TurnHasty(s, accepted) ==
    LET t == Reap(s)
    IN  IF Stopping(t) THEN [t EXCEPT !.master.up = FALSE]
        ELSE Reload(t, accepted)

Turn(s, accepted) ==
    LET t == Reap(s)
    IN  IF ~t.master.live /\ Stopping(t) THEN [t EXCEPT !.master.up = FALSE]
        ELSE IF "TERM" \in t.flags THEN Terminate(t)
        ELSE IF "QUIT" \in t.flags THEN SignalWorkers(t, "quit")
        ELSE Reload(t, accepted)

\* Up to the next sigsuspend(): the interval doubles when the alarm rang.
MaxDelay == 1600
NextDelay(s) ==
    IF s.master.delay = 0 \/ "ALRM" \notin s.flags THEN s
    ELSE [Without(s, "ALRM") EXCEPT !.master.sigio = 0,
                                    !.master.delay = Min({2 * @, MaxDelay})]

-----------------------------------------------------------------------------

\* main() has started the first workers.
Init ==
    LET s == [master |-> [up |-> TRUE, gen |-> 1, live |-> TRUE, delay |-> 0, sigio |-> 0,
                          new_binary |-> NoPid, noaccepting |-> FALSE],
              procs |-> <<>>, world |-> [p \in Pids |-> None], forks |-> TRUE, failed |-> FALSE]
        t == StartWorkers(s, FALSE)
    IN  /\ master = t.master /\ procs = t.procs /\ world = t.world
        /\ flags = {} /\ woken = FALSE /\ mutex = NoPid
        /\ past = [signals |-> 0, faults |-> 0, harm |-> {}, rollback |-> FALSE]

\* The handler of the master sets a flag; SIGUSR2 is ignored while a new
\* binary is there.
Signal(sig) ==
    /\ master.up /\ past.signals < MaxSignals
    /\ sig = "USR2" => master.new_binary \notin Pids
    /\ flags' = flags \cup {sig} /\ woken' = TRUE
    /\ past' = [past EXCEPT !.signals = @ + 1]
    /\ UNCHANGED <<master, procs, world, mutex>>

Alarm ==
    /\ master.up /\ master.delay > 0
    /\ flags' = flags \cup {"ALRM"} /\ woken' = TRUE
    /\ UNCHANGED <<master, procs, world, mutex, past>>

\* A worker that was killed in this turn has its SIGCHLD waiting.  Only a
\* reload asks whether the configuration is accepted.
MasterTurn(forks, accepted) ==
    /\ master.up /\ woken
    /\ accepted \/ "HUP" \in flags
    /\ forks \/ past.faults < MaxFaults
    /\ LET s == [master |-> master, flags |-> flags, procs |-> procs, world |-> world,
                 mutex |-> mutex, forks |-> forks, failed |-> FALSE]
           t == NextDelay(Turn(s, accepted))
       IN  /\ master' = t.master /\ flags' = t.flags /\ procs' = t.procs
           /\ world' = t.world /\ mutex' = t.mutex
           /\ forks \/ t.failed
           /\ past' = [past EXCEPT
                !.faults = @ + (IF forks THEN 0 ELSE 1),
                !.harm = IF t.failed THEN @ \cup {"fork"} ELSE @,
                !.rollback = @ \/ (master.new_binary # NoPid /\
                                    ("HUP" \in flags \/ t.master.new_binary = NoPid))]
           /\ woken' = (Dead(t) # {})

\* A process ends and the master gets SIGCHLD.
Die(p, fatal) ==
    /\ world' = [world EXCEPT ![p] = [Process("zombie", 0) EXCEPT !.fatal = fatal]]
    /\ flags' = flags \cup {"CHLD"} /\ woken' = TRUE
    /\ UNCHANGED <<master, procs>>

Become(p, state) ==
    /\ world' = [world EXCEPT ![p].state = state, ![p].cmds = {}]
    /\ UNCHANGED <<master, flags, woken, procs>>

\* ngx_worker_process_init, which ends the process with code 2 when it fails.
WorkerInit(p) ==
    /\ world[p].state = "starting"
    /\ world' = [world EXCEPT ![p].state = "running"]
    /\ UNCHANGED <<master, flags, woken, procs, mutex, past>>
WorkerInitFails(p) ==
    /\ world[p].state = "starting" /\ past.faults < MaxFaults
    /\ Die(p, TRUE)
    /\ past' = [past EXCEPT !.faults = @ + 1, !.harm = @ \cup {"init"}]
    /\ UNCHANGED mutex

\* A turn of the worker's loop with commands from the channel.
WorkerTurn(p) ==
    /\ world[p].state \in {"running", "exiting"} /\ mutex # p
    /\ world[p].cmds # {}
    /\ \/ "terminate" \in world[p].cmds /\ Die(p, FALSE)
       \/ /\ "terminate" \notin world[p].cmds
          /\ Become(p, IF "quit" \in world[p].cmds THEN "exiting" ELSE world[p].state)
    /\ UNCHANGED <<mutex, past>>

\* No timers are left: the last connection has been closed.
WorkerDrained(p) ==
    /\ world[p].state = "exiting"
    /\ Die(p, FALSE)
    /\ UNCHANGED <<mutex, past>>

TryLock(p) ==
    /\ world[p].state = "running" /\ mutex = NoPid
    /\ mutex' = p
    /\ UNCHANGED <<master, flags, woken, procs, world, past>>
Unlock(p) ==
    /\ world[p].state = "running" /\ mutex = p
    /\ mutex' = NoPid
    /\ UNCHANGED <<master, flags, woken, procs, world, past>>

\* A worker is killed, or hangs.
Crash(p) ==
    /\ world[p].state \in Running /\ past.faults < MaxFaults
    /\ Die(p, FALSE)
    /\ past' = [past EXCEPT !.faults = @ + 1]
    /\ UNCHANGED mutex
Hang(p) ==
    /\ world[p].state \in {"running", "exiting"} /\ past.faults < MaxFaults
    /\ world' = [world EXCEPT ![p].state = "hung"]
    /\ past' = [past EXCEPT !.faults = @ + 1, !.harm = @ \cup {"hang"}]
    /\ UNCHANGED <<master, flags, woken, procs, mutex>>

BinaryExits(p) ==
    /\ world[p].state = "binary"
    /\ Die(p, FALSE)
    /\ UNCHANGED <<mutex, past>>

WorkerStep(p) == WorkerInit(p) \/ WorkerTurn(p) \/ WorkerDrained(p) \/ Unlock(p)

Next ==
    \/ \E sig \in Signals : Signal(sig)
    \/ Alarm
    \/ \E forks, accepted \in BOOLEAN : MasterTurn(forks, accepted)
    \/ \E p \in Pids :
        \/ WorkerStep(p) \/ WorkerInitFails(p) \/ TryLock(p)
        \/ Crash(p) \/ Hang(p) \/ BinaryExits(p)

Spec == Init /\ [][Next]_vars

\* Every process gets its turn, and a worker reads its channel in each turn,
\* with the accept mutex or without; the interval timer rings.  (Weak and, for
\* WorkerTurn, strong fairness, with what enables a step written out.)
AnyTurn == \E forks, accepted \in BOOLEAN : MasterTurn(forks, accepted)
CanTurn == master.up /\ woken
CanAlarm == master.up /\ master.delay > 0 /\ ~("ALRM" \in flags /\ woken)
CanHear(p) == world[p].state \in {"running", "exiting"} /\ mutex # p /\ world[p].cmds # {}
CanWork(p) ==
    world[p].state \in {"starting", "exiting"} \/ (world[p].state = "running" /\ mutex = p)
    \/ CanHear(p)
Fairness ==
    /\ <>[]CanTurn => []<><<AnyTurn>>_vars
    /\ <>[]CanAlarm => []<><<Alarm>>_vars
    /\ \A p \in Pids : /\ <>[]CanWork(p) => []<><<WorkerStep(p)>>_vars
                      /\ []<>CanHear(p) => []<><<WorkerTurn(p)>>_vars
FairSpec == Spec /\ Fairness

-----------------------------------------------------------------------------
(* Properties.                                                             *)

TypeOK ==
    /\ flags \subseteq Signals \cup {"CHLD", "ALRM", "restart"} /\ woken \in BOOLEAN
    /\ master.sigio \in 0..(NWorkers + 2) /\ master.delay \in 0..MaxDelay
    /\ master.new_binary \in Pids \cup {NoPid, InvalidPid}
    /\ \A i \in DOMAIN procs : procs[i].pid \in Pids \cup {NoPid}
    /\ \A p \in Pids : world[p].state \in Running \cup {"none", "zombie", "binary"}
    /\ mutex \in Pids \cup {NoPid}

\* Every worker is in the process table, once, as alive and with a channel:
\* the master can tell it to quit and will wait for it.
Registered ==
    master.up =>
        \A p \in Workers(world) :
            Cardinality({i \in Known(procs, p) : ~procs[i].exited /\ procs[i].channel}) = 1

\* After a reload every worker with an older configuration has been told to
\* quit, also one that was respawned while the reload was on its way.
OldToldToQuit ==
    master.up =>
        \A i \in DOMAIN procs :
            LET p == procs[i].pid
            IN  p \in Workers(world) /\ ~procs[i].exited /\ world[p].gen < master.gen =>
                    procs[i].exiting

\* Reloads and crashes do not add up to more workers than are configured,
\* unless the workers of a former binary are started again.
AtMostConfigured ==
    ~past.rollback =>
        Cardinality({i \in DOMAIN procs :
            procs[i].pid # NoPid /\ ~procs[i].detached /\ ~procs[i].exiting}) <= NWorkers

\* Who holds the accept mutex is alive or will be waited for, so that the mutex
\* is never lost with a worker.
MutexAlive == mutex # NoPid => world[mutex].state \in Running \cup {"zombie"}

\* The master is the last to go.  (Not after a former binary's workers were
\* started again: see ExitsLastAlways.)
ExitsLast == ~master.up /\ ~past.rollback => Workers(world) = {}

\* The master accounts for its workers through signals, reloads and deaths
\* (ngx_start_worker_processes, ngx_signal_worker_processes, ngx_reap_children).
WorkersAccounted ==
    TypeOK /\ Registered /\ OldToldToQuit /\ AtMostConfigured /\ MutexAlive /\ ExitsLast

\* man/nginx.8 says of SIGQUIT "Shut down gracefully.": also after SIGHUP has
\* brought back the workers for which another binary had taken over.
ExitsLastAlways == ~master.up => Workers(world) = {}

\* When the signals and the faults are over, exactly the configured number of
\* workers runs with the current configuration, unless the master is being
\* stopped or upgraded, a process could not be started or one hangs.
Staffed ==
    <>[](\/ ~master.up \/ flags \cap {"TERM", "QUIT"} # {}
         \/ master.noaccepting \/ past.harm # {} \/ past.rollback
         \/ /\ Cardinality(Workers(world)) = NWorkers
            /\ \A p \in Workers(world) : world[p].gen = master.gen)

\* A master that is told to terminate does so, whatever its workers do, and
\* one that is told to quit does when no worker hangs.  (When no worker could
\* be forked in a reload, live stays set and no SIGCHLD clears it.)
Stops ==
    /\ "TERM" \in flags ~> ~master.up \/ "fork" \in past.harm
    /\ "QUIT" \in flags ~> ~master.up \/ past.harm # {}

\* The processes come to what the signals have asked for.
Settles == Staffed /\ Stops
=============================================================================

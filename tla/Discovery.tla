----------------------------- MODULE Discovery -----------------------------
(***************************************************************************)
(* Discovery of nginx (launchDiscovery, findNginxMeta, findNginxPID and    *)
(* findNginxConf in src/nginx.js) and the start of the interface by        *)
(* index.js.                                                               *)
(*                                                                         *)
(* A timer starts a probe every second whether or not earlier ones are     *)
(* through, so probes overlap.  A probe takes a list of processes, hears   *)
(* of it later, and, as long as no configuration file is known, looks for  *)
(* one path after the other.  nginx starts and stops meanwhile.            *)
(***************************************************************************)
EXTENDS Naturals, FiniteSetsExt

CONSTANTS
    Probes,     \* slots for probes in flight (bound)
    Paths,      \* how many default paths findNginxConf tries
    Presents,   \* sets of those at which there may be a file
    MaxStarts   \* bound: how often nginx is started

ASSUME DiscoveryAssumption ==
    Paths \in Nat \ {0} /\ MaxStarts \in Nat /\ Presents \subseteq SUBSET (1..Paths)

VARIABLES
    ngx_pid,       \* pid of the nginx master, 0 when there is none
    present,       \* the numbers of the paths at which there is a file
    starts,        \* starts so far, the source of fresh pids
    probe,         \* probe[p] : the probe in slot p
    pid,           \* this.pid, 0 for null
    conf_file,     \* this.conf_file, 0 for null
    status,        \* this.status
    nginx_status,  \* this.nginx_status, its wording aside
    exposed        \* launchInterface has run

vars == <<ngx_pid, present, starts, probe, pid, conf_file, status, nginx_status,
          exposed>>
agentVars == <<pid, conf_file, status, nginx_status, exposed>>

NoProbe == [phase |-> "idle", seen |-> 0, path |-> 0]

Init ==
    /\ ngx_pid = 0
    /\ present \in Presents
    /\ starts = 0
    /\ probe = [p \in Probes |-> NoProbe]
    /\ pid = 0
    /\ conf_file = 0
    /\ status = "undefined"
    /\ nginx_status = "null"
    /\ exposed = FALSE

\* setInterval, and the first call of launchDiscovery.
StartProbe(p) ==
    /\ probe[p].phase = "idle"
    /\ probe' = [probe EXCEPT ![p].phase = "list"]
    /\ UNCHANGED <<ngx_pid, present, starts, agentVars>>

\* find-process lists the processes; the master is the one whose parent is
\* init.
ListProcesses(p) ==
    /\ probe[p].phase = "list"
    /\ probe' = [probe EXCEPT ![p].phase = "listed", ![p].seen = ngx_pid]
    /\ UNCHANGED <<ngx_pid, present, starts, agentVars>>

\* find-process fails: the rejection is thrown again and nobody handles it.
ListFails(p) ==
    /\ probe[p].phase = "list"
    /\ probe' = [probe EXCEPT ![p] = NoProbe]
    /\ UNCHANGED <<ngx_pid, present, starts, agentVars>>

\* Faulty variant: 'ready' is emitted before the file has been looked for.
PidFoundReady(p) ==
    /\ probe[p].phase = "listed" /\ probe[p].seen # 0
    /\ pid' = probe[p].seen
    /\ exposed' = TRUE
    /\ probe' = [probe EXCEPT ![p] =
                    IF conf_file = 0 THEN [@ EXCEPT !.phase = "stat", !.path = 1]
                                     ELSE NoProbe]
    /\ UNCHANGED <<ngx_pid, present, starts, conf_file, status, nginx_status>>

\* Faulty variant: the file is looked for when it is known.
PidFoundInverted(p) ==
    /\ probe[p].phase = "listed" /\ probe[p].seen # 0
    /\ pid' = probe[p].seen
    /\ probe' = [probe EXCEPT ![p] =
                    IF conf_file # 0 THEN [@ EXCEPT !.phase = "stat", !.path = 1]
                                     ELSE NoProbe]
    /\ UNCHANGED <<ngx_pid, present, starts, conf_file, status, nginx_status, exposed>>

\* Faulty variant: the pid is taken over only when the file is looked for.
PidFoundOnce(p) ==
    /\ probe[p].phase = "listed" /\ probe[p].seen # 0
    /\ pid' = IF conf_file = 0 THEN probe[p].seen ELSE pid
    /\ probe' = [probe EXCEPT ![p] =
                    IF conf_file = 0 THEN [@ EXCEPT !.phase = "stat", !.path = 1]
                                     ELSE NoProbe]
    /\ exposed' = (exposed \/ conf_file # 0)
    /\ UNCHANGED <<ngx_pid, present, starts, conf_file, status, nginx_status>>

\* The callback of findNginxPID with a pid: look for the file when it is not
\* known; otherwise emit 'ready', which starts the interface the first time.
PidFound(p) ==
    /\ probe[p].phase = "listed" /\ probe[p].seen # 0
    /\ pid' = probe[p].seen
    /\ probe' = [probe EXCEPT ![p] =
                    IF conf_file = 0 THEN [@ EXCEPT !.phase = "stat", !.path = 1]
                                     ELSE NoProbe]
    /\ exposed' = (exposed \/ conf_file # 0)
    /\ UNCHANGED <<ngx_pid, present, starts, conf_file, status, nginx_status>>

\* Faulty variant: only the event is emitted.
PidMissingSilent(p) ==
    /\ probe[p].phase = "listed" /\ probe[p].seen = 0
    /\ probe' = [probe EXCEPT ![p] = NoProbe]
    /\ UNCHANGED <<ngx_pid, present, starts, agentVars>>

\* The callback of findNginxPID with an error.
PidMissing(p) ==
    /\ probe[p].phase = "listed" /\ probe[p].seen = 0
    /\ status' = "errored"
    /\ nginx_status' = "not running"
    /\ probe' = [probe EXCEPT ![p] = NoProbe]
    /\ UNCHANGED <<ngx_pid, present, starts, pid, conf_file, exposed>>

\* findNginxConf: the first path with a file ends the search.
ConfFound(p) ==
    /\ probe[p].phase = "stat" /\ probe[p].path \in present
    /\ conf_file' = probe[p].path
    /\ status' = "online"
    /\ nginx_status' = "up"
    /\ exposed' = TRUE
    /\ probe' = [probe EXCEPT ![p] = NoProbe]
    /\ UNCHANGED <<ngx_pid, present, starts, pid>>

\* fs.stat fails: on to the next path.
NextPath(p) ==
    /\ probe[p].phase = "stat" /\ probe[p].path \in 1..(Paths - 1) \ present
    /\ probe' = [probe EXCEPT ![p].path = @ + 1]
    /\ UNCHANGED <<ngx_pid, present, starts, agentVars>>

\* No default path has a file.
ConfMissing(p) ==
    /\ probe[p].phase = "stat" /\ probe[p].path = Paths /\ Paths \notin present
    /\ status' = "errored"
    /\ nginx_status' = "no configuration"
    /\ probe' = [probe EXCEPT ![p] = NoProbe]
    /\ UNCHANGED <<ngx_pid, present, starts, pid, conf_file, exposed>>

\* An operator starts and stops nginx.
StartNginx ==
    /\ ngx_pid = 0 /\ starts < MaxStarts
    /\ starts' = starts + 1
    /\ ngx_pid' = starts + 1
    /\ UNCHANGED <<present, probe, agentVars>>

StopNginx ==
    /\ ngx_pid # 0
    /\ ngx_pid' = 0
    /\ UNCHANGED <<present, starts, probe, agentVars>>

Step(p) ==
    \/ ListProcesses(p)
    \/ PidFound(p)
    \/ PidMissing(p)
    \/ ConfFound(p)
    \/ NextPath(p)
    \/ ConfMissing(p)

Next ==
    \/ \E p \in Probes : StartProbe(p) \/ Step(p) \/ ListFails(p)
    \/ StartNginx
    \/ StopNginx

Spec == Init /\ [][Next]_vars

\* The timer keeps firing, what it starts is carried out, and listing the
\* processes does not fail for ever.
Fairness ==
    /\ WF_vars(\E p \in Probes : StartProbe(p))
    /\ \A p \in Probes : WF_vars(Step(p)) /\ SF_vars(ListProcesses(p))

FairSpec == Spec /\ Fairness

-----------------------------------------------------------------------------
(* Properties.                                                             *)

\* Types; a probe only knows pids nginx has had.
TypeOK ==
    /\ present \in Presents
    /\ starts \in 0..MaxStarts
    /\ ngx_pid \in 0..starts
    /\ probe \in [Probes -> [phase : {"idle", "list", "listed", "stat"},
                             seen : 0..starts, path : 0..Paths]]
    /\ pid \in 0..starts
    /\ conf_file \in {0} \cup present
    /\ status \in {"undefined", "errored", "online"}
    /\ nginx_status \in {"null", "not running", "no configuration", "up"}
    /\ exposed \in BOOLEAN

\* The file is the first of the default paths that exists, whichever of the
\* overlapping searches finds it.
FirstPathWins == conf_file # 0 => conf_file = Min(present)

\* The operations are exposed only when there is a file to write, the first of
\* the default paths, and a pid to signal: updateConfiguration and reload never
\* see null, however the probes overlap and whatever nginx did in the meantime.
ExposedIsUsable == FirstPathWins /\ (exposed => pid # 0 /\ conf_file # 0)

\* When nginx stays up, the pid becomes and stays the one it has, although a
\* late probe may still bring back an older one (findNginxMeta).
PidSettles ==
    \A n \in 1..MaxStarts : <>[](ngx_pid = n) => <>[](pid = n)

\* When nginx stays up and has a file, the interface is started.
GetsExposed == <>[](ngx_pid # 0) /\ present # {} => <>exposed

\* When nginx stays down, the status says so in the end.
OutageReported == <>[](ngx_pid = 0) => <>[](status = "errored")

\* When nginx stays up and has no file at the default paths, that is what the
\* connector says in the end.
MissingFileReported ==
    <>[](ngx_pid # 0) /\ present = {} => <>[](nginx_status = "no configuration")

\* What is wrong is what the connector says in the end.
TroubleReported == OutageReported /\ MissingFileReported

\* 'NGINX is not running, please start it' is for an nginx that does not run:
\* when nginx stays up the connector stops saying it.
OutageForgotten == <>[](ngx_pid # 0) => <>[](nginx_status # "not running")
=============================================================================

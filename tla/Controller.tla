----------------------------- MODULE Controller -----------------------------
(***************************************************************************)
(* NginxController at work (src/nginx.js): the operations that change the  *)
(* routing table, the asynchronous write of the configuration file, the    *)
(* SIGHUP and the answer, beside the nginx master of NginxMaster.          *)
(*                                                                         *)
(* JavaScript runs one callback at a time, so what a handler does up to    *)
(* its first asynchronous call is one step: table change and rendering     *)
(* (ejs.renderFile calls back synchronously).  fs.writeFile then opens     *)
(* with truncation, writes, and queues its callback, each on its own.      *)
(* The callback sends the signal and answers in one step (nextTick runs    *)
(* before the next event).  Nothing serialises calls of several clients.   *)
(***************************************************************************)
EXTENDS NginxMaster

CONSTANTS
    Clients,       \* callers, each with at most one call in flight
    AddCalls,      \* [app, opts] inputs of addPortRouting
    DeleteCalls,   \* [app, port] inputs of deletePortRouting
    UpdateCalls,   \* [app, routing] inputs of addOrUpdateAppRouting
    InitialConf,   \* the configuration found on disk (an earlier life's)
    Faults,        \* what may fail: "render", "open", "write", "nginx", "agent"
    MaxVersions    \* bound: how often a configuration is rendered

ASSUME CallsAssumption ==
    /\ AddCalls \subseteq [app : Apps, opts : AddOpts]
    /\ DeleteCalls \subseteq [app : Apps, port : Ports]
    /\ UpdateCalls \subseteq [app : Apps, routing : RoutingOpts]

\* nginx runs the configuration found on disk.
ASSUME InitialAssumption == InitialConf \in Conf /\ Valid(Render(InitialConf))

ASSUME BoundsAssumption == MaxVersions \in Nat

VARIABLES
    current_conf,  \* this.current_conf
    pid,           \* this.pid, as discovery last found it
    calls,         \* calls[c] : the call of c on its way through writeFile
    last,          \* outcome of the last finished updateConfiguration
    version        \* renderings so far

ctlVars == <<current_conf, pid, calls, last, version>>
vars == <<file, ngx_pid, ngx_cycle, cycle, sighup, loading, starts,
          current_conf, pid, calls, last, version>>

\* alone and the outcome "alone" are history: no other call changed the
\* table or the file since this one began.
Idle == [phase |-> "idle", text |-> Undefined, ver |-> 0,
         failed |-> FALSE, alone |-> FALSE]
Outcomes == {"none", "failed", "done", "alone"}

InPhase(c, p) == calls[c].phase = p
Quiet == \A c \in Clients : InPhase(c, "idle")

Init ==
    /\ NgxInit(Render(InitialConf))
    /\ current_conf = EmptyConf
    /\ pid = 1
    /\ calls = [c \in Clients |-> Idle]
    /\ last = "none"
    /\ version = 0

-----------------------------------------------------------------------------
(* updateConfiguration: the table is rendered and the write is queued, or  *)
(* rendering fails and the caller hears of it, the table being changed.    *)

Disturbed == [d \in Clients |-> [calls[d] EXCEPT !.alone = FALSE]]

Rendered(c, conf) ==
    /\ calls' = [Disturbed EXCEPT ![c] =
                    [phase |-> "open", text |-> Render(conf), ver |-> version + 1,
                     failed |-> FALSE, alone |-> Quiet]]
    /\ UNCHANGED last

RenderFails ==
    /\ "render" \in Faults
    /\ calls' = Disturbed
    /\ last' = "failed"

UpdateConfiguration(c, conf) ==
    /\ current_conf' = conf
    /\ version' = version + 1
    /\ Rendered(c, conf) \/ RenderFails
    /\ UNCHANGED pid

MayCall(c) == InPhase(c, "idle") /\ version < MaxVersions

AddPortRouting(c, app, opts) ==
    /\ MayCall(c)
    /\ UpdateConfiguration(c, AddRoute(current_conf, app, opts))
    /\ UNCHANGED ngxVars

\* Only the http section is looked at; without a record of the application
\* the caller gets an error and nothing changes.
DeletePortRouting(c, app, port) ==
    /\ MayCall(c)
    /\ current_conf["http"][app] # Undefined
    /\ UpdateConfiguration(c, DeleteRoute(current_conf, app, port))
    /\ UNCHANGED ngxVars

\* When it throws ('Binding same port') nothing has changed.
AddOrUpdateAppRouting(c, app, routing) ==
    /\ MayCall(c)
    /\ ~BindsSamePort(current_conf, app, routing)
    /\ UpdateConfiguration(c, ReplaceRoutes(current_conf, app, routing))
    /\ UNCHANGED ngxVars

-----------------------------------------------------------------------------
(* fs.writeFile on the thread pool, and its callback.                      *)

\* Faulty variant: the file is opened without truncating it.
OpenFileInPlace(c) ==
    /\ InPhase(c, "open")
    /\ calls' = [calls EXCEPT ![c].phase = "write"]
    /\ UNCHANGED <<current_conf, pid, last, version, ngxVars>>

OpenFile(c) ==
    /\ InPhase(c, "open")
    /\ \/ /\ file' = Truncated
          /\ calls' = [calls EXCEPT ![c].phase = "write"]
       \/ /\ "open" \in Faults
          /\ calls' = [calls EXCEPT ![c].phase = "callback", ![c].failed = TRUE]
          /\ UNCHANGED file
    /\ UNCHANGED <<current_conf, pid, last, version, ngx_pid, ngx_cycle,
                   cycle, sighup, loading, starts>>

WriteFile(c) ==
    /\ InPhase(c, "write")
    /\ \/ /\ file' = Overlay(calls[c], file)
          /\ calls' = [calls EXCEPT ![c].phase = "callback"]
       \/ /\ "write" \in Faults
          /\ calls' = [calls EXCEPT ![c].phase = "callback", ![c].failed = TRUE]
          /\ UNCHANGED file
    /\ UNCHANGED <<current_conf, pid, last, version, ngx_pid, ngx_cycle,
                   cycle, sighup, loading, starts>>

\* Faulty variant: the signal is not sent.
CallbackNoSignal(c) ==
    /\ InPhase(c, "callback")
    /\ calls' = [calls EXCEPT ![c] = Idle]
    /\ last' = IF calls[c].failed \/ pid # ngx_pid THEN "failed"
               ELSE IF calls[c].alone THEN "alone" ELSE "done"
    /\ UNCHANGED <<current_conf, pid, version, ngxVars>>

\* Faulty variant: a failed write or signal is not reported.
CallbackDropsError(c) ==
    /\ InPhase(c, "callback")
    /\ ~calls[c].failed /\ pid = ngx_pid
    /\ calls' = [calls EXCEPT ![c] = Idle]
    /\ last' = IF calls[c].alone THEN "alone" ELSE "done"
    /\ sighup' = TRUE
    /\ UNCHANGED <<current_conf, pid, version, file, ngx_pid, ngx_cycle,
                   cycle, loading, starts>>

\* Faulty variant: a failed write is taken for a success.
CallbackIgnoresError(c) ==
    /\ InPhase(c, "callback")
    /\ calls' = [calls EXCEPT ![c] = Idle]
    /\ last' = IF pid # ngx_pid THEN "failed" ELSE "done"
    /\ sighup' = (sighup \/ pid = ngx_pid)
    /\ UNCHANGED <<current_conf, pid, version, file, ngx_pid, ngx_cycle,
                   cycle, loading, starts>>

\* An error goes to the caller; otherwise reload: process.kill throws when
\* no process has this.pid.
Callback(c) ==
    /\ InPhase(c, "callback")
    /\ calls' = [calls EXCEPT ![c] = Idle]
    /\ \/ /\ calls[c].failed \/ pid # ngx_pid
          /\ last' = "failed"
          /\ UNCHANGED sighup
       \/ /\ ~calls[c].failed /\ pid = ngx_pid
          /\ last' = IF calls[c].alone THEN "alone" ELSE "done"
          /\ sighup' = TRUE
    /\ UNCHANGED <<current_conf, pid, version, file, ngx_pid, ngx_cycle,
                   cycle, loading, starts>>

-----------------------------------------------------------------------------
(* The surroundings: discovery looks for the master once a second;         *)
(* nginx stops and is started; the agent dies and pm2 starts a new one,    *)
(* whose table is empty and which serves calls once discovery is through.  *)

\* Faulty variant: a probe that finds no nginx overwrites the pid.
DiscoverNone ==
    /\ pid' = ngx_pid
    /\ UNCHANGED <<current_conf, calls, last, version, ngxVars>>

\* A probe of module Discovery is through: pid becomes the one nginx had when
\* the probe listed the processes, which a late probe did some time ago.
Discover ==
    /\ \E seen \in 1..starts : pid' = seen
    /\ UNCHANGED <<current_conf, calls, last, version, ngxVars>>

RestartAgent ==
    /\ "agent" \in Faults /\ ngx_pid # 0
    /\ current_conf' = EmptyConf
    /\ pid' = ngx_pid
    /\ calls' = [c \in Clients |-> Idle]
    /\ last' = "none"
    /\ UNCHANGED <<version, ngxVars>>

Nginx ==
    /\ \/ Wake
       \/ InitCycle
       \/ RunCycle
       \/ "nginx" \in Faults /\ Stop
       \/ Start
    /\ UNCHANGED ctlVars

Next ==
    \/ \E c \in Clients :
        \/ \E in \in AddCalls : AddPortRouting(c, in.app, in.opts)
        \/ \E in \in DeleteCalls : DeletePortRouting(c, in.app, in.port)
        \/ \E in \in UpdateCalls : AddOrUpdateAppRouting(c, in.app, in.routing)
        \/ OpenFile(c)
        \/ WriteFile(c)
        \/ Callback(c)
    \/ Discover
    \/ RestartAgent
    \/ Nginx

Spec == Init /\ [][Next]_vars

\* The event loop, its thread pool and the master's loop keep running.
Fairness ==
    /\ \A c \in Clients : WF_vars(OpenFile(c) \/ WriteFile(c) \/ Callback(c))
    /\ WF_vars(Nginx /\ (Wake \/ InitCycle \/ RunCycle))

FairSpec == Spec /\ Fairness

-----------------------------------------------------------------------------
(* Properties.                                                             *)

\* Types of all variables: the pid is one nginx has had, a version is one
\* that was rendered, a call that is not idle carries a text.
TypeOK ==
    /\ file.text \in Texts \cup {Undefined} /\ file.ver \in 0..version
    /\ starts \in Nat
    /\ ngx_pid \in 0..starts
    /\ ngx_cycle \in [text : Texts, ver : 0..version]
    /\ cycle \in [text : Texts, ver : 0..version]
    /\ sighup \in BOOLEAN
    /\ loading \in {"suspended", "reconfigure", "loaded"}
    /\ current_conf \in Conf
    /\ pid \in 1..starts
    /\ version \in Nat
    /\ calls \in [Clients -> [phase : {"idle", "open", "write", "callback"},
                             text : Texts \cup {Undefined}, ver : 0..version,
                             failed : BOOLEAN, alone : BOOLEAN]]
    /\ \A c \in Clients : ~InPhase(c, "idle") => calls[c].text \in Texts
    /\ last \in Outcomes

Answered == last \in {"done", "alone"}

\* No reload is missed (reload, and nginx's handling of SIGHUP): when the
\* last finished update was answered without an error, no signal is pending
\* and no written text still waits for its signal, then nginx runs what the
\* file says, unless it refuses the file.  It holds for any interleaving of
\* calls and with every fault.
NoMissedReload ==
    /\ ngx_pid # 0 /\ ~sighup /\ loading = "suspended"
    /\ Answered /\ \A c \in Clients : ~InPhase(c, "callback")
    /\ Accepts(file)
    => ngx_cycle = Content(file)

\* An update that no other call overlaps and that is answered without an
\* error leaves the table on disk, complete (updateConfiguration): the file
\* is exactly the rendering of current_conf until the next call.
SettledFile ==
    last = "alone" /\ Quiet => Whole(file) /\ file.text = Render(current_conf)

\* What a client that has its answer expects of the file ('should have right
\* config file'): with no call under way it is the rendering of the table.
FileFollowsTable ==
    Quiet /\ Answered => Whole(file) /\ file.text = Render(current_conf)

\* nginx can be started again whenever no call is under way: what the agent
\* leaves on disk is complete and accepted by nginx.  Only a write that failed
\* or an agent that died between truncating and writing leaves an empty file,
\* and then the last caller has no good answer.
Restartable == Quiet => Accepts(file) \/ (file = Truncated /\ ~Answered)

\* nginx never goes back to an older configuration, whatever fails or
\* restarts, as long as calls do not overlap.
ServedForward == [][ngx_cycle'.ver >= ngx_cycle.ver]_vars

\* A single caller gets the service of RoutingService: a change is pending while
\* its text is on the way to nginx (in the call, in the file or in a cycle that
\* does not run yet) and newer than the one nginx runs.
Underway ==
    {Content(calls[c]) : c \in {d \in Clients : InPhase(d, "open") \/ InPhase(d, "write")}}
    \cup {Content(f) : f \in {g \in {file} : Whole(g)}}
    \cup {cycle}

Service == INSTANCE RoutingService WITH
    Configs   <- Texts,
    newest    <- version,
    pending   <- {x \in Underway : x.ver > ngx_cycle.ver},
    served    <- ngx_cycle,
    confirmed <- Quiet /\ Answered

\* The controller with one client, the master of nginx and every fault
\* implement that service.
ImplementsService == Service!Spec

\* Every call is answered (the callbacks of writeFile and reload, with and
\* without an error).
EveryCallAnswered == \A c \in Clients : InPhase(c, "open") ~> InPhase(c, "idle")

\* Convergence: once calls have stopped, the last of them having been
\* answered without error and without overlap, and nginx stays up, nginx
\* comes to run the table for good.
Converges ==
    <>[](/\ Quiet /\ last = "alone" /\ ngx_pid # 0
         /\ Valid(Render(current_conf)))
    => <>[](ngx_cycle.text = Render(current_conf))
=============================================================================

-------------------------- MODULE ControllerProofs --------------------------
(***************************************************************************)
(* Theorems about Controller, for any number of clients, applications,     *)
(* ports and calls, and with every fault.                                  *)
(***************************************************************************)
EXTENDS Controller, RoutingProofs

\* The three operations that change the table, seen together: the table
\* becomes another one and updateConfiguration is called.
LEMMA CallsUpdate ==
    ASSUME TypeOK, NEW c \in Clients,
           \/ \E in \in AddCalls : AddPortRouting(c, in.app, in.opts)
           \/ \E in \in DeleteCalls : DeletePortRouting(c, in.app, in.port)
           \/ \E in \in UpdateCalls : AddOrUpdateAppRouting(c, in.app, in.routing)
    PROVE  \E conf \in Conf : /\ InPhase(c, "idle")
                              /\ UpdateConfiguration(c, conf)
                              /\ UNCHANGED ngxVars
<1>1. CASE \E in \in AddCalls : AddPortRouting(c, in.app, in.opts)
  <2>1. PICK in \in AddCalls : AddPortRouting(c, in.app, in.opts)
    BY <1>1
  <2>2. AddRoute(current_conf, in.app, in.opts) \in Conf
    BY CallsAssumption, AddRouteType DEF TypeOK
  <2> QED
    BY <2>1, <2>2 DEF AddPortRouting, MayCall
<1>2. CASE \E in \in DeleteCalls : DeletePortRouting(c, in.app, in.port)
  <2>1. PICK in \in DeleteCalls : DeletePortRouting(c, in.app, in.port)
    BY <1>2
  <2>2. DeleteRoute(current_conf, in.app, in.port) \in Conf
    BY <2>1, CallsAssumption, DeleteRouteType DEF TypeOK, DeletePortRouting
  <2> QED
    BY <2>1, <2>2 DEF DeletePortRouting, MayCall
<1>3. CASE \E in \in UpdateCalls : AddOrUpdateAppRouting(c, in.app, in.routing)
  <2>1. PICK in \in UpdateCalls : AddOrUpdateAppRouting(c, in.app, in.routing)
    BY <1>3
  <2>2. ReplaceRoutes(current_conf, in.app, in.routing) \in Conf
    BY CallsAssumption, ReplaceRoutesType DEF TypeOK
  <2> QED
    BY <2>1, <2>2 DEF AddOrUpdateAppRouting, MayCall
<1> QED
  BY <1>1, <1>2, <1>3

\* Every step is a call, a step of writeFile or of its callback, a step of
\* discovery, of the agent's restart or of nginx, or changes nothing.
LEMMA StepKinds ==
    ASSUME TypeOK, [Next]_vars
    PROVE  \/ \E c \in Clients, conf \in Conf :
                /\ InPhase(c, "idle")
                /\ UpdateConfiguration(c, conf)
                /\ UNCHANGED ngxVars
           \/ \E c \in Clients : OpenFile(c)
           \/ \E c \in Clients : WriteFile(c)
           \/ \E c \in Clients : Callback(c)
           \/ Discover
           \/ RestartAgent
           \/ Wake /\ UNCHANGED ctlVars
           \/ InitCycle /\ UNCHANGED ctlVars
           \/ RunCycle /\ UNCHANGED ctlVars
           \/ Stop /\ UNCHANGED ctlVars
           \/ Start /\ UNCHANGED ctlVars
           \/ UNCHANGED vars
<1>1. ASSUME NEW c \in Clients,
             \/ \E in \in AddCalls : AddPortRouting(c, in.app, in.opts)
             \/ \E in \in DeleteCalls : DeletePortRouting(c, in.app, in.port)
             \/ \E in \in UpdateCalls : AddOrUpdateAppRouting(c, in.app, in.routing)
      PROVE  \E conf \in Conf : /\ InPhase(c, "idle")
                                /\ UpdateConfiguration(c, conf)
                                /\ UNCHANGED ngxVars
  BY <1>1, CallsUpdate
<1> QED
  BY <1>1 DEF Next, Nginx

-----------------------------------------------------------------------------
(* Type correctness.                                                       *)

Call == [phase : {"idle", "open", "write", "callback"},
         text : Texts \cup {Undefined}, ver : 0..version,
         failed : BOOLEAN, alone : BOOLEAN]

LEMMA TypeInit ==
    Init => TypeOK
<1> SUFFICES ASSUME Init PROVE TypeOK
  OBVIOUS
<1>1. Render(InitialConf) \in Texts
  BY InitialAssumption, RenderType
<1>2. EmptyConf \in Conf
  BY DEF EmptyConf, Conf
<1>3. Idle \in Call
  BY DEF Idle, Init, Call
<1>4. calls \in [Clients -> Call] /\ \A c \in Clients : InPhase(c, "idle")
  BY <1>3 DEF Init, InPhase, Idle
<1>5. /\ file.text \in Texts /\ file.ver \in 0..version
      /\ ngx_cycle \in [text : Texts, ver : 0..version]
      /\ cycle \in [text : Texts, ver : 0..version]
  BY <1>1 DEF Init, NgxInit
<1>6. starts \in Nat /\ ngx_pid \in 0..starts /\ pid \in 1..starts /\ version \in Nat
  BY DEF Init, NgxInit
<1>7. /\ sighup \in BOOLEAN /\ loading \in {"suspended", "reconfigure", "loaded"}
      /\ last \in Outcomes
  BY DEF Init, NgxInit, Outcomes
<1>8. current_conf \in Conf
  BY <1>2 DEF Init
<1> QED
  BY <1>4, <1>5, <1>6, <1>7, <1>8 DEF TypeOK, Call

LEMMA TypeStep ==
    TypeOK /\ [Next]_vars => TypeOK'
<1> SUFFICES ASSUME TypeOK, [Next]_vars PROVE TypeOK'
  OBVIOUS
<1> USE DEF TypeOK, InPhase, Outcomes
<1>1. ASSUME NEW c \in Clients, NEW conf \in Conf, InPhase(c, "idle"),
             UpdateConfiguration(c, conf), UNCHANGED ngxVars
      PROVE  TypeOK'
  <2>1. Render(conf) \in Texts
    BY RenderType
  <2>2. version' = version + 1 /\ version \in Nat
    BY <1>1 DEF UpdateConfiguration
  <2>3. ASSUME NEW d \in Clients
        PROVE  /\ Disturbed[d] \in Call'
               /\ Disturbed[d].phase = calls[d].phase
               /\ Disturbed[d].text = calls[d].text
    <3>1. calls[d] \in Call
      BY DEF Call
    <3>2. calls[d] \in Call'
      BY <2>2, <3>1 DEF Call
    <3>3. Disturbed[d] = [calls[d] EXCEPT !.alone = FALSE]
      BY DEF Disturbed
    <3> QED
      BY <3>2, <3>3 DEF Call
  <2>4. CASE Rendered(c, conf)
    <3>1. [phase |-> "open", text |-> Render(conf), ver |-> version + 1,
           failed |-> FALSE, alone |-> Quiet] \in Call'
      <4>1. Quiet \in BOOLEAN
        BY DEF Quiet
      <4> QED
        BY <2>1, <2>2, <4>1 DEF Call
    <3>2. calls' \in [Clients -> Call']
      BY <2>3, <2>4, <3>1 DEF Rendered, Disturbed
    <3>3. \A d \in Clients : ~InPhase(d, "idle")' => calls'[d].text \in Texts
      BY <2>1, <2>3, <2>4 DEF Rendered, Disturbed
    <3> QED
      BY <1>1, <2>2, <2>4, <3>2, <3>3 DEF UpdateConfiguration, Rendered, ngxVars, Call
  <2>5. CASE RenderFails
    <3>1. calls' \in [Clients -> Call']
      BY <2>3, <2>5 DEF RenderFails, Disturbed
    <3>2. \A d \in Clients : ~InPhase(d, "idle")' => calls'[d].text \in Texts
      BY <2>3, <2>5 DEF RenderFails
    <3> QED
      BY <1>1, <2>2, <2>5, <3>1, <3>2 DEF UpdateConfiguration, RenderFails, ngxVars, Call
  <2> QED
    BY <1>1, <2>4, <2>5 DEF UpdateConfiguration
<1>2. ASSUME NEW c \in Clients, OpenFile(c) PROVE TypeOK'
  BY <1>2 DEF OpenFile, Truncated
<1>3. ASSUME NEW c \in Clients, WriteFile(c) PROVE TypeOK'
  BY <1>3 DEF WriteFile, Overlay
<1>4. ASSUME NEW c \in Clients, Callback(c) PROVE TypeOK'
  <2>1. Idle \in Call
    BY DEF Idle, Call
  <2>2. calls' \in [Clients -> Call]
    BY <1>4, <2>1 DEF Callback, Call
  <2>3. \A d \in Clients : ~InPhase(d, "idle")' => calls'[d].text \in Texts
    BY <1>4 DEF Callback, Idle
  <2>4. last' \in Outcomes /\ sighup' \in BOOLEAN
    BY <1>4 DEF Callback
  <2> QED
    BY <1>4, <2>2, <2>3, <2>4 DEF Callback, Call
<1>5. CASE Discover
  BY <1>5 DEF Discover, ngxVars
<1>6. CASE RestartAgent
  <2>1. EmptyConf \in Conf
    BY DEF EmptyConf, Conf
  <2> QED
    BY <1>6, <2>1 DEF RestartAgent, ngxVars, Idle
<1>7. CASE Wake /\ UNCHANGED ctlVars
  BY <1>7 DEF Wake, ctlVars
<1>8. CASE InitCycle /\ UNCHANGED ctlVars
  <2>1. Accepts(file) => file.text \in Texts
    BY DEF Accepts, Whole
  <2> QED
    BY <1>8, <2>1 DEF InitCycle, ctlVars, Content
<1>9. CASE Stop /\ UNCHANGED ctlVars
  <2>1. 0 \in 0..starts
    OBVIOUS
  <2> QED
    BY <1>9, <2>1 DEF Stop, ctlVars
<1>10. CASE Start /\ UNCHANGED ctlVars
  <2>1. file.text \in Texts
    BY <1>10 DEF Start, Accepts, Whole
  <2> QED
    BY <1>10, <2>1 DEF Start, ctlVars, Content
<1>11. CASE RunCycle /\ UNCHANGED ctlVars
  BY <1>11 DEF RunCycle, ctlVars
<1>12. CASE UNCHANGED vars
  BY <1>12 DEF vars
<1> QED
  BY <1>1, <1>2, <1>3, <1>4, <1>5, <1>6, <1>7, <1>8, <1>9, <1>10, <1>11, <1>12, StepKinds

\* All variables keep their types: the pid is one nginx has had, every
\* version was rendered, every call under way carries a text, and the table
\* is always a table.
THEOREM TypeCorrect == Spec => []TypeOK
<1>1. Init => TypeOK
  BY TypeInit
<1>2. TypeOK /\ [Next]_vars => TypeOK'
  BY TypeStep
<1> QED
  BY <1>1, <1>2, PTL DEF Spec

-----------------------------------------------------------------------------
(* No reload is missed.  A step that makes the file acceptable (a write)   *)
(* leaves a call that has still to signal, and a pending signal leads to   *)
(* another reading.  The strengthening says the same of the configuration  *)
(* nginx has read and does not run yet.                                    *)

LoadedIsFresh ==
    /\ ngx_pid # 0 /\ ~sighup /\ loading = "loaded"
    /\ Answered /\ \A c \in Clients : ~InPhase(c, "callback")
    /\ Accepts(file)
    => cycle = Content(file)

ReloadInv == NoMissedReload /\ LoadedIsFresh

LEMMA TruncatedRefused == ~Accepts(Truncated)
  BY DEF Accepts, Whole, Truncated

LEMMA NoMissedReloadStep ==
    TypeOK /\ ReloadInv /\ [Next]_vars => ReloadInv'
<1> SUFFICES ASSUME TypeOK, ReloadInv, [Next]_vars PROVE ReloadInv'
  OBVIOUS
<1> USE DEF ReloadInv, NoMissedReload, LoadedIsFresh
<1>1. ASSUME NEW c \in Clients, NEW conf \in Conf, InPhase(c, "idle"),
             UpdateConfiguration(c, conf), UNCHANGED ngxVars
      PROVE  ReloadInv'
  <2>1. CASE Rendered(c, conf)
    <3>1. \A d \in Clients : InPhase(d, "callback") => InPhase(d, "callback")'
      BY <1>1, <2>1 DEF Rendered, Disturbed, InPhase, TypeOK
    <3>2. Answered' => Answered
      BY <2>1 DEF Rendered, Answered
    <3>3. Accepts(file)' = Accepts(file) /\ Content(file)' = Content(file)
      BY <1>1 DEF ngxVars
    <3> QED
      BY <1>1, <3>1, <3>2, <3>3 DEF ngxVars
  <2>2. CASE RenderFails
    BY <2>2 DEF RenderFails, Answered
  <2> QED
    BY <1>1, <2>1, <2>2 DEF UpdateConfiguration
<1>2. ASSUME NEW c \in Clients, OpenFile(c) PROVE ReloadInv'
  <2>1. CASE file' = Truncated
    BY <2>1, TruncatedRefused
  <2>2. CASE calls' = [calls EXCEPT ![c].phase = "callback", ![c].failed = TRUE]
    BY <2>2 DEF InPhase, TypeOK
  <2> QED
    BY <1>2, <2>1, <2>2 DEF OpenFile
<1>3. ASSUME NEW c \in Clients, WriteFile(c) PROVE ReloadInv'
  <2>1. InPhase(c, "callback")'
    BY <1>3 DEF WriteFile, InPhase, TypeOK
  <2> QED
    BY <2>1
<1>4. ASSUME NEW c \in Clients, Callback(c) PROVE ReloadInv'
  BY <1>4 DEF Callback, Answered
<1>5. CASE Discover
  BY <1>5 DEF Discover, ngxVars, Answered, InPhase
<1>6. CASE RestartAgent
  BY <1>6 DEF RestartAgent, Answered
<1>7. CASE Wake /\ UNCHANGED ctlVars
  BY <1>7 DEF Wake
<1>8. CASE InitCycle /\ UNCHANGED ctlVars
  BY <1>8 DEF InitCycle
<1>9. CASE Stop /\ UNCHANGED ctlVars
  BY <1>9 DEF Stop
<1>10. CASE Start /\ UNCHANGED ctlVars
  BY <1>10 DEF Start
<1>11. CASE RunCycle /\ UNCHANGED ctlVars
  BY <1>11 DEF RunCycle, ctlVars, Answered, InPhase
<1>12. CASE UNCHANGED vars
  BY <1>12 DEF vars, Answered, InPhase
<1> QED
  BY <1>1, <1>2, <1>3, <1>4, <1>5, <1>6, <1>7, <1>8, <1>9, <1>10, <1>11, <1>12, StepKinds

\* No reload is missed, however the calls of any number of clients overlap
\* and whatever fails: reload signals after every write, and nginx clears
\* its flag before it reads.
THEOREM ReloadsNotMissed == Spec => []NoMissedReload
<1>1. Init => ReloadInv
  BY DEF Init, ReloadInv, NoMissedReload, LoadedIsFresh, Answered
<1>2. TypeOK /\ ReloadInv /\ [Next]_vars => ReloadInv'
  BY NoMissedReloadStep
<1>3. ReloadInv => NoMissedReload
  BY DEF ReloadInv
<1> QED
  BY <1>1, <1>2, <1>3, TypeCorrect, PTL DEF Spec

-----------------------------------------------------------------------------
(* An isolated update is on disk.  The strengthening follows the call that *)
(* nothing overlaps through its phases.                                    *)

OnDisk == Whole(file) /\ file.text = Render(current_conf)

\* While a call is alone no other call is under way, its text is the
\* rendering of the table, and each phase leaves the file as it should be.
AloneOnItsWay ==
    \A c \in Clients : calls[c].alone =>
        /\ ~InPhase(c, "idle")
        /\ \A d \in Clients : d # c => InPhase(d, "idle")
        /\ calls[c].text = Render(current_conf)
        /\ InPhase(c, "write") => file = Truncated
        /\ InPhase(c, "callback") /\ ~calls[c].failed => OnDisk

IsolatedInv == AloneOnItsWay /\ SettledFile

LEMMA IsolatedStep ==
    TypeOK /\ IsolatedInv /\ [Next]_vars => IsolatedInv'
<1> SUFFICES ASSUME TypeOK, IsolatedInv, [Next]_vars PROVE IsolatedInv'
  OBVIOUS
<1> USE DEF IsolatedInv
<1>0. /\ calls \in [Clients -> Call] /\ current_conf \in Conf
      /\ Render(current_conf) # Undefined
  BY RenderType, TextAssumption DEF TypeOK, Call
<1>1. ASSUME NEW c \in Clients, NEW conf \in Conf, InPhase(c, "idle"),
             UpdateConfiguration(c, conf), UNCHANGED ngxVars
      PROVE  IsolatedInv'
  <2>1. CASE Rendered(c, conf)
    <3>1. calls'[c] = [phase |-> "open", text |-> Render(conf), ver |-> version + 1,
                       failed |-> FALSE, alone |-> Quiet]
      BY <1>0, <2>1 DEF Rendered, Disturbed
    <3>2. \A d \in Clients : d # c => ~calls'[d].alone /\ calls'[d].phase = calls[d].phase
      BY <1>0, <2>1 DEF Rendered, Disturbed, Call
    <3>3. current_conf' = conf
      BY <1>1 DEF UpdateConfiguration
    <3>4. ASSUME NEW d \in Clients, calls'[d].alone
          PROVE  /\ d = c /\ Quiet /\ InPhase(d, "open")'
                 /\ calls'[d].text = Render(current_conf)'
      BY <3>1, <3>2, <3>3, <3>4 DEF InPhase
    <3>5. AloneOnItsWay'
      BY <3>2, <3>4 DEF AloneOnItsWay, InPhase, Quiet
    <3>6. SettledFile'
      BY <3>1 DEF SettledFile, Quiet, InPhase
    <3> QED
      BY <3>5, <3>6
  <2>2. CASE RenderFails
    <3>1. \A d \in Clients : ~calls'[d].alone
      BY <1>0, <2>2 DEF RenderFails, Disturbed, Call
    <3> QED
      BY <2>2, <3>1 DEF RenderFails, AloneOnItsWay, SettledFile
  <2> QED
    BY <1>1, <2>1, <2>2 DEF UpdateConfiguration
<1>2. ASSUME NEW c \in Clients, OpenFile(c) PROVE IsolatedInv'
  <2>1. ~InPhase(c, "idle") /\ ~InPhase(c, "idle")'
    BY <1>0, <1>2 DEF OpenFile, InPhase, Call
  <2>2. SettledFile'
    BY <2>1 DEF SettledFile, Quiet
  <2>3. ASSUME NEW d \in Clients, calls'[d].alone
        PROVE  d = c /\ calls[c].alone
    BY <1>0, <1>2, <2>1, <2>3 DEF OpenFile, AloneOnItsWay, Call
  <2>4. AloneOnItsWay'
    BY <1>0, <1>2, <2>1, <2>3 DEF OpenFile, AloneOnItsWay, InPhase, Call
  <2> QED
    BY <2>2, <2>4
<1>3. ASSUME NEW c \in Clients, WriteFile(c) PROVE IsolatedInv'
  <2>1. ~InPhase(c, "idle") /\ ~InPhase(c, "idle")'
    BY <1>0, <1>3 DEF WriteFile, InPhase, Call
  <2>2. SettledFile'
    BY <2>1 DEF SettledFile, Quiet
  <2>3. ASSUME NEW d \in Clients, calls'[d].alone
        PROVE  d = c /\ calls[c].alone
    BY <1>0, <1>3, <2>1, <2>3 DEF WriteFile, AloneOnItsWay, Call
  <2>4. ASSUME calls[c].alone, file' = Overlay(calls[c], file)
        PROVE  OnDisk'
    <3>1. file = Truncated /\ calls[c].text = Render(current_conf)
      BY <1>3, <2>4 DEF WriteFile, AloneOnItsWay
    <3>2. file' = [text |-> calls[c].text, ver |-> calls[c].ver, size |-> Size(calls[c].text)]
      BY <2>4, <3>1 DEF Overlay
    <3>3. current_conf' = current_conf
      BY <1>3 DEF WriteFile
    <3> QED
      BY <1>0, <3>1, <3>2, <3>3 DEF OnDisk, Whole
  <2>5. calls'[c].phase = "callback" /\ (calls'[c].failed \/ file' = Overlay(calls[c], file))
    BY <1>0, <1>3 DEF WriteFile, Call
  <2>6. /\ calls'[c].text = calls[c].text /\ current_conf' = current_conf
        /\ \A d \in Clients : d # c => calls'[d] = calls[d]
    BY <1>0, <1>3 DEF WriteFile, Call
  <2>7. AloneOnItsWay'
    BY <1>0, <2>1, <2>3, <2>4, <2>5, <2>6 DEF AloneOnItsWay, InPhase
  <2> QED
    BY <2>2, <2>7
<1>4. ASSUME NEW c \in Clients, Callback(c) PROVE IsolatedInv'
  <2>1. calls'[c] = Idle /\ \A d \in Clients : d # c => calls'[d] = calls[d]
    BY <1>0, <1>4 DEF Callback
  <2>2. \A d \in Clients : ~calls'[d].alone
    BY <1>4, <2>1 DEF Callback, AloneOnItsWay, InPhase, Idle
  <2>3. last' = "alone" => calls[c].alone /\ ~calls[c].failed
    BY <1>4 DEF Callback
  <2>4. SettledFile'
    BY <1>4, <2>3 DEF Callback, AloneOnItsWay, SettledFile, OnDisk
  <2> QED
    BY <2>2, <2>4 DEF AloneOnItsWay
<1>5. ASSUME UNCHANGED <<file, calls, last, current_conf>> PROVE IsolatedInv'
  BY <1>5 DEF AloneOnItsWay, SettledFile, OnDisk, InPhase, Quiet
<1>6. CASE RestartAgent
  BY <1>6 DEF RestartAgent, AloneOnItsWay, SettledFile, Idle
<1>7. CASE Discover \/ UNCHANGED vars
  BY <1>5, <1>7 DEF Discover, ngxVars, vars
<1>8. CASE (Wake \/ InitCycle \/ RunCycle \/ Stop \/ Start) /\ UNCHANGED ctlVars
  BY <1>5, <1>8 DEF Wake, InitCycle, RunCycle, Stop, Start, ctlVars
<1> QED
  BY <1>1, <1>2, <1>3, <1>4, <1>6, <1>7, <1>8, StepKinds

\* An update that no other call overlaps and that is answered without an
\* error is on disk, complete, until the next call; whatever other calls
\* did before and whatever failed.
THEOREM IsolatedUpdateSettles == Spec => []SettledFile
<1>1. Init => IsolatedInv
  BY DEF Init, IsolatedInv, AloneOnItsWay, SettledFile, Idle
<1>2. TypeOK /\ IsolatedInv /\ [Next]_vars => IsolatedInv'
  BY IsolatedStep
<1>3. IsolatedInv => SettledFile
  BY DEF IsolatedInv
<1> QED
  BY <1>1, <1>2, <1>3, TypeCorrect, PTL DEF Spec

-----------------------------------------------------------------------------
(* With one client nginx only moves forward.  A call under way carries the *)
(* newest version, and a complete file is never older than what nginx has  *)
(* read, nor that than what it runs.                                       *)

ForwardInv ==
    /\ \A c \in Clients : ~InPhase(c, "idle") => calls[c].ver = version
    /\ Whole(file) => cycle.ver <= file.ver
    /\ ngx_cycle.ver <= cycle.ver

LEMMA ForwardStep ==
    ASSUME NEW client, Clients = {client}, TypeOK, ForwardInv, [Next]_vars
    PROVE  ForwardInv' /\ ngx_cycle'.ver >= ngx_cycle.ver
<1> USE DEF ForwardInv, InPhase
<1>0. /\ calls \in [Clients -> Call] /\ version \in Nat
      /\ ngx_cycle.ver \in 0..version /\ cycle.ver \in 0..version
      /\ file.ver \in 0..version
  BY DEF TypeOK, Call
<1>1. ASSUME NEW c \in Clients, NEW conf \in Conf, InPhase(c, "idle"),
             UpdateConfiguration(c, conf), UNCHANGED ngxVars
      PROVE  ForwardInv' /\ ngx_cycle'.ver >= ngx_cycle.ver
  <2>1. \A d \in Clients : ~InPhase(d, "idle")' => calls'[d].ver = version'
    <3>1. CASE Rendered(c, conf)
      BY <1>0, <1>1, <3>1 DEF UpdateConfiguration, Rendered, Disturbed, Call
    <3>2. CASE RenderFails
      BY <1>0, <1>1, <3>2 DEF RenderFails, Disturbed, Call
    <3> QED
      BY <1>1, <3>1, <3>2 DEF UpdateConfiguration
  <2>2. UNCHANGED <<file, ngx_cycle, cycle, loading>>
    BY <1>1 DEF ngxVars
  <2> QED
    BY <1>0, <2>1, <2>2
<1>2. ASSUME NEW c \in Clients, OpenFile(c)
      PROVE  ForwardInv' /\ ngx_cycle'.ver >= ngx_cycle.ver
  <2>1. ~Whole(Truncated)
    BY DEF Whole, Truncated
  <2>2. \A d \in Clients : ~InPhase(d, "idle")' => calls'[d].ver = version'
    BY <1>0, <1>2 DEF OpenFile, Call
  <2> QED
    BY <1>0, <1>2, <2>1, <2>2 DEF OpenFile
<1>3. ASSUME NEW c \in Clients, WriteFile(c)
      PROVE  ForwardInv' /\ ngx_cycle'.ver >= ngx_cycle.ver
  <2>1. \A d \in Clients : ~InPhase(d, "idle")' => calls'[d].ver = version'
    BY <1>0, <1>3 DEF WriteFile, Call
  <2>2. file' = file \/ file'.ver = version
    BY <1>0, <1>3 DEF WriteFile, Overlay
  <2> QED
    BY <1>0, <1>3, <2>1, <2>2 DEF WriteFile
<1>4. ASSUME NEW c \in Clients, Callback(c)
      PROVE  ForwardInv' /\ ngx_cycle'.ver >= ngx_cycle.ver
  <2>1. \A d \in Clients : ~InPhase(d, "idle")' => calls'[d].ver = version'
    BY <1>0, <1>4 DEF Callback, Idle
  <2> QED
    BY <1>0, <1>4, <2>1 DEF Callback
<1>5. CASE Discover
  BY <1>0, <1>5 DEF Discover, ngxVars
<1>6. CASE RestartAgent
  BY <1>0, <1>6 DEF RestartAgent, ngxVars, Idle
<1>7. CASE (Wake \/ Stop) /\ UNCHANGED ctlVars
  BY <1>0, <1>7 DEF Wake, Stop, ctlVars
<1>8. CASE (InitCycle \/ RunCycle \/ Start) /\ UNCHANGED ctlVars
  BY <1>0, <1>8 DEF InitCycle, RunCycle, Start, Accepts, Content, ctlVars
<1>9. CASE UNCHANGED vars
  BY <1>0, <1>9 DEF vars
<1> QED
  BY <1>1, <1>2, <1>3, <1>4, <1>5, <1>6, <1>7, <1>8, <1>9, StepKinds

\* With a single client nginx never goes back to an older configuration,
\* whatever fails or restarts: updateConfiguration finishes its write before
\* the next one begins, and a refused file leaves the running one in place.
THEOREM OneClientForward ==
    ASSUME NEW client, Clients = {client}
    PROVE  Spec => ServedForward
<1>1. Init => ForwardInv
  BY DEF Init, NgxInit, ForwardInv, InPhase, Idle
<1>2. TypeOK /\ ForwardInv /\ [Next]_vars
        => ForwardInv' /\ [ngx_cycle'.ver >= ngx_cycle.ver]_vars
  BY ForwardStep
<1> QED
  BY <1>1, <1>2, TypeCorrect, PTL DEF Spec, ServedForward

-----------------------------------------------------------------------------
(* With one client nginx can be started again.  Here the table matters:    *)
(* what is rendered is accepted because the table is sound.                *)

\* No call asks for something nginx cannot be told.
CallsSound(listen) ==
    /\ \A in \in AddCalls : SoundAdd(listen, in.app, in.opts)
    /\ \A in \in UpdateCalls : SoundUpdate(listen, in.app, in.routing)

\* Whatever the step, the table stays sound.
LEMMA TableStaysSound ==
    ASSUME NEW listen, CallsSound(listen), TypeOK, [Next]_vars,
           SoundTable(listen, current_conf)
    PROVE  SoundTable(listen, current_conf')
<1>0. current_conf \in Conf
  BY DEF TypeOK
<1>1. ASSUME NEW c \in Clients, NEW in \in AddCalls, AddPortRouting(c, in.app, in.opts)
      PROVE  SoundTable(listen, current_conf')
  <2>1. in.app \in Apps /\ in.opts \in AddOpts /\ SoundAdd(listen, in.app, in.opts)
    BY CallsAssumption DEF CallsSound
  <2>2. current_conf' = AddRoute(current_conf, in.app, in.opts)
    BY <1>1 DEF AddPortRouting, UpdateConfiguration
  <2> QED
    BY <1>0, <2>1, <2>2, AddRouteKeeps
<1>2. ASSUME NEW c \in Clients, NEW in \in DeleteCalls, DeletePortRouting(c, in.app, in.port)
      PROVE  SoundTable(listen, current_conf')
  <2>1. in.app \in Apps /\ current_conf["http"][in.app] # Undefined
    BY <1>2, CallsAssumption DEF DeletePortRouting
  <2>2. current_conf' = DeleteRoute(current_conf, in.app, in.port)
    BY <1>2 DEF DeletePortRouting, UpdateConfiguration
  <2> QED
    BY <1>0, <2>1, <2>2, DeleteRouteKeeps
<1>3. ASSUME NEW c \in Clients, NEW in \in UpdateCalls,
             AddOrUpdateAppRouting(c, in.app, in.routing)
      PROVE  SoundTable(listen, current_conf')
  <2>1. /\ in.app \in Apps /\ in.routing \in RoutingOpts
        /\ SoundUpdate(listen, in.app, in.routing)
    BY CallsAssumption DEF CallsSound
  <2>2. /\ current_conf' = ReplaceRoutes(current_conf, in.app, in.routing)
        /\ ~BindsSamePort(current_conf, in.app, in.routing)
    BY <1>3 DEF AddOrUpdateAppRouting, UpdateConfiguration
  <2> QED
    BY <1>0, <2>1, <2>2, ReplaceRoutesKeeps
<1>4. CASE RestartAgent
  BY <1>4 DEF RestartAgent, SoundTable, EmptyConf
<1>5. CASE UNCHANGED current_conf
  BY <1>5
<1>6. ASSUME NEW c \in Clients, OpenFile(c) \/ WriteFile(c) \/ Callback(c)
      PROVE  UNCHANGED current_conf
  BY <1>6 DEF OpenFile, WriteFile, Callback
<1>7. Discover \/ Nginx \/ UNCHANGED vars => UNCHANGED current_conf
  BY DEF Discover, Nginx, ctlVars, vars
<1> QED
  BY <1>1, <1>2, <1>3, <1>4, <1>5, <1>6, <1>7 DEF Next

\* What is on its way is accepted, the file is accepted or has just been
\* truncated, and only a call that fails leaves it so.
RestartInv ==
    /\ \A c \in Clients : ~InPhase(c, "idle") => Valid(calls[c].text)
    /\ Accepts(file) \/ file = Truncated
    /\ \A c \in Clients :
        /\ InPhase(c, "write") => file = Truncated
        /\ InPhase(c, "callback") /\ ~calls[c].failed => Accepts(file)
    /\ Quiet /\ Answered => Accepts(file)

LEMMA RestartStep ==
    ASSUME NEW client, Clients = {client}, TypeOK, RestartInv, [Next]_vars,
           Valid(Render(current_conf'))
    PROVE  RestartInv'
<1> USE DEF RestartInv, InPhase
<1>0. /\ calls \in [Clients -> Call] /\ client \in Clients
      /\ ~InPhase(client, "idle") => calls[client].text \in Texts
      /\ Quiet <=> InPhase(client, "idle")
      /\ Quiet' <=> InPhase(client, "idle")'
  BY DEF TypeOK, Call, Quiet
<1>1. ASSUME NEW conf \in Conf, InPhase(client, "idle"),
             UpdateConfiguration(client, conf), UNCHANGED ngxVars
      PROVE  RestartInv'
  <2>0. file' = file /\ current_conf' = conf
    BY <1>1 DEF ngxVars, UpdateConfiguration
  <2>1. CASE Rendered(client, conf)
    <3>1. calls'[client].phase = "open" /\ calls'[client].text = Render(current_conf')
      BY <1>0, <2>0, <2>1 DEF Rendered, Disturbed
    <3> QED
      BY <1>0, <2>0, <3>1 DEF Accepts
  <2>2. CASE RenderFails
    <3>1. calls'[client].phase = "idle" /\ ~Answered'
      BY <1>0, <1>1, <2>2 DEF RenderFails, Disturbed, Answered, Call
    <3> QED
      BY <1>0, <2>0, <3>1 DEF Accepts
  <2> QED
    BY <1>1, <2>1, <2>2 DEF UpdateConfiguration
<1>2. CASE OpenFile(client)
  <2>1. /\ calls'[client].text = calls[client].text
        /\ \/ calls'[client].phase = "write" /\ file' = Truncated
           \/ calls'[client].phase = "callback" /\ calls'[client].failed /\ file' = file
    BY <1>0, <1>2 DEF OpenFile, Call
  <2>2. calls[client].phase = "open"
    BY <1>2 DEF OpenFile
  <2> QED
    BY <1>0, <2>1, <2>2
<1>3. CASE WriteFile(client)
  <2>1. /\ calls'[client].text = calls[client].text /\ calls'[client].phase = "callback"
        /\ \/ file' = Overlay(calls[client], file)
           \/ calls'[client].failed /\ file' = file
    BY <1>0, <1>3 DEF WriteFile, Call
  <2>2. calls[client].phase = "write" /\ file = Truncated
    BY <1>0, <1>3 DEF WriteFile
  <2>3. Accepts(Overlay(calls[client], Truncated))
    BY <1>0, <2>2, TextAssumption DEF Accepts, Whole, Overlay
  <2> QED
    BY <1>0, <2>1, <2>2, <2>3
<1>4. CASE Callback(client)
  <2>1. /\ calls'[client].phase = "idle" /\ file' = file
        /\ Answered' => ~calls[client].failed
    BY <1>0, <1>4 DEF Callback, Idle, Answered
  <2>2. calls[client].phase = "callback"
    BY <1>4 DEF Callback
  <2> QED
    BY <1>0, <2>1, <2>2
<1>5. CASE RestartAgent
  <2>1. calls'[client].phase = "idle" /\ file' = file /\ ~Answered'
    BY <1>0, <1>5 DEF RestartAgent, Idle, Answered, ngxVars
  <2> QED
    BY <1>0, <2>1
<1>6. ASSUME UNCHANGED <<file, calls, last>> PROVE RestartInv'
  BY <1>6 DEF Quiet, Answered
<1>7. CASE Discover \/ UNCHANGED vars
  BY <1>6, <1>7 DEF Discover, ngxVars, vars
<1>8. CASE (Wake \/ InitCycle \/ RunCycle \/ Stop \/ Start) /\ UNCHANGED ctlVars
  BY <1>6, <1>8 DEF Wake, InitCycle, RunCycle, Stop, Start, ctlVars
<1> QED
  BY <1>1, <1>2, <1>3, <1>4, <1>5, <1>7, <1>8, StepKinds

\* With a single client nginx can be started again whenever no call is under
\* way, whatever calls came before and whatever failed: the file is accepted,
\* or a failed write or a dead agent has left it empty and the caller knows.
\* The calls are such as RoutingTableProofs!FilesAccepted asks for.
THEOREM OneClientRestartable ==
    ASSUME NEW client, Clients = {client},
           NEW CONSTANT listen, ListenApart(listen), CallsSound(listen)
    PROVE  Spec => []Restartable
<1> DEFINE Sound == SoundTable(listen, current_conf)
<1>1. Init => RestartInv
  <2> SUFFICES ASSUME Init PROVE RestartInv
    OBVIOUS
  <2>1. Render(InitialConf) # Undefined /\ Valid(Render(InitialConf))
    BY InitialAssumption, RenderType, TextAssumption
  <2>2. Accepts(file)
    BY <2>1 DEF Init, NgxInit, Accepts, Whole
  <2>3. \A c \in Clients : InPhase(c, "idle")
    BY DEF Init, InPhase, Idle
  <2> QED
    BY <2>2, <2>3 DEF RestartInv, InPhase
<1>2. Init => Sound
  BY DEF Init, SoundTable, EmptyConf
<1>3. TypeOK /\ Sound /\ [Next]_vars => Sound'
  BY TableStaysSound
<1>4. TypeOK' /\ Sound' => Valid(Render(current_conf'))
  BY SoundIsValid DEF TypeOK
<1>5. TypeOK /\ TypeOK' /\ Sound' /\ RestartInv /\ [Next]_vars => RestartInv'
  BY <1>4, RestartStep
<1>6. RestartInv => Restartable
  BY DEF RestartInv, Restartable
<1> HIDE DEF Sound
<1> QED
  BY <1>1, <1>2, <1>3, <1>5, <1>6, TypeCorrect, PTL DEF Spec

-----------------------------------------------------------------------------
(* The refinement: with one client every step is a step of RoutingService  *)
(* or changes nothing there.                                               *)

\* A version stands for one text wherever it is met, so that nginx does not
\* move when it loads what it runs.
OneTextPerVersion ==
    \A x, y \in Underway \cup {ngx_cycle} : x.ver = y.ver => x = y

\* A call that goes well leaves the newest version in the file.
Written ==
    \A c \in Clients :
        /\ InPhase(c, "write") => file = Truncated
        /\ InPhase(c, "callback") /\ ~calls[c].failed => Whole(file) /\ file.ver = version

\* A master that is up and has loaded nothing new runs its cycle.
CycleRuns ==
    /\ ngx_pid # 0 /\ loading # "loaded" => cycle = ngx_cycle
    /\ loading # "suspended" => ngx_pid # 0

ServiceInv == ForwardInv /\ OneTextPerVersion /\ Written /\ CycleRuns

Sending(c) == InPhase(c, "open") \/ InPhase(c, "write")

LEMMA UnderwayIs ==
    /\ \A x : x \in Underway <=>
            \/ \E c \in Clients : Sending(c) /\ x = Content(calls[c])
            \/ Whole(file) /\ x = Content(file)
            \/ x = cycle
    /\ \A x : x \in Underway' <=>
            \/ \E c \in Clients : Sending(c)' /\ x = Content(calls'[c])
            \/ Whole(file') /\ x = Content(file')
            \/ x = cycle'
BY DEF Underway, Sending, Content, InPhase

\* Nothing is newer than the newest version.
LEMMA UnderwayTyped ==
    ASSUME TypeOK
    PROVE  Underway \cup {ngx_cycle} \subseteq [text : Texts, ver : 0..version]
<1>1. ASSUME NEW c \in Clients, Sending(c)
      PROVE  Content(calls[c]) \in [text : Texts, ver : 0..version]
  BY <1>1 DEF TypeOK, Content, Sending, InPhase
<1>2. ASSUME Whole(file) PROVE Content(file) \in [text : Texts, ver : 0..version]
  BY <1>2 DEF TypeOK, Content, Whole
<1> QED
  BY <1>1, <1>2, UnderwayIs DEF TypeOK

\* A step either brings a rendered text under way, or none that was not there.
LEMMA UnderwayStep ==
    ASSUME NEW client, Clients = {client}, TypeOK, Written, [Next]_vars
    PROVE  \/ Underway' \cup {ngx_cycle'} \subseteq Underway \cup {ngx_cycle}
           \/ \E conf \in Conf :
                /\ UpdateConfiguration(client, conf) /\ Rendered(client, conf)
                /\ InPhase(client, "idle") /\ UNCHANGED ngxVars
<1> DEFINE Fewer == Underway' \cup {ngx_cycle'} \subseteq Underway \cup {ngx_cycle}
<1>0. client \in Clients /\ calls \in [Clients -> Call] /\ file.text \in Texts \cup {Undefined}
  BY DEF TypeOK, Call
<1>1. ASSUME NEW conf \in Conf, UpdateConfiguration(client, conf), RenderFails,
             UNCHANGED ngxVars
      PROVE  Fewer
  <2>1. \A c \in Clients : calls'[c] = [calls[c] EXCEPT !.alone = FALSE]
    BY <1>0, <1>1 DEF RenderFails, Disturbed
  <2>2. \A c \in Clients : Content(calls'[c]) = Content(calls[c]) /\ Sending(c)' = Sending(c)
    BY <1>0, <2>1 DEF Content, Sending, InPhase, Call
  <2>3. UNCHANGED <<file, cycle, ngx_cycle>>
    BY <1>1 DEF ngxVars
  <2> QED
    BY <2>2, <2>3, UnderwayIs
<1>2. CASE OpenFile(client)
  <2>1. /\ Sending(client) /\ Content(calls'[client]) = Content(calls[client])
        /\ file' = file \/ ~Whole(file')
        /\ UNCHANGED <<cycle, ngx_cycle>>
    BY <1>0, <1>2 DEF OpenFile, Sending, InPhase, Content, Whole, Truncated, Call
  <2> QED
    BY <2>1, UnderwayIs
<1>3. CASE WriteFile(client)
  <2>1. /\ Sending(client) /\ ~Sending(client)'
        /\ file' = file \/ file' = Overlay(calls[client], file)
        /\ UNCHANGED <<cycle, ngx_cycle>>
    BY <1>0, <1>3 DEF WriteFile, Sending, InPhase, Call
  <2>2. Content(Overlay(calls[client], file)) = Content(calls[client])
    BY DEF Overlay, Content
  <2> QED
    BY <2>1, <2>2, UnderwayIs
<1>4. CASE Callback(client) \/ RestartAgent
  <2>1. ~Sending(client)' /\ UNCHANGED <<file, cycle, ngx_cycle>>
    BY <1>0, <1>4 DEF Callback, RestartAgent, Sending, InPhase, Idle, ngxVars
  <2> QED
    BY <2>1, UnderwayIs
<1>5. ASSUME UNCHANGED <<calls, file>>, cycle' \in Underway \cup {ngx_cycle},
             ngx_cycle' \in Underway \cup {ngx_cycle}
      PROVE  Fewer
  <2>1. \A c \in Clients : Sending(c)' = Sending(c)
    BY <1>5 DEF Sending, InPhase
  <2> QED
    BY <1>5, <2>1, UnderwayIs
<1>6. CASE Discover \/ UNCHANGED vars
  BY <1>5, <1>6, UnderwayIs DEF Discover, ngxVars, vars
<1>7. CASE (Wake \/ InitCycle \/ RunCycle \/ Stop \/ Start) /\ UNCHANGED ctlVars
  <2>1. Accepts(file) => Content(file) \in Underway
    BY UnderwayIs DEF Accepts
  <2>2. cycle \in Underway
    BY UnderwayIs
  <2>3. UNCHANGED <<calls, file>>
    BY <1>7 DEF Wake, InitCycle, RunCycle, Stop, Start, ctlVars
  <2>4. /\ cycle' \in {cycle, ngx_cycle} \/ (Accepts(file) /\ cycle' = Content(file))
        /\ ngx_cycle' \in {cycle, ngx_cycle, cycle'}
    BY <1>7 DEF Wake, InitCycle, RunCycle, Stop, Start
  <2> QED
    BY <1>5, <2>1, <2>2, <2>3, <2>4
<1> HIDE DEF Fewer
<1>8. ASSUME NEW conf \in Conf, InPhase(client, "idle"), UpdateConfiguration(client, conf),
             UNCHANGED ngxVars
      PROVE  Fewer \/ Rendered(client, conf)
  BY <1>1, <1>8 DEF UpdateConfiguration
<1> QED
  BY <1>2, <1>3, <1>4, <1>6, <1>7, <1>8, StepKinds DEF Fewer

LEMMA ServiceInvStep ==
    ASSUME NEW client, Clients = {client}, TypeOK, ServiceInv, [Next]_vars
    PROVE  ServiceInv'
<1> USE DEF ServiceInv
<1>0. /\ client \in Clients /\ calls \in [Clients -> Call] /\ version \in Nat
      /\ loading \in {"suspended", "reconfigure", "loaded"} /\ starts \in Nat
      /\ ~InPhase(client, "idle") => calls[client].text \in Texts
  BY DEF TypeOK, Call
<1>1. ForwardInv'
  BY ForwardStep
<1>2. OneTextPerVersion'
  <2>1. ASSUME Underway' \cup {ngx_cycle'} \subseteq Underway \cup {ngx_cycle}
        PROVE  OneTextPerVersion'
    BY <2>1 DEF OneTextPerVersion
  <2>2. ASSUME NEW conf \in Conf, UpdateConfiguration(client, conf), Rendered(client, conf),
               InPhase(client, "idle"), UNCHANGED ngxVars
        PROVE  OneTextPerVersion'
    <3>1. UNCHANGED <<file, cycle, ngx_cycle>>
      BY <2>2 DEF ngxVars
    <3>2. calls'[client].ver = version + 1
      BY <1>0, <2>2 DEF Rendered, Disturbed
    <3>3. \A x \in Underway' \cup {ngx_cycle'} :
            x \in Underway \cup {ngx_cycle} \/ x = Content(calls'[client])
      BY <3>1, UnderwayIs
    <3>4. \A x \in Underway \cup {ngx_cycle} : x.ver \in 0..version
      BY UnderwayTyped
    <3>5. Content(calls'[client]).ver = version + 1
      BY <3>2 DEF Content
    <3>6. \A x \in Underway \cup {ngx_cycle} : x.ver # version + 1
      BY <1>0, <3>4
    <3> QED
      BY <3>3, <3>5, <3>6 DEF OneTextPerVersion
  <2> QED
    BY <2>1, <2>2, UnderwayStep
<1>3. Written'
  <2> USE DEF Written, InPhase
  <2>1. ASSUME NEW conf \in Conf, InPhase(client, "idle"), UpdateConfiguration(client, conf)
        PROVE  Written'
    <3>1. calls'[client].phase \in {"idle", "open"}
      BY <1>0, <2>1 DEF UpdateConfiguration, Rendered, RenderFails, Disturbed, Call
    <3> QED
      BY <3>1
  <2>2. CASE OpenFile(client)
    BY <1>0, <2>2 DEF OpenFile, Call
  <2>3. CASE WriteFile(client)
    <3>1. /\ calls'[client].phase = "callback" /\ version' = version
          /\ calls'[client].failed \/ file' = Overlay(calls[client], Truncated)
      BY <1>0, <2>3 DEF WriteFile, Call
    <3>2. calls[client].text \in Texts /\ calls[client].ver = version
      BY <1>0, <2>3 DEF WriteFile, ForwardInv
    <3>3. /\ Whole(Overlay(calls[client], Truncated))
          /\ Overlay(calls[client], Truncated).ver = version
      BY <3>2, TextAssumption DEF Whole, Overlay
    <3> QED
      BY <3>1, <3>3
  <2>4. CASE Callback(client) \/ RestartAgent
    <3>1. calls'[client].phase = "idle"
      BY <1>0, <2>4 DEF Callback, RestartAgent, Idle
    <3> QED
      BY <3>1
  <2>5. CASE UNCHANGED <<file, calls, version>>
    BY <2>5
  <2>6. CASE Discover \/ UNCHANGED vars
    BY <2>5, <2>6 DEF Discover, ngxVars, vars
  <2>7. CASE (Wake \/ InitCycle \/ RunCycle \/ Stop \/ Start) /\ UNCHANGED ctlVars
    BY <2>5, <2>7 DEF Wake, InitCycle, RunCycle, Stop, Start, ctlVars
  <2> QED
    BY <2>1, <2>2, <2>3, <2>4, <2>6, <2>7, StepKinds
<1>4. CycleRuns'
  <2> USE DEF CycleRuns
  <2>1. CASE UNCHANGED <<ngx_pid, loading, cycle, ngx_cycle>>
    BY <2>1
  <2>2. ASSUME NEW conf \in Conf, UpdateConfiguration(client, conf), UNCHANGED ngxVars
        PROVE  CycleRuns'
    BY <2>1, <2>2 DEF ngxVars
  <2>3. CASE OpenFile(client) \/ WriteFile(client) \/ Callback(client)
    BY <2>1, <2>3 DEF OpenFile, WriteFile, Callback
  <2>4. CASE Discover \/ RestartAgent \/ UNCHANGED vars
    BY <2>1, <2>4 DEF Discover, RestartAgent, ngxVars, vars
  <2>5. CASE Wake \/ InitCycle \/ RunCycle
    BY <1>0, <2>5 DEF Wake, InitCycle, RunCycle
  <2>6. CASE Stop
    BY <2>6 DEF Stop
  <2>7. CASE Start
    BY <1>0, <2>7 DEF Start
  <2> QED
    BY <2>2, <2>3, <2>4, <2>5, <2>6, <2>7, StepKinds
<1> QED
  BY <1>1, <1>2, <1>3, <1>4

Pending == {x \in Underway : x.ver > ngx_cycle.ver}
Confirmed == Quiet /\ Answered

\* The steps of the service, in the controller's terms.
LEMMA ServiceSteps ==
    /\ /\ version' = version + 1 /\ ~Confirmed' /\ ngx_cycle' = ngx_cycle
       /\ Pending' \ Pending \subseteq [text : Texts, ver : {version + 1}]
       /\ \A x, y \in Pending' \ Pending : x = y
       => Service!Next
    /\ /\ \E x \in Pending \cup {ngx_cycle} : x.ver = version
       /\ Confirmed' /\ Pending' = Pending /\ UNCHANGED <<version, ngx_cycle>>
       => Service!Next
    /\ Pending' \subseteq Pending /\ ~Confirmed' /\ UNCHANGED <<version, ngx_cycle>>
       => Service!Next
    /\ /\ ngx_cycle' \in Pending /\ UNCHANGED version /\ Confirmed' = Confirmed
       /\ Pending' = {x \in Pending : x.ver > ngx_cycle'.ver}
       => Service!Next
    /\ Pending' = Pending /\ Confirmed' = Confirmed /\ UNCHANGED <<version, ngx_cycle>>
       => UNCHANGED Service!vars
<1>1. Confirmed \in BOOLEAN /\ Confirmed' \in BOOLEAN
  BY DEF Confirmed
<1> QED
  BY <1>1 DEF Pending, Confirmed, Service!Next, Service!Change, Service!Confirm,
              Service!Lose, Service!Serve, Service!vars

\* Every step of the controller and of nginx is one of the service: a call is a
\* Change, its good answer a Confirm, RunCycle and Start Serve; opening and
\* writing the file, a failure and a restart of the agent Lose what they lose.
LEMMA ServiceStep ==
    ASSUME NEW client, Clients = {client}, TypeOK, ServiceInv, [Next]_vars
    PROVE  Service!Next \/ UNCHANGED Service!vars
<1> USE DEF ServiceInv
<1>0. /\ client \in Clients /\ calls \in [Clients -> Call] /\ version \in Nat
      /\ Quiet <=> InPhase(client, "idle")
      /\ Quiet' <=> InPhase(client, "idle")'
      /\ ngx_cycle.ver \in Nat /\ cycle.ver \in Nat /\ file.ver \in Nat
      /\ ngx_cycle.ver <= version
  BY DEF TypeOK, Call, Quiet
<1>1. Underway \cup {ngx_cycle} \subseteq [text : Texts, ver : 0..version]
  BY UnderwayTyped
<1>2. ASSUME Underway' = Underway, UNCHANGED ngx_cycle
      PROVE  Pending' = Pending
  BY <1>2 DEF Pending
<1>3. ASSUME Underway' \cup {ngx_cycle'} \subseteq Underway \cup {ngx_cycle}, ngx_cycle' = ngx_cycle
      PROVE  Pending' \subseteq Pending
  <2>1. ~(ngx_cycle.ver > ngx_cycle.ver)
    BY <1>0
  <2> QED
    BY <1>3, <2>1 DEF Pending
<1>4. ASSUME NEW conf \in Conf, InPhase(client, "idle"),
             UpdateConfiguration(client, conf), UNCHANGED ngxVars
      PROVE  Service!Next
  <2>1. version' = version + 1 /\ UNCHANGED <<file, cycle, ngx_cycle>>
    BY <1>4 DEF UpdateConfiguration, ngxVars
  <2>2. CASE Rendered(client, conf)
    <3>1. /\ calls'[client].phase = "open" /\ calls'[client].ver = version + 1
          /\ calls'[client].text = Render(conf)
      BY <1>0, <2>2 DEF Rendered, Disturbed
    <3>2. Content(calls'[client]) \in [text : Texts, ver : {version + 1}]
      BY <3>1, RenderType DEF Content
    <3>3. \A x \in Pending' \ Pending : x = Content(calls'[client])
      BY <2>1, UnderwayIs DEF Pending
    <3>4. ~Confirmed'
      BY <1>0, <3>1 DEF Confirmed, InPhase
    <3> QED
      BY <2>1, <3>2, <3>3, <3>4, ServiceSteps
  <2>3. CASE RenderFails
    <3>1. ~Confirmed'
      BY <2>3 DEF RenderFails, Confirmed, Answered
    <3>2. ~Sending(client)'
      BY <1>0, <1>4, <2>3 DEF RenderFails, Disturbed, Sending, InPhase, Call
    <3>3. Pending' \subseteq Pending
      BY <2>1, <3>2, UnderwayIs DEF Pending
    <3> QED
      BY <2>1, <3>1, <3>3, ServiceSteps
  <2> QED
    BY <1>4, <2>2, <2>3 DEF UpdateConfiguration
<1>5. CASE OpenFile(client) \/ WriteFile(client)
  <2>1. calls'[client].phase # "idle" /\ UNCHANGED <<version, ngx_cycle>>
    BY <1>0, <1>5 DEF OpenFile, WriteFile, Call
  <2>2. Underway' \cup {ngx_cycle'} \subseteq Underway \cup {ngx_cycle}
    <3>1. version' # version + 1
      BY <1>0, <2>1
    <3> QED
      BY <3>1, UnderwayStep DEF UpdateConfiguration
  <2> QED
    BY <1>0, <1>3, <2>1, <2>2, ServiceSteps DEF Confirmed, InPhase
<1>6. CASE Callback(client)
  <2>1. /\ calls[client].phase = "callback" /\ calls'[client].phase = "idle"
        /\ UNCHANGED <<version, file, cycle, ngx_cycle>>
        /\ Answered' => ~calls[client].failed
    BY <1>0, <1>6 DEF Callback, InPhase, Idle, Answered
  <2>2. Underway' = Underway
    <3>1. ~Sending(client) /\ ~Sending(client)'
      BY <2>1 DEF Sending, InPhase
    <3>2. \A x : x \in Underway' <=> x \in Underway
      BY <2>1, <3>1, UnderwayIs
    <3> QED
      BY <3>2
  <2>3. ~Confirmed
    BY <1>0, <2>1 DEF Confirmed, InPhase
  <2>4. CASE ~Confirmed'
    BY <1>2, <2>1, <2>2, <2>4, ServiceSteps
  <2>5. CASE Confirmed'
    <3>1. Whole(file) /\ file.ver = version
      BY <1>0, <2>1, <2>5 DEF Written, InPhase, Confirmed
    <3>2. Content(file) \in Underway /\ Content(file).ver = version
      BY <3>1, UnderwayIs DEF Content
    <3>3. \E x \in Pending \cup {ngx_cycle} : x.ver = version
      BY <1>0, <3>2 DEF Pending
    <3> QED
      BY <1>2, <2>1, <2>2, <2>5, <3>3, ServiceSteps
  <2> QED
    BY <2>4, <2>5
<1>7. CASE RestartAgent
  <2>1. ~Answered' /\ UNCHANGED <<version, ngx_cycle>>
    BY <1>7 DEF RestartAgent, Answered, ngxVars
  <2>2. Underway' \cup {ngx_cycle'} \subseteq Underway \cup {ngx_cycle}
    <3>1. version' # version + 1
      BY <1>0, <2>1
    <3> QED
      BY <3>1, UnderwayStep DEF UpdateConfiguration
  <2> QED
    BY <1>3, <2>1, <2>2, ServiceSteps DEF Confirmed
<1> DEFINE Waits(x) == \/ Sending(client) /\ x = Content(calls[client])
                       \/ Whole(file) /\ x = Content(file)
<1>8. \A x : x \in Underway <=> Waits(x) \/ x = cycle
  BY UnderwayIs
<1>9. ASSUME UNCHANGED <<calls, file>>
      PROVE  \A x : x \in Underway' <=> Waits(x) \/ x = cycle'
  <2>1. Sending(client)' = Sending(client)
    BY <1>9 DEF Sending, InPhase
  <2> QED
    BY <1>9, <2>1, UnderwayIs
<1>10. ASSUME UNCHANGED <<calls, last>>
       PROVE  Confirmed' = Confirmed
  BY <1>10 DEF Confirmed, Quiet, Answered, InPhase
<1>11. Whole(file) => Waits(Content(file)) /\ Content(file).ver = file.ver
  BY DEF Content
<1> HIDE DEF Waits
<1>12. ASSUME UNCHANGED <<calls, last, version, file, cycle, ngx_cycle>>
       PROVE  UNCHANGED Service!vars
  <2>1. Underway' = Underway
    BY <1>8, <1>9, <1>12
  <2> QED
    BY <1>2, <1>10, <1>12, <2>1, ServiceSteps
<1>13. CASE Discover \/ (Wake /\ UNCHANGED ctlVars) \/ (Stop /\ UNCHANGED ctlVars) \/ UNCHANGED vars
  BY <1>12, <1>13 DEF Discover, Wake, Stop, ctlVars, ngxVars, vars
<1>14. CASE InitCycle /\ UNCHANGED ctlVars
  <2>1. /\ UNCHANGED <<calls, last, version, file, ngx_cycle>> /\ cycle = ngx_cycle
        /\ cycle' = cycle \/ (Whole(file) /\ cycle' = Content(file))
    BY <1>14 DEF InitCycle, ctlVars, CycleRuns, Accepts
  <2>2. ~(ngx_cycle.ver > ngx_cycle.ver)
    BY <1>0
  <2>3. \A x : x \in Pending' <=> x \in Pending
    BY <1>8, <1>9, <1>11, <2>1, <2>2 DEF Pending
  <2>4. Pending' = Pending
    BY <2>3
  <2> QED
    BY <1>10, <2>1, <2>4, ServiceSteps
<1>15. CASE RunCycle /\ UNCHANGED ctlVars
  <2>1. UNCHANGED <<calls, last, version, file, cycle>> /\ ngx_cycle' = cycle
    BY <1>15 DEF RunCycle, ctlVars
  <2>2. CASE cycle = ngx_cycle
    BY <1>12, <2>1, <2>2
  <2>3. CASE cycle # ngx_cycle
    <3>1. cycle.ver # ngx_cycle.ver
      BY <1>8, <2>3 DEF OneTextPerVersion
    <3>2. cycle.ver > ngx_cycle.ver
      BY <1>0, <3>1 DEF ForwardInv
    <3>3. cycle \in Pending
      BY <1>8, <3>2 DEF Pending
    <3>4. \A x \in Underway : x.ver \in Nat
      BY <1>1
    <3>5. \A x \in Underway : x.ver > cycle.ver => x.ver > ngx_cycle.ver
      BY <1>0, <3>2, <3>4
    <3>6. \A x : x \in Pending' <=> x \in Pending /\ x.ver > ngx_cycle'.ver
      BY <1>8, <1>9, <2>1, <3>5 DEF Pending
    <3>7. Pending' = {x \in Pending : x.ver > ngx_cycle'.ver}
      BY <3>6
    <3> QED
      BY <1>10, <2>1, <3>3, <3>7, ServiceSteps
  <2> QED
    BY <2>2, <2>3
<1>16. CASE Start /\ UNCHANGED ctlVars
  <2>1. /\ UNCHANGED <<calls, last, version, file>> /\ Whole(file)
        /\ cycle' = Content(file) /\ ngx_cycle' = Content(file)
    BY <1>16 DEF Start, ctlVars, Accepts
  <2>2. cycle.ver <= file.ver /\ ngx_cycle.ver <= file.ver
    BY <1>0, <2>1 DEF ForwardInv
  <2>3. Content(file) \in Underway /\ Content(file).ver = file.ver /\ ngx_cycle'.ver = file.ver
    BY <1>8, <1>11, <2>1
  <2>4. \A x \in Underway : x.ver \in Nat
    BY <1>1
  <2>5. \A x \in Underway : x.ver > file.ver => x.ver > ngx_cycle.ver /\ x # cycle
    BY <1>0, <2>2, <2>4
  <2>6. \A x : x \in Pending' <=> x \in Underway /\ x.ver > file.ver
    BY <1>8, <1>9, <1>11, <2>1, <2>3, <2>5 DEF Pending
  <2>7. CASE Content(file) = ngx_cycle
    <3>1. \A x : x \in Pending' <=> x \in Pending
      BY <2>3, <2>6, <2>7 DEF Pending
    <3>2. Pending' = Pending
      BY <3>1
    <3> QED
      BY <1>10, <2>1, <2>7, <3>2, ServiceSteps
  <2>8. CASE Content(file) # ngx_cycle
    <3>1. file.ver # ngx_cycle.ver
      BY <2>3, <2>8 DEF OneTextPerVersion
    <3>2. file.ver > ngx_cycle.ver
      BY <1>0, <2>2, <3>1
    <3>3. ngx_cycle' \in Pending
      BY <2>1, <2>3, <3>2 DEF Pending
    <3>4. \A x : x \in Pending' <=> x \in Pending /\ x.ver > ngx_cycle'.ver
      BY <2>3, <2>5, <2>6 DEF Pending
    <3>5. Pending' = {x \in Pending : x.ver > ngx_cycle'.ver}
      BY <3>4
    <3> QED
      BY <1>10, <2>1, <3>3, <3>5, ServiceSteps
  <2> QED
    BY <2>7, <2>8
<1> QED
  BY <1>4, <1>5, <1>6, <1>7, <1>13, <1>14, <1>15, <1>16, StepKinds

\* A single caller of nginx-agent gets the service of RoutingService, whatever
\* fails or restarts: nginx only moves on to newer changes that were asked for,
\* and a change that was answered without an error is served or will be, until
\* the next one is asked for.
THEOREM OneClientService ==
    ASSUME NEW client, Clients = {client}
    PROVE  Spec => ImplementsService
<1>1. Init => ServiceInv /\ Service!Init
  <2> SUFFICES ASSUME Init PROVE ServiceInv /\ Service!Init
    OBVIOUS
  <2>1. \A c \in Clients : InPhase(c, "idle")
    BY DEF Init, InPhase, Idle
  <2>2. \A x \in Underway \cup {ngx_cycle} : x = ngx_cycle
    BY <2>1, UnderwayIs DEF Init, NgxInit, Content, Sending, InPhase
  <2>3. ngx_cycle \in [text : Texts, ver : {0}] /\ cycle = ngx_cycle
    BY InitialAssumption, RenderType DEF Init, NgxInit
  <2>4. ForwardInv /\ Written
    <3>1. file.ver = 0 /\ cycle.ver = 0 /\ ngx_cycle.ver = 0
      BY DEF Init, NgxInit
    <3>2. ForwardInv
      BY <2>1, <3>1 DEF ForwardInv
    <3> QED
      BY <2>1, <3>2 DEF Written, InPhase
  <2>5. OneTextPerVersion
    BY <2>2 DEF OneTextPerVersion
  <2>6. CycleRuns
    BY DEF CycleRuns, Init, NgxInit
  <2>7. {x \in Underway : x.ver > ngx_cycle.ver} = {}
    <3>1. ~(ngx_cycle.ver > ngx_cycle.ver)
      BY <2>3
    <3> QED
      BY <2>2, <3>1
  <2>8. Service!Init
    BY <2>3, <2>7 DEF Service!Init, Init, Answered
  <2> QED
    BY <2>4, <2>5, <2>6, <2>8 DEF ServiceInv
<1>2. TypeOK /\ ServiceInv /\ [Next]_vars => ServiceInv'
  BY ServiceInvStep
<1>3. TypeOK /\ ServiceInv /\ [Next]_vars => [Service!Next]_Service!vars
  BY ServiceStep
<1> QED
  BY <1>1, <1>2, <1>3, TypeCorrect, PTL DEF Spec, ImplementsService, Service!Spec
=============================================================================

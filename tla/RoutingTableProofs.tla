------------------------- MODULE RoutingTableProofs -------------------------
(***************************************************************************)
(* Theorems about RoutingTable: what any sequence of calls makes of the    *)
(* table, for any applications, ports and inputs.                          *)
(***************************************************************************)
EXTENDS RoutingTable, RoutingProofs

\* No call of addOrUpdateAppRouting names a port twice.
CallsDistinct == \A in \in UpdateCalls : IsInjective(in.routing.out_ports)

\* No call asks for something nginx cannot be told.
CallsSound(listen) ==
    /\ \A in \in AddCalls : SoundAdd(listen, in.app, in.opts)
    /\ \A in \in UpdateCalls : SoundUpdate(listen, in.app, in.routing)

\* Each step is one of the three operations with arguments of their types.
LEMMA StepKinds ==
    ASSUME TypeOK, [Next]_current_conf
    PROVE  \/ \E in \in AddCalls :
                /\ in.app \in Apps /\ in.opts \in AddOpts
                /\ AddPortRouting(in.app, in.opts)
           \/ \E in \in DeleteCalls :
                /\ in.app \in Apps
                /\ DeletePortRouting(in.app, in.port)
           \/ \E in \in UpdateCalls :
                /\ in.app \in Apps /\ in.routing \in RoutingOpts
                /\ AddOrUpdateAppRouting(in.app, in.routing)
           \/ UNCHANGED current_conf
<1>1. /\ \A in \in AddCalls : in.app \in Apps /\ in.opts \in AddOpts
      /\ \A in \in DeleteCalls : in.app \in Apps
      /\ \A in \in UpdateCalls : in.app \in Apps /\ in.routing \in RoutingOpts
  BY CallsAssumption
<1> QED
  BY <1>1 DEF Next

LEMMA TypeInit ==
    Init => TypeOK
BY DEF Init, TypeOK, EmptyConf, Conf

LEMMA TypeStep ==
    TypeOK /\ [Next]_current_conf => TypeOK'
<1> SUFFICES ASSUME TypeOK, [Next]_current_conf PROVE TypeOK'
  OBVIOUS
<1>0. current_conf \in Conf
  BY DEF TypeOK
<1>1. ASSUME NEW in \in AddCalls, in.app \in Apps, in.opts \in AddOpts,
             AddPortRouting(in.app, in.opts)
      PROVE  current_conf' \in Conf
  BY <1>0, <1>1, AddRouteType DEF AddPortRouting
<1>2. ASSUME NEW in \in DeleteCalls, in.app \in Apps, DeletePortRouting(in.app, in.port)
      PROVE  current_conf' \in Conf
  BY <1>0, <1>2, DeleteRouteType DEF DeletePortRouting
<1>3. ASSUME NEW in \in UpdateCalls, in.app \in Apps, in.routing \in RoutingOpts,
             AddOrUpdateAppRouting(in.app, in.routing)
      PROVE  current_conf' \in Conf
  BY <1>0, <1>3, ReplaceRoutesType DEF AddOrUpdateAppRouting
<1> QED
  BY <1>0, <1>1, <1>2, <1>3, StepKinds DEF TypeOK

\* The table is one after any sequence of calls.
THEOREM TableTyped ==
    Spec => []TypeOK
<1> QED
  BY TypeInit, TypeStep, PTL DEF Spec

\* What Instances reads, before and after a step.
LEMMA InstancesAre ==
    ASSUME NEW m \in Modes, NEW a \in Apps
    PROVE  /\ Instances(m, a) = IF current_conf[m][a] = Undefined THEN <<>>
                                ELSE current_conf[m][a].instances
           /\ Instances(m, a)' = IF current_conf'[m][a] = Undefined THEN <<>>
                                 ELSE current_conf'[m][a].instances
<1>1. UpdateMode([mode |-> m]) = m
  BY UndefinedAssumption DEF UpdateMode, Or
<1> QED
  BY <1>1 DEF Instances, PreviousInstances

LEMMA DistinctIs ==
    /\ NoBackendTwice <=> DistinctTable(current_conf)
    /\ NoBackendTwice' <=> DistinctTable(current_conf')
<1>1. ASSUME NEW m \in Modes, NEW a \in Apps
      PROVE  /\ current_conf[m][a] # Undefined =>
                    Instances(m, a) = current_conf[m][a].instances
             /\ current_conf'[m][a] # Undefined =>
                    Instances(m, a)' = current_conf'[m][a].instances
  BY InstancesAre
<1> QED
  BY <1>1 DEF NoBackendTwice, DistinctTable, Records

\* No application has a backend twice, be it active or as a backup, whatever
\* addPortRouting, deletePortRouting and addOrUpdateAppRouting do in any order,
\* when no single call names a port twice.
THEOREM BackendsOnce ==
    ASSUME CallsDistinct
    PROVE  Spec => []NoBackendTwice
<1>1. Init => DistinctTable(current_conf)
  BY DEF Init, DistinctTable, EmptyConf
<1>2. ASSUME TypeOK, DistinctTable(current_conf), [Next]_current_conf
      PROVE  DistinctTable(current_conf')
  <2>0. current_conf \in Conf
    BY <1>2 DEF TypeOK
  <2>1. ASSUME NEW in \in AddCalls, in.app \in Apps, in.opts \in AddOpts,
               AddPortRouting(in.app, in.opts)
        PROVE  DistinctTable(current_conf')
    BY <1>2, <2>0, <2>1, AddRouteKeeps DEF AddPortRouting
  <2>2. ASSUME NEW in \in DeleteCalls, in.app \in Apps, DeletePortRouting(in.app, in.port)
        PROVE  DistinctTable(current_conf')
    BY <1>2, <2>0, <2>2, DeleteRouteKeeps DEF DeletePortRouting
  <2>3. ASSUME NEW in \in UpdateCalls, in.app \in Apps, in.routing \in RoutingOpts,
               AddOrUpdateAppRouting(in.app, in.routing)
        PROVE  DistinctTable(current_conf')
    BY <1>2, <2>0, <2>3, ReplaceRoutesKeeps DEF AddOrUpdateAppRouting, CallsDistinct
  <2>4. CASE UNCHANGED current_conf
    BY <1>2, <2>4
  <2> QED
    BY <1>2, <2>1, <2>2, <2>3, <2>4, StepKinds
<1>3. TypeOK /\ NoBackendTwice /\ [Next]_current_conf => NoBackendTwice'
  BY <1>2, DistinctIs
<1>4. Init => NoBackendTwice
  BY <1>1, DistinctIs
<1> QED
  BY <1>3, <1>4, TableTyped, PTL DEF Spec

\* nginx accepts the file rendered from the table after any sequence of calls,
\* when each application has a port of its own to listen on, the balance is one
\* of the section and every update names a backend: deletePortRouting takes the
\* record away with its last instance, and a handover leaves active ones.
THEOREM FilesAccepted ==
    ASSUME NEW CONSTANT listen, ListenApart(listen), CallsSound(listen)
    PROVE  Spec => []AcceptedByNginx
<1> DEFINE Sound == SoundTable(listen, current_conf)
<1>1. Init => Sound
  BY DEF Init, SoundTable, EmptyConf
<1>2. ASSUME TypeOK, Sound, [Next]_current_conf
      PROVE  SoundTable(listen, current_conf')
  <2>0. current_conf \in Conf
    BY <1>2 DEF TypeOK
  <2>1. ASSUME NEW in \in AddCalls, in.app \in Apps, in.opts \in AddOpts,
               AddPortRouting(in.app, in.opts)
        PROVE  SoundTable(listen, current_conf')
    BY <1>2, <2>0, <2>1, AddRouteKeeps DEF AddPortRouting, CallsSound
  <2>2. ASSUME NEW in \in DeleteCalls, in.app \in Apps, DeletePortRouting(in.app, in.port)
        PROVE  SoundTable(listen, current_conf')
    BY <1>2, <2>0, <2>2, DeleteRouteKeeps DEF DeletePortRouting
  <2>3. ASSUME NEW in \in UpdateCalls, in.app \in Apps, in.routing \in RoutingOpts,
               AddOrUpdateAppRouting(in.app, in.routing)
        PROVE  SoundTable(listen, current_conf')
    BY <1>2, <2>0, <2>3, ReplaceRoutesKeeps DEF AddOrUpdateAppRouting, CallsSound
  <2>4. CASE UNCHANGED current_conf
    BY <1>2, <2>4
  <2> QED
    BY <1>2, <2>1, <2>2, <2>3, <2>4, StepKinds
<1>3. TypeOK /\ Sound => AcceptedByNginx
  BY SoundIsValid DEF TypeOK, AcceptedByNginx
<1>4. TypeOK /\ Sound /\ [Next]_current_conf => Sound'
  BY <1>2
<1> HIDE DEF Sound
<1> QED
  BY <1>1, <1>3, <1>4, TableTyped, PTL DEF Spec

\* The handover of addOrUpdateAppRouting: a step that takes an active backend of
\* a stream application out of service makes exactly the formerly active ones
\* its backups, and never drops one that serves.
THEOREM Handover ==
    Spec => HandoverKeepsOneGeneration
<1> DEFINE Keeps(a) ==
        LET was == ActivePorts(Instances("stream", a))
            now == Instances("stream", a)'
        IN  /\ ~(was \subseteq ActivePorts(now)) => BackupPorts(now) = was
            /\ was \subseteq PortsOf(now)
<1>1. ASSUME TypeOK, Next, NEW a \in Records("stream")
      PROVE  Keeps(a)
  <2> DEFINE was == current_conf["stream"][a]
             now == current_conf'["stream"][a]
  <2>0. /\ current_conf \in Conf /\ a \in Apps /\ "stream" \in Modes /\ "http" \in Modes
        /\ was # Undefined
    BY <1>1 DEF TypeOK, Records, Modes
  <2>1. was \in AppConf /\ was.instances \in Seq(Instance)
    BY <2>0, RecordInstances
  <2>2. /\ Instances("stream", a) = was.instances
        /\ now # Undefined => Instances("stream", a)' = now.instances
    BY <2>0, InstancesAre
  <2>3. CASE now = was
    BY <2>0, <2>1, <2>2, <2>3, PortsSplit
  <2>4. ASSUME NEW in \in AddCalls, in.app \in Apps, in.opts \in AddOpts,
               AddPortRouting(in.app, in.opts)
        PROVE  Keeps(a)
    <3> DEFINE old == RecordToExtend(current_conf, in.app, in.opts)
    <3>1. PICK r \in AppConf :
             /\ current_conf' = SetRecord(current_conf, AddMode(in.opts), in.app, r)
             /\ AddMode(in.opts) \in Modes
             /\ ActivePorts(old.instances) \subseteq ActivePorts(r.instances)
      BY <2>0, <2>4, AddRouteRecord DEF AddPortRouting
    <3>2. CASE AddMode(in.opts) = "stream" /\ in.app = a
      <4>1. old = was
        BY <2>0, <3>2 DEF RecordToExtend, Or
      <4>2. now = r
        BY <2>0, <2>4, <3>1, <3>2, SetRecordAt
      <4>3. now # Undefined /\ r.instances \in Seq(Instance)
        BY <4>2, UndefinedAssumption DEF AppConf
      <4>4. PortsOf(r.instances) = ActivePorts(r.instances) \cup BackupPorts(r.instances)
        BY <4>3, PortsSplit
      <4> HIDE DEF was, now, old
      <4> QED
        BY <2>2, <3>1, <4>1, <4>2, <4>3, <4>4
    <3>3. CASE ~(AddMode(in.opts) = "stream" /\ in.app = a)
      BY <2>0, <2>3, <2>4, <3>1, <3>3, SetRecordAt
    <3> QED
      BY <3>2, <3>3
  <2>5. ASSUME NEW in \in DeleteCalls, in.app \in Apps, DeletePortRouting(in.app, in.port)
        PROVE  Keeps(a)
    <3>1. PICK r : current_conf' = SetRecord(current_conf, "http", in.app, r)
      BY <2>0, <2>5, DeleteRouteRecord DEF DeletePortRouting
    <3>2. now = was
      BY <2>0, <2>5, <3>1, SetRecordAt
    <3> QED
      BY <2>3, <3>2
  <2>6. ASSUME NEW in \in UpdateCalls, in.app \in Apps, in.routing \in RoutingOpts,
               AddOrUpdateAppRouting(in.app, in.routing)
        PROVE  Keeps(a)
    <3> DEFINE old == PreviousInstances(current_conf, in.app, in.routing)
    <3>1. PICK r \in AppConf :
             /\ current_conf' = SetRecord(current_conf, UpdateMode(in.routing), in.app, r)
             /\ UpdateMode(in.routing) \in Modes
             /\ BackupPorts(r.instances) = ActivePorts(old)
      <4>1. current_conf' = ReplaceRoutes(current_conf, in.app, in.routing)
        BY <2>6 DEF AddOrUpdateAppRouting
      <4>2. PICK r \in AppConf :
               /\ ReplaceRoutes(current_conf, in.app, in.routing) =
                    SetRecord(current_conf, UpdateMode(in.routing), in.app, r)
               /\ UpdateMode(in.routing) \in Modes
               /\ BackupPorts(r.instances) = ActivePorts(old)
        BY <2>0, <2>6, ReplaceRoutesRecord
      <4> QED
        BY <4>1, <4>2
    <3>2. CASE UpdateMode(in.routing) = "stream" /\ in.app = a
      <4>1. old = was.instances
        BY <2>0, <3>2 DEF PreviousInstances
      <4>2. now = r
        <5>1. current_conf' = SetRecord(current_conf, "stream", a, r)
          BY <3>1, <3>2
        <5> QED
          BY <2>0, <5>1, SetRecordAt
      <4>3. now # Undefined /\ r.instances \in Seq(Instance)
        BY <4>2, UndefinedAssumption DEF AppConf
      <4>4. PortsOf(r.instances) = ActivePorts(r.instances) \cup BackupPorts(r.instances)
        BY <4>3, PortsSplit
      <4> HIDE DEF was, now, old
      <4> QED
        BY <2>2, <3>1, <4>1, <4>2, <4>3, <4>4
    <3>3. CASE ~(UpdateMode(in.routing) = "stream" /\ in.app = a)
      BY <2>0, <2>3, <2>6, <3>1, <3>3, SetRecordAt
    <3> QED
      BY <3>2, <3>3
  <2>7. CASE UNCHANGED current_conf
    BY <2>3, <2>7
  <2> HIDE DEF was, now, Keeps
  <2> QED
    BY <1>1, <2>4, <2>5, <2>6, <2>7, StepKinds
<1>2. TypeOK /\ [Next]_current_conf => [\A a \in Records("stream") : Keeps(a)]_current_conf
  <2> HIDE DEF Keeps
  <2> QED
    BY <1>1
<1> QED
  BY <1>2, TableTyped, PTL DEF Spec, HandoverKeepsOneGeneration

\* deletePortRouting does what it is called for, although its loop splices what
\* it iterates over: the port is gone and every other one stays.
DeletesOnlyPort ==
    \A in \in DeleteCalls :
        DeletePortRouting(in.app, in.port) =>
            PortsOf(Instances("http", in.app)') =
                PortsOf(Instances("http", in.app)) \ {in.port}

\* Every deletePortRouting does so, whatever calls made the table.
THEOREM DeleteDeletes ==
    ASSUME CallsDistinct
    PROVE  Spec => [][DeletesOnlyPort]_current_conf
<1>1. ASSUME TypeOK, NoBackendTwice, NEW in \in DeleteCalls,
             DeletePortRouting(in.app, in.port)
      PROVE  PortsOf(Instances("http", in.app)') =
                PortsOf(Instances("http", in.app)) \ {in.port}
  <2> DEFINE was == current_conf["http"][in.app]
             now == current_conf'["http"][in.app]
             left == SpliceMatching(was.instances, in.port)
  <2>0. /\ current_conf \in Conf /\ in.app \in Apps /\ "http" \in Modes
        /\ was # Undefined
    BY <1>1, CallsAssumption DEF TypeOK, Modes, DeletePortRouting
  <2>1. was \in AppConf /\ was.instances \in Seq(Instance)
    BY <2>0, RecordInstances
  <2>2. DistinctPorts(was.instances)
    BY <1>1, <2>0, DistinctIs DEF DistinctTable
  <2>3. PICK r \in AppConf \cup {Undefined} :
           /\ current_conf' = SetRecord(current_conf, "http", in.app, r)
           /\ r # Undefined => r.instances = left
           /\ r = Undefined => left = <<>>
    <3>1. current_conf' = DeleteRoute(current_conf, in.app, in.port)
      BY <1>1 DEF DeletePortRouting
    <3>2. PICK r \in AppConf \cup {Undefined} :
             /\ DeleteRoute(current_conf, in.app, in.port) =
                    SetRecord(current_conf, "http", in.app, r)
             /\ r # Undefined => r.instances = left
             /\ r = Undefined => left = <<>>
      BY <2>0, DeleteRouteRecord
    <3> QED
      BY <3>1, <3>2
  <2>4. now = r
    <3>1. current_conf' = SetRecord(current_conf, "http", in.app, r)
      BY <2>3
    <3> QED
      BY <2>0, <3>1, SetRecordAt
  <2>5. /\ Instances("http", in.app) = was.instances
        /\ Instances("http", in.app)' = IF now = Undefined THEN <<>> ELSE now.instances
    BY <2>0, InstancesAre
  <2>6. PortsOf(left) = PortsOf(was.instances) \ {in.port}
    BY <2>1, <2>2, SplicePorts
  <2> HIDE DEF was, now, left
  <2> QED
    BY <2>3, <2>4, <2>5, <2>6
<1>2. TypeOK /\ NoBackendTwice => DeletesOnlyPort
  BY <1>1 DEF DeletesOnlyPort
<1> QED
  BY <1>2, TableTyped, BackendsOnce, PTL
=============================================================================

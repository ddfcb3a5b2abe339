------------------------------ MODULE Routing ------------------------------
(***************************************************************************)
(* The routing table of NginxController (this.current_conf in nginx.js)    *)
(* and the change each API operation makes to it.  The table is a value    *)
(* here; the asynchronous life of an operation is in module Controller.    *)
(*                                                                         *)
(* A section (http or stream) maps an application to its record or to      *)
(* Undefined, as reading a missing property of a JavaScript object does.   *)
(* The balance "null" stands for JavaScript's null.                        *)
(***************************************************************************)
EXTENDS Naturals, Sequences, Functions

CONSTANTS
    Apps,       \* application names
    Ports,      \* TCP ports, for listening and for forwarding
    Undefined   \* a missing property

Modes == {"http", "stream"}
Balances == {"null", "round_robin", "roundrobin", "least_conn", "ip_hash"}

Instance == [port : Ports, backup : BOOLEAN]
AppConf == [port : Ports, instances : Seq(Instance), balance : Balances]
Conf == [Modes -> [Apps -> AppConf \cup {Undefined}]]

\* What the callers pass in (opts and routing in nginx.js); mode and lb_mode
\* may be left out.
AddOpts == [mode : Modes \cup {Undefined}, in_port : Ports, out_port : Ports,
            lb_mode : Balances \cup {Undefined}]
RoutingOpts == [mode : Modes \cup {Undefined}, in_port : Ports,
                out_ports : Seq(Ports), lb_mode : Balances \cup {Undefined}]

\* A missing property is none of the values a property can have.
ASSUME UndefinedAssumption ==
    /\ Undefined \notin Apps /\ Undefined \notin Ports
    /\ Undefined \notin Modes /\ Undefined \notin Balances
    /\ Undefined \notin AppConf

EmptyConf == [m \in Modes |-> [a \in Apps |-> Undefined]]

PortsOf(instances) == {instances[i].port : i \in DOMAIN instances}

\* For the properties: who serves, who stands by, and that no port is there
\* twice.
ActivePorts(instances) ==
    {instances[i].port : i \in {j \in DOMAIN instances : ~instances[j].backup}}
BackupPorts(instances) ==
    {instances[i].port : i \in {j \in DOMAIN instances : instances[j].backup}}
DistinctPorts(instances) ==
    IsInjective([i \in DOMAIN instances |-> instances[i].port])

Or(value, default) == IF value = Undefined THEN default ELSE value

-----------------------------------------------------------------------------
(* addPortRouting: the record is created on first use, with the listening  *)
(* port and the balance of that first call; the port is pushed unless it   *)
(* is there.  Later calls leave port and balance as they are.              *)

AddMode(opts) == Or(opts.mode, "http")

RecordToExtend(conf, app, opts) ==
    Or(conf[AddMode(opts)][app],
       [port |-> opts.in_port, instances |-> <<>>,
        balance |-> Or(opts.lb_mode, "null")])

\* Faulty variant: the port_used test is dropped.
AddRouteTwice(conf, app, opts) ==
    [conf EXCEPT ![AddMode(opts)][app] =
        [RecordToExtend(conf, app, opts) EXCEPT !.instances =
            Append(@, [port |-> opts.out_port, backup |-> FALSE])]]

AddRoute(conf, app, opts) ==
    LET r == RecordToExtend(conf, app, opts)
        port_used == opts.out_port \in PortsOf(r.instances)
    IN  [conf EXCEPT ![AddMode(opts)][app] =
            IF port_used THEN r
            ELSE [r EXCEPT !.instances =
                    Append(@, [port |-> opts.out_port, backup |-> FALSE])]]

-----------------------------------------------------------------------------
(* deletePortRouting, for an application of the http section: forEach over *)
(* the instances, splicing out the matching ones while it iterates, so the *)
(* instance that moves into a freed place is not visited.                  *)

\* instances.splice(i, 1)
SpliceAt(s, i) == SubSeq(s, 1, i - 1) \o SubSeq(s, i + 1, Len(s))

\* Faulty variant: what is moved into the freed place is looked at as well.
VisitInstanceAgain(left, port, i) ==
    IF i <= Len(left) /\ left[i].port = port
    THEN IF i < Len(left) /\ left[i + 1].port = port
         THEN SpliceAt(SpliceAt(left, i), i) ELSE SpliceAt(left, i)
    ELSE left

VisitInstance(left, port, i) ==
    IF i <= Len(left) /\ left[i].port = port THEN SpliceAt(left, i) ELSE left

SpliceLoop(instances, port) ==
    LET after[i \in 0..Len(instances)] ==
            IF i = 0 THEN instances ELSE VisitInstance(after[i - 1], port, i)
    IN  after

SpliceMatching(instances, port) == SpliceLoop(instances, port)[Len(instances)]

\* The loop takes out exactly the instances with the port, as filter would, if
\* and only if no two of them are neighbours: the second of two is skipped.
SpliceAgrees(instances, port) ==
    (SpliceMatching(instances, port) = SelectSeq(instances, LAMBDA x : x.port # port))
    <=> \A i \in 1..(Len(instances) - 1) :
            ~(instances[i].port = port /\ instances[i + 1].port = port)

\* Faulty variant: the record of an application without instances is kept.
DeleteRouteKeepRecord(conf, app, port) ==
    [conf EXCEPT !["http"][app].instances = SpliceMatching(@, port)]

DeleteRoute(conf, app, port) ==
    LET left == SpliceMatching(conf["http"][app].instances, port)
    IN  [conf EXCEPT !["http"][app] =
            IF left = <<>> THEN Undefined ELSE [@ EXCEPT !.instances = left]]

-----------------------------------------------------------------------------
(* addOrUpdateAppRouting: the new ports replace the instances, the former  *)
(* active instances follow as backups and the former backups are dropped.  *)
(* It throws when an instance collides with a new port, or with an earlier *)
(* instance that the loop has just pushed as a backup.                     *)

UpdateMode(routing) == Or(routing.mode, "stream")

PreviousInstances(conf, app, routing) ==
    IF conf[UpdateMode(routing)][app] = Undefined THEN <<>>
    ELSE conf[UpdateMode(routing)][app].instances

BindsSamePort(conf, app, routing) ==
    LET old == PreviousInstances(conf, app, routing)
    IN  \E i \in DOMAIN old :
            \/ old[i].port \in Range(routing.out_ports)
            \/ \E j \in 1..(i - 1) : ~old[j].backup /\ old[j].port = old[i].port

AsInstances(ports) ==
    [i \in DOMAIN ports |-> [port |-> ports[i], backup |-> FALSE]]

PushBackups(news, old) ==
    LET after[i \in 0..Len(old)] ==
            IF i = 0 THEN news
            ELSE IF old[i].backup THEN after[i - 1]
            ELSE Append(after[i - 1], [port |-> old[i].port, backup |-> TRUE])
    IN  after

\* Faulty variant: former backups are carried over with the active ones.
ReplaceRoutesKeepBackups(conf, app, routing) ==
    [conf EXCEPT ![UpdateMode(routing)][app] =
        [port      |-> routing.in_port,
         instances |-> AsInstances(routing.out_ports) \o
                       [i \in DOMAIN PreviousInstances(conf, app, routing) |->
                         [PreviousInstances(conf, app, routing)[i] EXCEPT !.backup = TRUE]],
         balance   |-> Or(routing.lb_mode, "round_robin")]]

ReplaceRoutes(conf, app, routing) ==
    LET old == PreviousInstances(conf, app, routing)
    IN  [conf EXCEPT ![UpdateMode(routing)][app] =
            [port      |-> routing.in_port,
             instances |-> PushBackups(AsInstances(routing.out_ports), old)[Len(old)],
             balance   |-> Or(routing.lb_mode, "round_robin")]]
=============================================================================

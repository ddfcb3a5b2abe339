---------------------------- MODULE RoutingTable ----------------------------
(***************************************************************************)
(* The routing table under any sequence of API calls, without the writes   *)
(* and reloads of module Controller: what a long series of legal calls     *)
(* can make of this.current_conf.                                          *)
(***************************************************************************)
EXTENDS Template

CONSTANTS
    AddCalls,      \* [app, opts] inputs of addPortRouting
    DeleteCalls,   \* [app, port] inputs of deletePortRouting
    UpdateCalls    \* [app, routing] inputs of addOrUpdateAppRouting

ASSUME CallsAssumption ==
    /\ AddCalls \subseteq [app : Apps, opts : AddOpts]
    /\ DeleteCalls \subseteq [app : Apps, port : Ports]
    /\ UpdateCalls \subseteq [app : Apps, routing : RoutingOpts]

VARIABLE current_conf

Init == current_conf = EmptyConf

AddPortRouting(app, opts) ==
    current_conf' = AddRoute(current_conf, app, opts)

DeletePortRouting(app, port) ==
    /\ current_conf["http"][app] # Undefined
    /\ current_conf' = DeleteRoute(current_conf, app, port)

AddOrUpdateAppRouting(app, routing) ==
    /\ ~BindsSamePort(current_conf, app, routing)
    /\ current_conf' = ReplaceRoutes(current_conf, app, routing)

Next ==
    \/ \E in \in AddCalls : AddPortRouting(in.app, in.opts)
    \/ \E in \in DeleteCalls : DeletePortRouting(in.app, in.port)
    \/ \E in \in UpdateCalls : AddOrUpdateAppRouting(in.app, in.routing)

Spec == Init /\ [][Next]_current_conf

-----------------------------------------------------------------------------
(* Properties.                                                             *)

\* Every record has the fields the code gives it, in both sections.
TypeOK == current_conf \in Conf

Records(m) == {a \in Apps : current_conf[m][a] # Undefined}
Instances(m, a) == PreviousInstances(current_conf, a, [mode |-> m])

\* No application has a backend twice, be it active or as a backup, whatever
\* the calls add, delete and replace (port_used in addPortRouting, the throw
\* in addOrUpdateAppRouting), when no call itself names a port twice.
NoBackendTwice ==
    \A m \in Modes : \A a \in Records(m) : DistinctPorts(Instances(m, a))

\* The file rendered from any reachable table is one nginx accepts: every
\* upstream keeps a server that is not a backup, every directive is known.
AcceptedByNginx == Valid(Render(current_conf))

\* The handover of addOrUpdateAppRouting: a step that takes an active backend
\* of a stream application out of service makes exactly the formerly active
\* ones its backups, and those of an earlier handover are gone; so a backend that
\* serves is never dropped in one step (deletePortRouting knows http only).
HandoverKeepsOneGeneration ==
    [][\A a \in Records("stream") :
        LET was == ActivePorts(Instances("stream", a))
            now == Instances("stream", a)'
        IN  /\ ~(was \subseteq ActivePorts(now)) => BackupPorts(now) = was
            /\ was \subseteq PortsOf(now)]_current_conf

\* The comment in addOrUpdateAppRouting, 'Set previous applications as
\* backup': an instance that is a backup in the table is one in the file.
BackupsRendered ==
    \A m \in Modes : \A a \in Records(m) : \A i \in DOMAIN Instances(m, a) :
        Instances(m, a)[i].backup => Render(current_conf)[m][a].servers[i].backup
=============================================================================

---------------------------- MODULE MCController ----------------------------
(***************************************************************************)
(* Instances of Controller for TLC.  One application with two backends,    *)
(* so that texts of different lengths meet in the file.                    *)
(***************************************************************************)
EXTENDS Controller

CONSTANTS a1, c1, c2

AddHttp(app, from, to) ==
    [app |-> app, opts |-> [mode |-> "http", in_port |-> from, out_port |-> to,
                            lb_mode |-> Undefined]]
UpdateStream(app, from, to) ==
    [app |-> app, routing |-> [mode |-> Undefined, in_port |-> from,
                               out_ports |-> to, lb_mode |-> Undefined]]

OneApp == {a1}
OneClient == {c1}
TwoClients == {c1, c2}
MCPorts == 1..4

\* Through the bus: http routes on port 3 to the backends 1 and 2.
BusAdds == {AddHttp(a1, 3, 1), AddHttp(a1, 3, 2)}

\* Through the class: stream routes on port 4 to one or the other backend.
ClassUpdates == {UpdateStream(a1, 4, <<1>>), UpdateStream(a1, 4, <<2>>)}
OneDelete == {[app |-> a1, port |-> 1]}
NoCalls == {}

\* What an earlier agent left behind.
LeftOver == AddRoute(AddRoute(EmptyConf, a1, AddHttp(a1, 3, 1).opts),
                     a1, AddHttp(a1, 3, 2).opts)

NoFaults == {}
AllFaults == {"render", "open", "write", "nginx", "agent"}
=============================================================================

--------------------------- MODULE MCRoutingTable ---------------------------
(***************************************************************************)
(* Instances of RoutingTable for TLC.  Backends are 1..3; each application *)
(* has a listening port of its own in each section.                        *)
(***************************************************************************)
EXTENDS RoutingTable, TLC

CONSTANTS a1, a2

Listen == [http   |-> (a1 :> 4 @@ a2 :> 5),
           stream |-> (a1 :> 6 @@ a2 :> 7)]

Add(app, mode, to, lb) ==
    [app |-> app, opts |-> [mode |-> mode, in_port |-> Listen[Or(mode, "http")][app],
                            out_port |-> to, lb_mode |-> lb]]
Update(app, mode, to, lb) ==
    [app |-> app, routing |-> [mode |-> mode, in_port |-> Listen[Or(mode, "stream")][app],
                               out_ports |-> to, lb_mode |-> lb]]

MCApps == {a1, a2}
MCPorts == 1..7

\* Calls in which each mode gets a balance its nginx module has.
GoodAdds ==
    {Add(a1, Undefined, p, Undefined) : p \in 1..3}
    \cup {Add(a1, "stream", p, "least_conn") : p \in 1..2}
    \cup {Add(a2, "http", 1, "ip_hash")}
GoodDeletes == {[app |-> a1, port |-> p] : p \in 1..3} \cup {[app |-> a2, port |-> 1]}
GoodUpdates ==
    {Update(a1, Undefined, to, Undefined) : to \in {<<1>>, <<2>>, <<3>>, <<2, 3>>}}
    \cup {Update(a1, "http", to, "round_robin") : to \in {<<1>>, <<2, 3>>}}
    \cup {Update(a2, "stream", <<2>>, "least_conn")}

\* The "Template data" of README.md: both sections balance 'roundrobin'.
ReadmeUpdates ==
    {Update(a1, "stream", <<1, 2, 3>>, "roundrobin"),
     Update(a2, "http", <<1, 2, 3>>, "roundrobin")}
NoCalls == {}
=============================================================================

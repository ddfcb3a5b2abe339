------------------------------- MODULE Cycle -------------------------------
(***************************************************************************)
(* A reload in the master, from the parsed configuration to the new cycle  *)
(* or back to the old one (ngx_init_cycle in ngx_cycle.c, with             *)
(* ngx_open_listening_sockets in ngx_connection.c): which listening        *)
(* sockets and which shared memory zones are taken over, opened and        *)
(* closed.  The first cycle of a process is a reload from an empty one.    *)
(* The files, the pid file, SO_REUSEPORT, zones with noreuse or another tag, *)
(* and a module whose init_module ends the process are left out.           *)
(***************************************************************************)
EXTENDS Naturals, FiniteSetsExt

CONSTANTS
    Addr,        \* addresses that a configuration listens on
    Zone,        \* names of shared memory zones
    Size,        \* their sizes, greater than 0
    Tries,       \* 5 in the code
    MaxReloads   \* (bound)

VARIABLES
    cycle,    \* the running cycle: [ls, zone, size]
    new,      \* the cycle under construction: [ls, zone, size, listen, open, left, tries]
    stage,    \* "idle", "zones", "bind", "commit", "failed"
    kernel,   \* [socks, maps] : open sockets and mapped segments of the master
    taken,    \* addresses that another program listens on
    reloads   \* counted for the bound

vars == <<cycle, new, stage, kernel, taken, reloads>>

\* A configuration: the addresses, and the size of each zone, 0 without it.
Confs == [listen : SUBSET Addr, size : [Zone -> Size \cup {0}]]

\* ls[a] is the socket of an address, zone[z] the segment of a zone, 0 without;
\* both are numbers the kernel gives out.
EmptyCycle == [ls |-> [a \in Addr |-> 0], zone |-> [z \in Zone |-> 0],
               size |-> [z \in Zone |-> 0]]
NoNew == [ls |-> EmptyCycle.ls, zone |-> EmptyCycle.zone, size |-> EmptyCycle.size,
          open |-> {}, left |-> {}, tries |-> 0, listen |-> {}]
Sockets(c) == {c.ls[a] : a \in Addr} \ {0}
Segments(c) == {c.zone[z] : z \in Zone} \ {0}

\* The next number that neither the kernel nor a cycle uses.
Fresh(used) == Min({n \in 1..Cardinality(used) + 1 : n \notin used})

Init ==
    /\ cycle = EmptyCycle /\ new = NoNew /\ stage = "idle" /\ reloads = 0
    /\ kernel = [socks |-> {}, maps |-> {}]
    /\ taken \in SUBSET Addr

\* The configuration has been read and is accepted.
Parse(conf) ==
    /\ stage = "idle" /\ reloads < MaxReloads
    /\ reloads' = reloads + 1
    /\ new' = [NoNew EXCEPT !.listen = conf.listen, !.size = conf.size,
                            !.left = {z \in Zone : conf.size[z] > 0}]
    /\ stage' = "zones"
    /\ UNCHANGED <<cycle, kernel, taken>>

-----------------------------------------------------------------------------
(* "create shared memory"                                                  *)

SameZone(z) == cycle.size[z] = new.size[z]
Freed(z) == kernel.maps \ {cycle.zone[z]}
NextMap == Fresh(kernel.maps \cup Segments(cycle) \cup Segments(new))

\* A zone of the same size is taken over; one of another size is freed at once
\* and allocated anew.
CreateZone(z) ==
    /\ stage = "zones" /\ z \in new.left
    /\ IF SameZone(z)
       THEN /\ new' = [new EXCEPT !.zone[z] = cycle.zone[z], !.left = @ \ {z}]
            /\ UNCHANGED kernel
       ELSE /\ new' = [new EXCEPT !.zone[z] = NextMap, !.left = @ \ {z}]
            /\ kernel' = [kernel EXCEPT !.maps = Freed(z) \cup {NextMap}]
    /\ UNCHANGED <<cycle, stage, taken, reloads>>

\* The segment cannot be allocated, or the module refuses the zone when the
\* segment is there already.
CreateZoneFails(z) ==
    /\ stage = "zones" /\ z \in new.left
    /\ kernel' \in IF SameZone(z) THEN {kernel}
                  ELSE {[kernel EXCEPT !.maps = Freed(z)],
                        [kernel EXCEPT !.maps = Freed(z) \cup {NextMap}]}
    /\ stage' = "failed"
    /\ UNCHANGED <<cycle, new, taken, reloads>>

\* Faulty variant: the sockets that are not needed are closed here.
InheritCloses ==
    /\ stage = "zones" /\ new.left = {}
    /\ new' = [new EXCEPT !.ls = [a \in Addr |-> IF a \in new.listen THEN cycle.ls[a] ELSE 0],
                          !.open = {a \in new.listen : cycle.ls[a] = 0},
                          !.tries = Tries, !.left = new.listen]
    /\ kernel' = [kernel EXCEPT !.socks = @ \cap Sockets(new')]
    /\ stage' = "bind"
    /\ UNCHANGED <<cycle, taken, reloads>>

\* "handle the listening sockets": those of the old cycle are taken over, the
\* others are to be opened.
Inherit ==
    /\ stage = "zones" /\ new.left = {}
    /\ new' = [new EXCEPT !.ls = [a \in Addr |-> IF a \in new.listen THEN cycle.ls[a] ELSE 0],
                          !.open = {a \in new.listen : cycle.ls[a] = 0},
                          !.tries = Tries, !.left = new.listen]
    /\ stage' = "bind"
    /\ UNCHANGED <<cycle, kernel, taken, reloads>>

-----------------------------------------------------------------------------
(* ngx_open_listening_sockets                                              *)

Unbound == {a \in new.listen : new.ls[a] = 0}

\* The next address of a pass: its socket is opened, unless it is open already
\* or another program has the address.
Bind(a) ==
    LET n == Fresh(kernel.socks)
    IN  /\ stage = "bind" /\ a \in new.left
        /\ IF a \in Unbound \ taken
           THEN /\ new' = [new EXCEPT !.ls[a] = n, !.left = @ \ {a}]
                /\ kernel' = [kernel EXCEPT !.socks = @ \cup {n}]
           ELSE /\ new' = [new EXCEPT !.left = @ \ {a}]
                /\ UNCHANGED kernel
        /\ UNCHANGED <<cycle, stage, taken, reloads>>

\* A pass is over: every address is open, or all are gone through again 500 ms
\* later, or this was the last pass.
EndPass ==
    /\ stage = "bind" /\ new.left = {}
    /\ IF Unbound = {} THEN stage' = "commit" /\ UNCHANGED new
       ELSE /\ new' = [new EXCEPT !.tries = @ - 1, !.left = new.listen]
            /\ stage' = IF new.tries = 1 THEN "failed" ELSE "bind"
    /\ UNCHANGED <<cycle, kernel, taken, reloads>>

\* socket(), bind() or listen() fail with another error than EADDRINUSE.
BindFails ==
    /\ stage = "bind" /\ Unbound \cap new.left # {}
    /\ stage' = "failed"
    /\ UNCHANGED <<cycle, new, kernel, taken, reloads>>

-----------------------------------------------------------------------------
(* The end of ngx_init_cycle.                                              *)

\* "close and delete stuff that lefts from an old cycle"
Commit ==
    /\ stage = "commit"
    /\ cycle' = [ls |-> new.ls, zone |-> new.zone, size |-> new.size]
    /\ kernel' = [socks |-> kernel.socks \ (Sockets(cycle) \ Sockets(new)),
                  maps |-> kernel.maps \ {cycle.zone[z] :
                                z \in {y \in Zone : new.size[y] = 0}}]
    /\ new' = NoNew /\ stage' = "idle"
    /\ UNCHANGED <<taken, reloads>>

\* "rollback the new cycle configuration": the sockets that were opened for it
\* are closed; its zones stay mapped.
Rollback ==
    /\ stage = "failed"
    /\ kernel' = [kernel EXCEPT !.socks = @ \ {new.ls[a] : a \in new.open}]
    /\ new' = NoNew /\ stage' = "idle"
    /\ UNCHANGED <<cycle, taken, reloads>>

\* Other programs, an old worker that has not closed its copy of a socket among
\* them, come and go.
Elsewhere(a) ==
    /\ a \in taken \/ (cycle.ls[a] = 0 /\ new.ls[a] = 0)
    /\ taken' = IF a \in taken THEN taken \ {a} ELSE taken \cup {a}
    /\ UNCHANGED <<cycle, new, stage, kernel, reloads>>

Step ==
    \/ \E z \in Zone : CreateZone(z) \/ CreateZoneFails(z)
    \/ Inherit \/ (\E a \in Addr : Bind(a)) \/ EndPass \/ BindFails
    \/ Commit \/ Rollback

Next ==
    \/ \E conf \in Confs : Parse(conf)
    \/ Step
    \/ \E a \in Addr : Elsewhere(a)

Spec == Init /\ [][Next]_vars
\* The master goes on: weak fairness of Step, which can be taken in any stage
\* but "idle".
FairSpec == Spec /\ (<>[](stage # "idle") => []<><<Step>>_vars)

-----------------------------------------------------------------------------
(* Properties.                                                             *)

\* Between reloads the master has exactly the sockets of the running cycle open,
\* each for one address: a reload that fails at any point leaks none and closes
\* none, and one that succeeds closes what is not needed any more.
SocketsOwned ==
    /\ stage = "idle" => kernel.socks = Sockets(cycle)
    /\ \A a, b \in Addr : cycle.ls[a] = cycle.ls[b] /\ cycle.ls[a] # 0 => a = b

\* An address that the old and the new configuration listen on keeps its socket,
\* and with it the clients in its queue; one that is dropped is closed only when
\* the new cycle is complete.
ListensThroughout ==
    \A a \in Addr :
        /\ cycle.ls[a] # 0 /\ cycle'.ls[a] # 0 => cycle'.ls[a] = cycle.ls[a]
        /\ cycle.ls[a] \in kernel.socks \ kernel'.socks
             => stage = "commit" /\ a \notin new.listen

\* A zone that keeps its size keeps its segment, and with it the data the
\* workers share; a segment of the running cycle is freed only when a reload
\* drops the zone or changes its size.
ZonesKept ==
    \A z \in Zone :
        /\ cycle'.size[z] = cycle.size[z] => cycle'.zone[z] = cycle.zone[z]
        /\ cycle.zone[z] \in kernel.maps \ kernel'.maps => new.size[z] # cycle.size[z]

\* A step of a reload, whether it succeeds or fails in the end, keeps what the
\* running configuration needs and nothing else (ngx_init_cycle).
KeepsRunning == SocketsOwned' /\ ListensThroughout /\ ZonesKept
ReloadKeeps == [][KeepsRunning]_vars

\* A reload comes to its end, in at most Tries passes over the addresses.
ReloadEnds == stage # "idle" ~> stage = "idle"
=============================================================================

--------------------------- MODULE RoutingService ---------------------------
(***************************************************************************)
(* What nginx-agent promises a single caller, without files, signals and   *)
(* processes.  Every change gets the next number.  A change may still come *)
(* into service (it is pending) or have been lost to a failure.  nginx     *)
(* only ever moves on to a pending change, which makes the older ones      *)
(* obsolete.  A change that is confirmed is in service or pending, and     *)
(* stays so until the next change is asked for.                            *)
(***************************************************************************)
EXTENDS Naturals

CONSTANT Configs   \* what can be served

VARIABLES
    newest,      \* number of the last change asked for
    pending,     \* changes that may come into service
    served,      \* the change in service
    confirmed    \* the last change was answered without an error

vars == <<newest, pending, served, confirmed>>

Init ==
    /\ newest = 0
    /\ pending = {}
    /\ served \in [text : Configs, ver : {0}]
    /\ confirmed = FALSE

\* A change is asked for; it becomes pending, or is lost at once, and may
\* take an older pending one with it.
Change ==
    /\ newest' = newest + 1
    /\ pending' \ pending \subseteq [text : Configs, ver : {newest + 1}]
    /\ \A x, y \in pending' \ pending : x = y
    /\ confirmed' = FALSE
    /\ UNCHANGED served

\* The newest change is confirmed when it is sure to be served.
Confirm ==
    /\ \E x \in pending \cup {served} : x.ver = newest
    /\ confirmed' = TRUE
    /\ UNCHANGED <<newest, pending, served>>

\* The answer is forgotten, or changes are lost; not a confirmed one.
Lose ==
    /\ pending' \subseteq pending
    /\ confirmed' => confirmed /\ \E x \in pending' \cup {served} : x.ver = newest
    /\ UNCHANGED <<newest, served>>

\* nginx moves on to a pending change.
Serve ==
    /\ served' \in pending
    /\ pending' = {x \in pending : x.ver > served'.ver}
    /\ UNCHANGED <<newest, confirmed>>

Next == Change \/ Confirm \/ Lose \/ Serve

Spec == Init /\ [][Next]_vars
=============================================================================

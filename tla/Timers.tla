------------------------------- MODULE Timers -------------------------------
(***************************************************************************)
(* The timers of a worker (ngx_event_timer.c and .h) on the red-black tree *)
(* of Rbtree, with the clock that overflows: adding with the lazy delay,   *)
(* deleting, the time to sleep, and expiring after the clock has moved on  *)
(* (ngx_process_events_and_timers in ngx_event.c).                         *)
(***************************************************************************)
EXTENDS Rbtree

CONSTANTS
    Delays,      \* the timeouts that handlers ask for
    LazyDelay,   \* NGX_TIMER_LAZY_DELAY
    MaxStep,     \* the clock moves by at most this in one turn (bound)
    MaxTurns     \* (bound)

VARIABLES
    tree,     \* ngx_event_timer_rbtree
    now,      \* ngx_current_msec
    asked,    \* asked[n]: the time a handler last asked for, of a set timer
    phase,    \* "run", or "expire" while ngx_event_expire_timers runs
    turns     \* counted for the bound

timerVars == <<tree, now, asked, phase, turns>>

IsSet(n) == tree.kid[Left][n] # Null     \* timer_set
SetTimers == {n \in Node : IsSet(n)}

\* The clock starts shortly before it overflows.
Init ==
    /\ tree = EmptyTree /\ now = 2^Width - 2
    /\ asked = [n \in Node |-> 0] /\ phase = "run" /\ turns = 0

\* Faulty variant: compared with what was asked for last.
LazyDrifts(n, key) == Diff(key, asked[n]) \in 1 - LazyDelay..LazyDelay - 1
\* A timer close to the one asked for is left where it is.
Lazy(n, key) == Diff(key, tree.key[n]) \in 1 - LazyDelay..LazyDelay - 1

AddTimer(n, delay) ==
    LET key == (now + delay) % 2^Width
        cleared == IF IsSet(n) THEN Delete(tree, n) ELSE tree
    IN  /\ tree' = IF IsSet(n) /\ Lazy(n, key) THEN tree ELSE Insert(cleared, n, key)
        /\ asked' = [asked EXCEPT ![n] = key]
        /\ UNCHANGED <<now, phase, turns>>

DelTimer(n) ==
    /\ IsSet(n)
    /\ tree' = Delete(tree, n)
    /\ asked' = [asked EXCEPT ![n] = 0]
    /\ UNCHANGED <<now, phase, turns>>

\* The time to sleep; -1 is NGX_TIMER_INFINITE.
FindTimer ==
    IF tree.root = Nil THEN -1
    ELSE LET timer == Diff(tree.key[TreeMin(tree, tree.root)], now)
         IN  IF timer > 0 THEN timer ELSE 0

\* The worker sleeps and the clock moves on; timers are looked at when it has.
Turn(delta) ==
    /\ phase = "run" /\ turns < MaxTurns
    /\ turns' = turns + 1
    /\ now' = (now + delta) % 2^Width
    /\ phase' = IF delta > 0 THEN "expire" ELSE "run"
    /\ UNCHANGED <<tree, asked>>

Oldest == TreeMin(tree, tree.root)

\* One round of ngx_event_expire_timers; the handler it calls is any action that
\* follows.
Expire ==
    /\ phase = "expire"
    /\ IF tree.root = Nil \/ Diff(tree.key[Oldest], now) > 0
       THEN phase' = "run" /\ UNCHANGED <<tree, asked>>
       ELSE /\ tree' = Delete(tree, Oldest)
            /\ asked' = [asked EXCEPT ![Oldest] = 0]
            /\ UNCHANGED phase
    /\ UNCHANGED <<now, turns>>

Next ==
    \/ \E n \in Node, d \in Delays : AddTimer(n, d)
    \/ \E n \in Node : DelTimer(n)
    \/ \E delta \in 0..MaxStep : Turn(delta)
    \/ Expire

Spec == Init /\ [][Next]_timerVars

-----------------------------------------------------------------------------
(* Properties.                                                             *)

\* The tree is a red-black tree of exactly the timers that are set, in the order
\* in which they are due, also while the clock overflows.
TreeSound == RedBlackTree(tree, SetTimers) /\ WalksInOrder(tree)

\* The worker never sleeps past a timer, and between turns no timer is overdue.
NeverLate ==
    phase = "run" =>
        \A n \in SetTimers : /\ Diff(tree.key[n], now) >= 0
                             /\ FindTimer \in 0..Diff(tree.key[n], now)

\* However often a timer is added again while it is set, it is due less than the
\* lazy delay away from what was asked for last.
CloseToAsked == \A n \in SetTimers : Diff(asked[n], tree.key[n]) \in 1 - LazyDelay..LazyDelay - 1

\* The timers are kept as they were asked for (ngx_event_add_timer).
TimersKept == TreeSound /\ NeverLate /\ CloseToAsked
=============================================================================

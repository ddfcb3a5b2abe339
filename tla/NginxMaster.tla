---------------------------- MODULE NginxMaster ----------------------------
(***************************************************************************)
(* The master process of nginx as the controller meets it: the             *)
(* configuration file it reads, the pending SIGHUP and the cycle it runs.  *)
(* From ngx_master_process_cycle, ngx_signal_handler and ngx_init_cycle    *)
(* of rd/nginx-1.13.0.                                                     *)
(***************************************************************************)
EXTENDS Template

CONSTANT MaxStarts   \* bound: how often nginx is started

ASSUME MaxStartsAssumption == MaxStarts \in Nat

VARIABLES
    file,             \* the configuration file
    ngx_pid,          \* pid of the running master, 0 when there is none
    ngx_cycle,        \* the configuration the master runs
    cycle,            \* the configuration it has made from the file
    sighup,           \* a SIGHUP is pending
    loading,          \* where the master is in its loop
    starts            \* starts so far, the source of fresh pids

ngxVars == <<file, ngx_pid, ngx_cycle, cycle, sighup, loading, starts>>

\* A file holds a text at its start and is size lines long; it is longer
\* than the text when the end of an older, longer text is left behind it.
\* ver numbers the renderings (see Controller).
Truncated == [text |-> Undefined, ver |-> 0, size |-> 0]

\* A write at offset 0 leaves what the file holds beyond its end.
Overlay(doc, f) ==
    [text |-> doc.text, ver |-> doc.ver,
     size |-> IF f = Truncated \/ f.size <= Size(doc.text)
              THEN Size(doc.text) ELSE f.size]

\* An empty file has no events section; the left over end of a longer text
\* closes blocks it does not open.  ngx_conf_parse refuses both.
Whole(f) == f.text # Undefined /\ f.size = Size(f.text)

Accepts(f) == Whole(f) /\ Valid(f.text)

Content(f) == [text |-> f.text, ver |-> f.ver]

NgxInit(text) ==
    /\ file = [text |-> text, ver |-> 0, size |-> Size(text)]
    /\ ngx_pid = 1
    /\ ngx_cycle = [text |-> text, ver |-> 0]
    /\ cycle = ngx_cycle
    /\ sighup = FALSE
    /\ loading = "suspended"
    /\ starts = 1

\* SIGHUP is blocked but in sigsuspend.  There the handler sets
\* ngx_reconfigure, which the loop clears before it reads the file: a signal
\* that comes later stays pending and asks for another reading.
Wake ==
    /\ ngx_pid # 0 /\ loading = "suspended" /\ sighup
    /\ sighup' = FALSE
    /\ loading' = "reconfigure"
    /\ UNCHANGED <<file, ngx_pid, ngx_cycle, cycle, starts>>

\* Faulty variant: a refused file takes the master back to the number it began with.
InitCycleDropsOld ==
    /\ loading = "reconfigure"
    /\ loading' = "loaded"
    /\ cycle' = IF Accepts(file) THEN Content(file) ELSE [ngx_cycle EXCEPT !.ver = 0]
    /\ UNCHANGED <<file, ngx_pid, ngx_cycle, sighup, starts>>

\* ngx_init_cycle reads the file; when it fails the old cycle stays.
InitCycle ==
    /\ loading = "reconfigure"
    /\ loading' = "loaded"
    /\ cycle' = IF Accepts(file) THEN Content(file) ELSE ngx_cycle
    /\ UNCHANGED <<file, ngx_pid, ngx_cycle, sighup, starts>>

\* Faulty variant: signals are let in and forgotten when the reload is over.
RunCycleForgets ==
    /\ loading = "loaded"
    /\ loading' = "suspended"
    /\ ngx_cycle' = cycle
    /\ sighup' = FALSE
    /\ UNCHANGED <<file, ngx_pid, cycle, starts>>

\* Faulty variant: the new cycle is run only when no further signal waits.
RunCycleBlocked ==
    /\ loading = "loaded" /\ ~sighup
    /\ loading' = "suspended"
    /\ ngx_cycle' = cycle
    /\ UNCHANGED <<file, ngx_pid, cycle, sighup, starts>>

\* The new cycle becomes the running one and the loop suspends again.
RunCycle ==
    /\ loading = "loaded"
    /\ loading' = "suspended"
    /\ ngx_cycle' = cycle
    /\ UNCHANGED <<file, ngx_pid, cycle, sighup, starts>>

\* The master terminates or is killed.
Stop ==
    /\ ngx_pid # 0
    /\ ngx_pid' = 0
    /\ sighup' = FALSE
    /\ loading' = "suspended"
    /\ UNCHANGED <<file, ngx_cycle, cycle, starts>>

\* An operator starts nginx; with a file it refuses it does not come up.
Start ==
    /\ ngx_pid = 0 /\ starts < MaxStarts
    /\ Accepts(file)
    /\ starts' = starts + 1
    /\ ngx_pid' = starts + 1
    /\ cycle' = Content(file)
    /\ ngx_cycle' = cycle'
    /\ UNCHANGED <<file, sighup, loading>>
=============================================================================

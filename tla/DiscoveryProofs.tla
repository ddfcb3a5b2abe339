-------------------------- MODULE DiscoveryProofs --------------------------
(***************************************************************************)
(* Theorems about Discovery, for any number of overlapping probes, any     *)
(* list of default paths and any number of starts of nginx.                *)
(***************************************************************************)
EXTENDS Discovery, TLAPS

Probe == [phase : {"idle", "list", "listed", "stat"}, seen : 0..starts, path : 0..Paths]

\* A search has a pid to go with the file it may find, and has left behind
\* only paths without a file.
Searching ==
    \A p \in Probes : probe[p].phase = "stat" =>
        /\ pid # 0
        /\ probe[p].path # 0
        /\ \A q \in present : q >= probe[p].path

\* The pid is never lost again, so a file that is known has one beside it.
Inv == TypeOK /\ Searching /\ ExposedIsUsable /\ (conf_file # 0 => pid # 0)

\* The least of a set of path numbers.
LEMMA MinIs ==
    ASSUME NEW S \in SUBSET Nat, NEW x \in S, \A y \in S : x <= y
    PROVE  Min(S) = x
<1>1. PICK m \in S : m = Min(S) /\ \A y \in S : m <= y
  BY DEF Min
<1>2. m = x
  BY <1>1
<1> QED
  BY <1>1, <1>2

LEMMA PathNumbers ==
    ASSUME TypeOK
    PROVE  present \subseteq 1..Paths /\ present \in SUBSET Nat
<1>1. present \in Presents /\ Presents \subseteq SUBSET (1..Paths) /\ Paths \in Nat
  BY DiscoveryAssumption DEF TypeOK
<1>2. present \subseteq 1..Paths
  BY <1>1
<1> QED
  BY <1>1, <1>2

LEMMA InvInit ==
    Init => Inv
<1> SUFFICES ASSUME Init PROVE Inv
  OBVIOUS
<1>1. MaxStarts \in Nat /\ Paths \in Nat
  BY DiscoveryAssumption
<1>2. starts \in 0..MaxStarts /\ ngx_pid \in 0..starts /\ pid \in 0..starts
  BY <1>1 DEF Init
<1>3. probe \in [Probes -> Probe]
  BY <1>1 DEF Init, NoProbe, Probe
<1>4. TypeOK
  BY <1>2, <1>3 DEF Init, TypeOK, Probe
<1>5. Searching
  BY DEF Init, Searching, NoProbe
<1> QED
  BY <1>4, <1>5 DEF Inv, Init, ExposedIsUsable, FirstPathWins

\* Types.
LEMMA TypeStep ==
    TypeOK /\ [Next]_vars => TypeOK'
<1> SUFFICES ASSUME TypeOK, [Next]_vars PROVE TypeOK'
  OBVIOUS
<1>0. /\ starts \in Nat /\ MaxStarts \in Nat /\ Paths \in Nat \ {0}
      /\ probe \in [Probes -> Probe] /\ NoProbe \in Probe
  <2>1. MaxStarts \in Nat /\ Paths \in Nat \ {0} /\ starts \in 0..MaxStarts
    BY DiscoveryAssumption DEF TypeOK
  <2>2. probe \in [Probes -> Probe]
    BY DEF TypeOK, Probe
  <2>3. NoProbe \in Probe
    BY <2>1 DEF Probe, NoProbe
  <2> QED
    BY <2>1, <2>2, <2>3
<1>1. ASSUME NEW p \in Probes,
             \/ StartProbe(p) \/ ListProcesses(p) \/ ListFails(p) \/ PidFound(p)
             \/ PidMissing(p) \/ ConfFound(p) \/ NextPath(p) \/ ConfMissing(p)
      PROVE  TypeOK'
  <2>1. \E x \in Probe : probe' = [probe EXCEPT ![p] = x]
    <3>1. CASE StartProbe(p)
      <4>1. [probe[p] EXCEPT !.phase = "list"] \in Probe
        BY <1>0 DEF Probe
      <4> QED
        BY <3>1, <4>1 DEF StartProbe
    <3>2. CASE ListProcesses(p)
      <4>1. [probe[p] EXCEPT !.phase = "listed", !.seen = ngx_pid] \in Probe
        BY <1>0 DEF TypeOK, Probe
      <4> QED
        BY <3>2, <4>1 DEF ListProcesses
    <3>3. CASE ListFails(p) \/ PidMissing(p) \/ ConfFound(p) \/ ConfMissing(p)
      BY <1>0, <3>3 DEF ListFails, PidMissing, ConfFound, ConfMissing
    <3>4. CASE PidFound(p)
      <4>1. 1 \in 0..Paths
        BY <1>0
      <4>2. [probe[p] EXCEPT !.phase = "stat", !.path = 1] \in Probe
        BY <1>0, <4>1 DEF Probe
      <4> QED
        BY <1>0, <3>4, <4>2 DEF PidFound
    <3>5. CASE NextPath(p)
      <4>1. probe[p].path + 1 \in 0..Paths
        BY <1>0, <3>5 DEF NextPath
      <4>2. [probe[p] EXCEPT !.path = @ + 1] \in Probe
        BY <1>0, <4>1 DEF Probe
      <4> QED
        BY <3>5, <4>2 DEF NextPath
    <3> QED
      BY <1>1, <3>1, <3>2, <3>3, <3>4, <3>5
  <2>2. probe' \in [Probes -> Probe]
    BY <1>0, <2>1
  <2>3. UNCHANGED <<ngx_pid, present, starts>>
    BY <1>1 DEF StartProbe, ListProcesses, ListFails, PidFound, PidMissing,
                ConfFound, NextPath, ConfMissing
  <2>4. pid' \in {pid, probe[p].seen} /\ conf_file' \in {conf_file} \cup present
    BY <1>1 DEF StartProbe, ListProcesses, ListFails, PidFound, PidMissing,
                ConfFound, NextPath, ConfMissing, agentVars
  <2>5. /\ status' \in {status, "errored", "online"}
        /\ nginx_status' \in {nginx_status, "not running", "no configuration", "up"}
        /\ exposed' \in BOOLEAN
    BY <1>1 DEF StartProbe, ListProcesses, ListFails, PidFound, PidMissing,
                ConfFound, NextPath, ConfMissing, agentVars, TypeOK
  <2>6. pid' \in 0..starts
    <3>1. probe[p].seen \in 0..starts
      BY <1>0 DEF Probe
    <3> QED
      BY <2>4, <3>1 DEF TypeOK
  <2> QED
    BY <2>2, <2>3, <2>4, <2>5, <2>6 DEF TypeOK, Probe
<1>2. CASE StartNginx
  <2>1. /\ starts' = starts + 1 /\ ngx_pid' = starts + 1
        /\ UNCHANGED <<present, probe, pid, conf_file, status, nginx_status, exposed>>
    BY <1>2 DEF StartNginx, agentVars
  <2>2. starts' \in 0..MaxStarts /\ 0..starts \subseteq 0..starts' /\ ngx_pid' \in 0..starts'
    BY <1>0, <1>2, <2>1 DEF StartNginx
  <2>3. probe' \in [Probes -> Probe']
    BY <1>0, <2>1, <2>2 DEF Probe
  <2>4. pid' \in 0..starts'
    BY <2>1, <2>2 DEF TypeOK
  <2> QED
    BY <2>1, <2>2, <2>3, <2>4 DEF TypeOK, Probe
<1>3. CASE StopNginx
  <2>1. 0 \in 0..starts
    BY <1>0
  <2> QED
    BY <1>3, <2>1 DEF StopNginx, agentVars, TypeOK
<1>4. CASE UNCHANGED vars
  BY <1>4 DEF vars, TypeOK
<1> QED
  BY <1>1, <1>2, <1>3, <1>4 DEF Next, Step

LEMMA InvStep ==
    Inv /\ [Next]_vars => Inv'
<1> SUFFICES ASSUME Inv, [Next]_vars PROVE Inv'
  OBVIOUS
<1>0. TypeOK /\ TypeOK'
  BY TypeStep DEF Inv
<1>1. present \in SUBSET Nat /\ present \subseteq 1..Paths /\ probe \in [Probes -> Probe]
  BY <1>0, PathNumbers DEF TypeOK, Probe
<1> USE DEF Inv, Searching, ExposedIsUsable, FirstPathWins, agentVars
<1>2. ASSUME NEW p \in Probes,
             StartProbe(p) \/ ListProcesses(p) \/ ListFails(p) \/ PidMissing(p) \/ ConfMissing(p)
      PROVE  Inv'
  <2>1. UNCHANGED <<pid, present, conf_file, exposed>>
    BY <1>2 DEF StartProbe, ListProcesses, ListFails, PidMissing, ConfMissing
  <2>2. ASSUME NEW q \in Probes PROVE probe'[q].phase = "stat" => probe'[q] = probe[q]
    <3>1. CASE StartProbe(p)
      BY <1>1, <3>1 DEF StartProbe, Probe
    <3>2. CASE ListProcesses(p)
      <4> DEFINE listed == [probe[p] EXCEPT !.phase = "listed", !.seen = ngx_pid]
      <4>1. listed.phase = "listed"
        BY <1>1 DEF Probe
      <4>2. probe' = [probe EXCEPT ![p] = listed]
        BY <3>2 DEF ListProcesses
      <4> HIDE DEF listed
      <4> QED
        BY <1>1, <4>1, <4>2
    <3>3. CASE ListFails(p) \/ PidMissing(p) \/ ConfMissing(p)
      <4>1. probe' = [probe EXCEPT ![p] = NoProbe] /\ NoProbe.phase = "idle"
        BY <3>3 DEF ListFails, PidMissing, ConfMissing, NoProbe
      <4> QED
        BY <1>1, <4>1
    <3> QED
      BY <1>2, <3>1, <3>2, <3>3
  <2> QED
    BY <1>0, <2>1, <2>2
<1>3. ASSUME NEW p \in Probes, PidFound(p) PROVE Inv'
  <2>1. pid' # 0 /\ UNCHANGED <<present, conf_file>> /\ exposed' = (exposed \/ conf_file # 0)
    BY <1>3 DEF PidFound
  <2>2. ASSUME NEW q \in Probes, probe'[q].phase = "stat"
        PROVE  probe'[q].path = 1 \/ probe'[q] = probe[q]
    BY <1>0, <1>3, <2>2 DEF TypeOK, PidFound, NoProbe
  <2>3. \A q \in present : q >= 1
    BY <1>1
  <2>4. Searching'
    BY <2>1, <2>2, <2>3
  <2> QED
    BY <1>0, <2>1, <2>4
<1>4. ASSUME NEW p \in Probes, ConfFound(p) PROVE Inv'
  <2>1. /\ UNCHANGED <<pid, present>>
        /\ conf_file' = probe[p].path /\ probe[p].path \in present /\ pid # 0
    BY <1>4 DEF ConfFound
  <2>2. conf_file' = Min(present)
    BY <1>1, <1>4, <2>1, MinIs DEF ConfFound
  <2>3. ASSUME NEW q \in Probes PROVE probe'[q].phase = "stat" => probe'[q] = probe[q]
    BY <1>1, <1>4 DEF ConfFound, NoProbe
  <2>4. Searching'
    BY <2>1, <2>3
  <2>5. conf_file' # 0
    BY <1>1, <2>1
  <2> QED
    BY <1>0, <2>1, <2>2, <2>4, <2>5
<1>5. ASSUME NEW p \in Probes, NextPath(p) PROVE Inv'
  <2>1. UNCHANGED <<pid, present, conf_file, exposed>>
    BY <1>5 DEF NextPath
  <2>2. \A q \in present : q >= probe[p].path + 1
    BY <1>1, <1>5 DEF NextPath
  <2>3. probe'[p].path = probe[p].path + 1 /\ \A q \in Probes \ {p} : probe'[q] = probe[q]
    BY <1>0, <1>5 DEF TypeOK, NextPath
  <2>4. probe[p].phase = "stat" /\ probe[p].path \in Nat
    BY <1>5 DEF NextPath
  <2>5. Searching'
    BY <2>1, <2>2, <2>3, <2>4
  <2> QED
    BY <1>0, <2>1, <2>5
<1>6. CASE StartNginx \/ StopNginx \/ UNCHANGED vars
  BY <1>0, <1>6 DEF StartNginx, StopNginx, vars
<1> QED
  BY <1>2, <1>3, <1>4, <1>5, <1>6 DEF Next, Step

\* The inductive invariant, and with it the types.
THEOREM ProbesKeepInv ==
    Spec => []Inv
<1> QED
  BY InvInit, InvStep, PTL DEF Spec

\* launchInterface runs only when there is a file to write, the first of the
\* default paths, and a pid to signal (index.js, findNginxMeta): whichever of any
\* number of overlapping probes gets there first.
THEOREM Usable ==
    Spec => []ExposedIsUsable
<1>1. Inv => ExposedIsUsable
  BY DEF Inv
<1> QED
  BY <1>1, ProbesKeepInv, PTL

\* Once known, the file, the pid and the interface stay: a second search that
\* was under way when the first ended finds the same file (findNginxConf).
FoundStays ==
    /\ conf_file # 0 => conf_file' = conf_file
    /\ pid # 0 => pid' # 0
    /\ exposed => exposed'

\* No step of any probe takes back what findNginxMeta has found.
THEOREM FoundForGood ==
    Spec => [][FoundStays]_vars
<1>1. Inv /\ Inv' /\ [Next]_vars => [FoundStays]_vars
  <2> SUFFICES ASSUME Inv, Inv', Next PROVE FoundStays
    BY DEF vars, FoundStays
  <2>1. conf_file # 0 => conf_file' = conf_file
    <3>1. UNCHANGED conf_file \/ \E p \in Probes : ConfFound(p)
      BY DEF Next, Step, StartProbe, ListProcesses, ListFails, PidFound, PidMissing,
             NextPath, ConfMissing, StartNginx, StopNginx, agentVars
    <3>2. ASSUME NEW p \in Probes, ConfFound(p), conf_file # 0 PROVE conf_file' = conf_file
      <4>1. conf_file' # 0 /\ present' = present
        BY <3>2, PathNumbers DEF ConfFound, Inv
      <4> QED
        BY <3>2, <4>1 DEF Inv, ExposedIsUsable, FirstPathWins
    <3> QED
      BY <3>1, <3>2
  <2>2. pid # 0 => pid' # 0
    BY DEF Next, Step, StartProbe, ListProcesses, ListFails, PidFound, PidMissing,
           ConfFound, NextPath, ConfMissing, StartNginx, StopNginx, agentVars
  <2>3. exposed => exposed'
    BY Zenon DEF Next, Step, StartProbe, ListProcesses, ListFails, PidFound, PidMissing,
           ConfFound, NextPath, ConfMissing, StartNginx, StopNginx, agentVars
  <2> QED
    BY <2>1, <2>2, <2>3 DEF FoundStays
<1> QED
  BY <1>1, ProbesKeepInv, PTL DEF Spec
=============================================================================

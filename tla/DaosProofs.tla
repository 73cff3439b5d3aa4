------------------------------ MODULE DaosProofs ------------------------------
(***************************************************************************)
(* Proofs about DaosConfig, for every set of servers, every configuration  *)
(* and any number of edits, failures and makecleans: first what holds      *)
(* whatever fails, then what holds as long as nothing has failed.          *)
(***************************************************************************)
EXTENDS DaosConfig, TLAPS

\* After the configuration has been rendered every server has the wanted file.
Rendered ==
    pc \in {"stop", "remount", "prepare", "start", "format", "create", "verify",
           "container", "preserve"} =>
        \A s \in Servers : yml[s] = wanted

\* After the servers have been started they all run.
Serving ==
    pc \in {"format", "create", "verify", "container", "preserve"} =>
        \A s \in Servers : running[s] # None

\* What the checks before the present task have established.
Passed ==
    /\ pc \in {"guard", "render", "stop", "remount", "prepare", "start", "format",
             "create", "verify", "container", "preserve"} => mapped = Servers
    /\ pc = "render" => \A s \in Servers : Allowed(s)
    /\ pc \in {"container", "preserve"} => pool = capacity
    /\ pc = "preserve" => container = "yes"

\* A fingerprint is never of another topology than the file next to it.
SavedTopology ==
    \A s \in Servers : saved[s] # None =>
        yml[s] # None /\ saved[s].topology = yml[s].topology

\* The last run has only ended when no task is left.
Ended == last = "ok" => pc = "idle"

IInv == TypeOK /\ Rendered /\ Serving /\ Passed /\ SavedTopology
              /\ MappedBeforeBound /\ Ended /\ ReadyAfterSuccess

-------------------------------------------------------------------------------
(* Type correctness.                                                       *)

\* Every variable starts within its type.
LEMMA InitTyped == Init => TypeOK
  BY DaosAssumption DEF Init, TypeOK, Config

\* TypeOK: every step keeps every variable within its type.
LEMMA StepTyped == TypeOK /\ Rendered /\ Serving /\ [Next]_vars => TypeOK'
  <1> SUFFICES ASSUME TypeOK, Rendered, Serving, [Next]_vars PROVE TypeOK'
    OBVIOUS
  <1> USE DEF TypeOK
  <1>1. CASE Edit
    BY <1>1 DEF Edit, disks, files, services, storage
  <1>2. CASE Start
    BY <1>2 DEF Start, disks, files, services, storage, bounds
  <1>3. CASE StartClean
    BY <1>3 DEF StartClean, disks, files, services, storage
  <1>4. CASE Abort
    BY <1>4 DEF Abort, disks, files, services, storage
  <1>5. ASSUME NEW S \in SUBSET Servers, ServerTask(S) PROVE TypeOK'
    <2>1. CASE Discover(S)
      BY <2>1 DEF Discover, Task, Step, bounds, disks, files, services, storage
    <2>2. CASE Render(S)
      BY <2>2 DEF Render, Task, disks, services, storage
    <2>3. CASE StopServers(S)
      BY <2>3 DEF StopServers, Task, disks, files, storage
    <2>4. CASE Remount(S)
      BY <2>4, DaosAssumption DEF Remount, Task, disks, files, storage, Config
    <2>5. CASE Prepare(S)
      BY <2>5 DEF Prepare, Task, files, services, storage
    <2>6. CASE StartServers(S)
      <3>1. \A s \in Servers : yml[s] \in Config /\ yml[s].scm \in Sizes
        BY <2>6 DEF StartServers, Task, Rendered, Config
      <3> QED BY <2>6, <3>1 DEF StartServers, Task, disks, files, storage
    <2>7. CASE Preserve(S)
      BY <2>7 DEF Preserve, disks, services, storage
    <2>8. CASE HaltServers(S)
      BY <2>8 DEF HaltServers, disks, files, storage
    <2> QED BY <1>5, <2>1, <2>2, <2>3, <2>4, <2>5, <2>6, <2>7, <2>8 DEF ServerTask
  <1>6. CASE SystemTask
    <2>1. CASE Guard
      BY <2>1 DEF Guard, Step, disks, files, services, storage, bounds
    <2>2. CASE RemountFails
      BY <2>2 DEF RemountFails, Step, disks, files, services, storage, bounds
    <2>3. CASE Format
      <3>1. \A s \in Servers : running[s].scm \in Sizes
        BY <2>3 DEF Format, Step, Serving, Config
      <3> QED BY <2>3, <3>1 DEF Format, Step, files, storage, bounds
    <2>4. CASE CreatePool
      BY <2>4 DEF CreatePool, Step, disks, files, services, bounds
    <2>5. CASE Verify
      BY <2>5 DEF Verify, Step, disks, files, services, storage, bounds
    <2>6. CASE CreateContainer
      BY <2>6 DEF CreateContainer, Step, disks, files, services, bounds
    <2>7. CASE DestroyPool
      BY <2>7 DEF DestroyPool, Step, disks, files, services, storage, bounds
    <2> QED BY <1>6, <2>1, <2>2, <2>3, <2>4, <2>5, <2>6, <2>7 DEF SystemTask
  <1>7. CASE UNCHANGED vars
    BY <1>7 DEF vars, disks, files, services, storage, bounds
  <1> QED BY <1>1, <1>2, <1>3, <1>4, <1>5, <1>6, <1>7 DEF Next, Run

-------------------------------------------------------------------------------
(* The inductive invariant.                                                *)

\* A record of the wanted configuration is not the absence of a file.
LEMMA WantedIsConfig == TypeOK => wanted # None
  BY DaosAssumption DEF TypeOK, Config

\* A cluster that has not been configured satisfies the invariant.
LEMMA InitInv == Init => IInv
  <1> SUFFICES ASSUME Init PROVE IInv
    OBVIOUS
  <1>1. TypeOK
    BY InitTyped
  <1> QED BY <1>1 DEF Init, IInv, Rendered, Serving, Passed, SavedTopology,
                      MappedBeforeBound, Ended, ReadyAfterSuccess

\* Every task preserves the invariant, whether it is done on all servers or not.
LEMMA StepInv == IInv /\ [Next]_vars => IInv'
  <1> SUFFICES ASSUME IInv, [Next]_vars PROVE IInv'
    OBVIOUS
  <1>t. TypeOK /\ TypeOK'
    BY StepTyped DEF IInv
  <1>w. wanted # None
    BY <1>t, WantedIsConfig
  <1> DEFINE Rest == Rendered /\ Serving /\ Passed /\ SavedTopology
                       /\ MappedBeforeBound /\ Ended /\ ReadyAfterSuccess
  <1> SUFFICES Rest'
    BY <1>t DEF IInv
  <1>r. Rest
    BY DEF IInv
  <1> USE DEF Rendered, Serving, Passed, SavedTopology, MappedBeforeBound, Ended,
              ReadyAfterSuccess, Allowed
  <1>1. CASE Edit
    BY <1>1, <1>r DEF Edit, disks, files, services, storage
  <1>2. CASE Start
    BY <1>2, <1>r DEF Start, disks, files, services, storage, bounds
  <1>3. CASE StartClean
    BY <1>3, <1>r DEF StartClean, disks, files, services, storage
  <1>4. CASE Abort
    BY <1>4, <1>r DEF Abort, disks, files, services, storage
  <1>5. ASSUME NEW S \in SUBSET Servers, ServerTask(S) PROVE Rest'
    <2>1. CASE Discover(S)
      <3>1. /\ pc = "discover" /\ pc' \in {"guard", "idle"} /\ last' \in {last, "failed", "refused"}
            /\ mapped \subseteq mapped' /\ mapped' \subseteq Servers
            /\ UNCHANGED <<wanted, capacity, bound, yml, saved, running, pool, container>>
        BY <2>1, <1>t DEF TypeOK, Discover, Task, Step, files, services, storage
      <3>2. pc' = "guard" => mapped' = Servers
        BY <2>1, <3>1, <1>t DEF TypeOK, Discover, Task, Step
      <3> QED BY <3>1, <3>2, <1>r
    <2>2. CASE Render(S)
      <3>1. /\ pc = "render" /\ pc' \in {"stop", "idle"} /\ last' # "ok"
            /\ wanted' = wanted /\ saved' = saved
            /\ mapped = Servers
            /\ UNCHANGED <<mapped, bound, running, pool, container, capacity>>
        BY <2>2, <1>r DEF Render, Task, disks, services, storage
      <3>2. \A s \in Servers : yml'[s] = IF s \in S THEN wanted ELSE yml[s]
        BY <2>2 DEF Render
      <3>3. pc' = "stop" => S = Servers
        BY <2>2, <3>1 DEF Render, Task
      <3>4. SavedTopology'
        BY <3>1, <3>2, <1>r, <1>w
      <3> QED BY <3>1, <3>2, <3>3, <3>4, <1>r
    <2>3. CASE StopServers(S)
      BY <2>3, <1>r DEF StopServers, Task, disks, files, storage
    <2>4. CASE Remount(S)
      BY <2>4, <1>r DEF Remount, Task, disks, files, storage
    <2>5. CASE Prepare(S)
      BY <2>5, <1>r DEF Prepare, Task, files, services, storage
    <2>6. CASE StartServers(S)
      BY <2>6, <1>r, <1>w, <1>t DEF StartServers, Task, disks, files, storage, TypeOK
    <2>7. CASE Preserve(S)
      BY <2>7, <1>r, <1>w, <1>t DEF Preserve, disks, services, storage, TypeOK
    <2>8. CASE HaltServers(S)
      BY <2>8, <1>r DEF HaltServers, disks, files, storage
    <2> QED BY <1>5, <2>1, <2>2, <2>3, <2>4, <2>5, <2>6, <2>7, <2>8 DEF ServerTask
  <1>6. CASE SystemTask
    <2>1. CASE Guard
      BY <2>1, <1>r DEF Guard, Step, disks, files, services, storage, bounds
    <2>2. CASE RemountFails
      BY <2>2, <1>r DEF RemountFails, Step, disks, files, services, storage, bounds
    <2>3. CASE Format
      BY <2>3, <1>r DEF Format, Step, files, storage, bounds
    <2>4. CASE CreatePool
      BY <2>4, <1>r DEF CreatePool, Step, disks, files, services, bounds
    <2>5. CASE Verify
      BY <2>5, <1>r DEF Verify, Step, disks, files, services, storage, bounds
    <2>6. CASE CreateContainer
      BY <2>6, <1>r DEF CreateContainer, Step, disks, files, services, bounds
    <2>7. CASE DestroyPool
      BY <2>7, <1>r DEF DestroyPool, Step, disks, files, services, storage, bounds
    <2> QED BY <1>6, <2>1, <2>2, <2>3, <2>4, <2>5, <2>6, <2>7 DEF SystemTask
  <1>7. CASE UNCHANGED vars
    BY <1>7, <1>r DEF vars, disks, files, services, storage, bounds
  <1> QED BY <1>1, <1>2, <1>3, <1>4, <1>5, <1>6, <1>7 DEF Next, Run

\* The inductive invariant holds throughout every run of configure_daos.yaml.
THEOREM Invariance == Spec => []IInv
  BY InitInv, StepInv, PTL DEF Spec

-------------------------------------------------------------------------------
(* The properties.                                                         *)

\* Every variable keeps its type, for all configurations of the playbook.
THEOREM TypeCorrect == Spec => []TypeOK
  <1>1. IInv => TypeOK
    BY DEF IInv
  <1> QED BY <1>1, Invariance, PTL

\* No NVMe device is bound before its server's mapping has been persisted.
THEOREM MappedAlways == Spec => []MappedBeforeBound
  <1>1. IInv => MappedBeforeBound
    BY DEF IInv
  <1> QED BY <1>1, Invariance, PTL

\* A run of the playbook that succeeds leaves what the inventory asks for.
THEOREM ReadyAlways == Spec => []ReadyAfterSuccess
  <1>1. IInv => ReadyAfterSuccess
    BY DEF IInv
  <1> QED BY <1>1, Invariance, PTL

\* Once a server has a fingerprint, the topology in its file never changes.
THEOREM TopologyAlwaysKept == Spec => TopologyKept
  <1> DEFINE Kept == \A s \in Servers : saved[s] # None => yml'[s].topology = yml[s].topology
  <1>1. ASSUME IInv, [Next]_vars PROVE [Kept]_vars
    <2> SUFFICES ASSUME NEW s \in Servers, saved[s] # None
                 PROVE yml'[s].topology = yml[s].topology
      OBVIOUS
    <2>1. CASE yml' = yml
      BY <2>1
    <2>2. ASSUME NEW S \in SUBSET Servers, Render(S) PROVE yml'[s].topology = yml[s].topology
      <3>1. yml'[s] = IF s \in S THEN wanted ELSE yml[s]
        BY <2>2 DEF Render
      <3>2. Allowed(s) /\ saved[s].topology = yml[s].topology
        BY <2>2, <1>1 DEF Render, Task, IInv, Passed, SavedTopology
      <3> QED BY <3>1, <3>2 DEF Allowed
    <2>3. yml' = yml \/ \E S \in SUBSET Servers : Render(S)
      BY <1>1 DEF Next, Run, ServerTask, SystemTask, Edit, Start, StartClean, Abort,
         Discover, StopServers, Remount, Prepare, StartServers, Preserve, HaltServers,
         Guard, RemountFails, Format, CreatePool, Verify, CreateContainer,
         DestroyPool, files, vars
    <2> QED BY <2>1, <2>2, <2>3
  <1> QED BY <1>1, Invariance, PTL DEF Spec, TopologyKept

-------------------------------------------------------------------------------
(* The RAM of the servers.                                                 *)

\* A run goes beyond the guard only with a RAM disk that every server has room for,
\* and what the servers run with and have mounted was rendered by such runs.
Fitting ==
    /\ pc \in {"render", "stop", "remount", "prepare", "start", "format", "create",
             "verify", "container", "preserve"} => \A s \in Servers : LeavesRAM(wanted.scm, s)
    /\ \A s \in Servers : running[s] # None => LeavesRAM(running[s].scm, s)
    /\ RAMLeft

LEMMA NoDiskFits == \A s \in Servers : LeavesRAM(0, s)
  BY DaosAssumption DEF LeavesRAM

\* Each step that mounts or starts something uses the configuration the guard passed.
LEMMA StepFitting == IInv /\ Fitting /\ [Next]_vars => Fitting'
  <1> SUFFICES ASSUME IInv, Fitting, [Next]_vars PROVE Fitting'
    OBVIOUS
  <1> USE DEF Fitting, RAMLeft
  <1>1. CASE Edit \/ Start \/ StartClean \/ Abort
    BY <1>1 DEF Edit, Start, StartClean, Abort, disks, files, services, storage, bounds
  <1>2. ASSUME NEW S \in SUBSET Servers, ServerTask(S) PROVE Fitting'
    <2>1. CASE StartServers(S)
      <3>1. \A s \in Servers : yml[s] = wanted /\ LeavesRAM(wanted.scm, s)
        BY <2>1 DEF StartServers, Task, IInv, Rendered
      <3> QED BY <2>1, <3>1 DEF StartServers, Task, disks, files, storage
    <2>2. CASE Discover(S)
      BY <2>2 DEF Discover, Task, Step, bounds, files, services, storage
    <2>3. CASE Render(S) \/ StopServers(S) \/ Remount(S) \/ Prepare(S)
      BY <2>3 DEF Render, StopServers, Remount, Prepare, Task, disks, files, services, storage
    <2>4. CASE Preserve(S) \/ HaltServers(S)
      BY <2>4 DEF Preserve, HaltServers, disks, files, services, storage
    <2> QED BY <1>2, <2>1, <2>2, <2>3, <2>4 DEF ServerTask
  <1>3. CASE SystemTask
    <2>1. CASE Guard
      BY <2>1 DEF Guard, Step, disks, files, services, storage, bounds
    <2>2. CASE Format
      <3>1. \A s \in Servers : running[s] # None
        BY <2>2 DEF Format, Step, IInv, Serving
      <3> QED BY <2>2, <3>1 DEF Format, Step, files, storage, bounds
    <2>3. CASE RemountFails \/ CreatePool \/ Verify \/ CreateContainer \/ DestroyPool
      BY <2>3 DEF RemountFails, CreatePool, Verify, CreateContainer, DestroyPool, Step,
                  disks, files, services, storage, bounds
    <2> QED BY <1>3, <2>1, <2>2, <2>3 DEF SystemTask
  <1>4. CASE UNCHANGED vars
    BY <1>4 DEF vars, disks, files, services, storage, bounds
  <1> QED BY <1>1, <1>2, <1>3, <1>4 DEF Next, Run

\* Wherever runs fail between rendering a configuration and using it, no server ever has
\* a RAM disk that leaves it less than 40 percent of its RAM.
THEOREM RAMAlwaysLeft == Spec => []RAMLeft
  <1>1. Init => Fitting
    BY NoDiskFits DEF Init, Fitting, RAMLeft
  <1>2. Fitting => RAMLeft
    BY DEF Fitting
  <1> QED BY <1>1, <1>2, StepFitting, Invariance, PTL DEF Spec

-------------------------------------------------------------------------------
(* As long as no task has failed and no run was killed.                    *)

\* A server runs, if at all, with its file and on a RAM disk of that size, but for
\* those whose file has just changed.
InForce(s) == running[s] \in {None, yml[s]}
Sized(s) == ram[s] = 0 \/ ram[s] = yml[s].scm
Forced ==
    \A s \in Servers :
        /\ (pc = "stop" /\ s \in changed) \/ InForce(s)
        /\ (pc \in {"stop", "remount"} /\ s \in changed) \/ Sized(s)

\* The RAM disks of a formatted system are mounted.
MountedOnce ==
    /\ formatted = "yes" => \A s \in Servers : ram[s] # 0
    /\ pc \in {"create", "verify", "container", "preserve"} => formatted = "yes"

\* The pool has room wherever the files and the fingerprints may lead, and all
\* servers have a fingerprint once the run that has created it is over.
Roomy ==
    pool # 0 => \A s \in Servers :
        /\ pool <= yml[s].scm
        /\ \/ saved[s] # None /\ pool <= saved[s].scm
           \/ pc \in {"verify", "container", "preserve"} /\ pool = capacity

\* The pool is the run's own when it follows a makeclean that has deleted the last.
Own ==
    emptied = "yes" =>
        /\ pc \in {"discover", "guard", "render", "stop", "remount", "prepare", "start",
                 "format", "create"} => pool = 0
        /\ pc = "verify" => pool = capacity

Intact ==
    /\ faults \in Nat
    /\ last = "refused" => pc = "idle"
    /\ faults = 0 => Forced /\ MountedOnce /\ Roomy /\ Own /\ ConfigInForce /\ CleanRecovers

LEMMA InitIntact == Init => Intact
  BY DEF Init, Intact, Forced, InForce, Sized, MountedOnce, Roomy, Own, ConfigInForce,
         CleanRecovers

\* Sizes and capacities are numbers, and no size is 0.
LEMMA SizesAreNumbers ==
    ASSUME TypeOK
    PROVE  /\ pool \in Nat /\ capacity \in Nat
           /\ wanted.scm \in Nat /\ wanted.scm > 0
           /\ \A s \in Servers : yml[s] # None => yml[s].scm \in Nat
  <1>1. wanted \in Config /\ \A s \in Servers : yml[s] # None => yml[s] \in Config
    BY DEF TypeOK
  <1>2. \A c \in Config : c.scm \in Nat \ {0}
    BY DaosAssumption DEF Config
  <1>3. \A n \in Nat \ {0} : n \in Nat /\ n > 0
    OBVIOUS
  <1>4. pool \in Nat /\ capacity \in Nat
    BY DaosAssumption DEF TypeOK
  <1> QED BY <1>1, <1>2, <1>3, <1>4

\* A task on the servers that has not failed was done on all of them.
LEMMA TaskDone ==
    ASSUME faults \in Nat, NEW here, NEW S, NEW all, NEW next, Task(here, S, all, next)
    PROVE  /\ faults' \in Nat /\ pc = here /\ UNCHANGED <<wanted, capacity, emptied>>
           /\ last' = last \/ last' = "failed"
           /\ faults' = 0 => faults = 0 /\ S = all /\ pc' = next /\ last' = last
  BY DEF Task, Fault

\* What is to be shown of a step that has not failed.
Intact0 == Forced /\ MountedOnce /\ Roomy /\ Own /\ ConfigInForce /\ CleanRecovers

\* A refusal before the pool is created needs another topology or too little RAM.
LEMMA GuardRefuses ==
    ASSUME IInv, Intact, faults = 0, Guard
    PROVE  Intact0'
  <1>1. /\ pc = "guard" /\ pc' \in {"render", "idle"}
        /\ last' = last \/ last' = "refused"
        /\ last' = "refused" => ~ \A s \in Servers : Allowed(s) /\ LeavesRAM(wanted.scm, s)
        /\ UNCHANGED <<wanted, capacity, emptied, faults>>
        /\ UNCHANGED <<formatted, yml, saved, running, ram, pool, changed>>
    BY DEF Guard, Step, bounds, disks, files, services, storage, IInv, Intact
  <1>2. last \notin {"ok", "refused"}
    BY <1>1 DEF IInv, Ended, Intact
  <1>3. Forced' /\ MountedOnce' /\ Roomy' /\ Own' /\ ConfigInForce'
    BY <1>1, <1>2 DEF Intact, Forced, InForce, Sized, MountedOnce, Roomy, Own, ConfigInForce
  <1>4. CleanRecovers'
    <2> SUFFICES ASSUME last' = "refused", emptied = "yes"
                 PROVE  \/ \E s \in Servers : ~LeavesRAM(wanted.scm, s)
                        \/ \E s \in Servers : saved[s] # None /\ yml[s].topology # wanted.topology
      BY <1>1 DEF CleanRecovers
    <2>1. pool = 0
      BY <1>1 DEF Intact, Own
    <2> QED BY <1>1, <2>1 DEF Allowed
  <1> QED BY <1>3, <1>4 DEF Intact0

\* What the guard has let pass leaves room for the pool.
LEMMA RenderIntact ==
    ASSUME IInv, IInv', Intact, NEW S \in SUBSET Servers, Render(S), faults' = 0
    PROVE  Intact0'
  <1>1. /\ faults = 0 /\ S = Servers /\ pc = "render" /\ pc' = "stop" /\ last' = last
        /\ UNCHANGED <<wanted, capacity, emptied>>
        /\ UNCHANGED <<formatted, saved, running, ram, pool>>
        /\ changed' = {s \in S : yml[s] # wanted}
    BY TaskDone DEF Render, Intact, disks, services, storage
  <1>2. last \notin {"ok", "refused"}
    BY <1>1 DEF IInv, Ended, Intact
  <1>3. \A s \in Servers : yml'[s] = wanted /\ (s \notin changed' => yml[s] = wanted)
    BY <1>1 DEF Render
  <1>4. Forced'
    BY <1>1, <1>3 DEF Intact, Forced, InForce, Sized
  <1>5. MountedOnce' /\ Own' /\ ConfigInForce' /\ CleanRecovers'
    BY <1>1, <1>2 DEF Intact, MountedOnce, Own, ConfigInForce, CleanRecovers
  <1>6. Roomy'
    <2> SUFFICES ASSUME pool # 0, NEW s \in Servers
                 PROVE  pool <= wanted.scm /\ saved[s] # None /\ pool <= saved[s].scm
      BY <1>1, <1>3 DEF Roomy
    <2>1. pool <= yml[s].scm /\ saved[s] # None /\ pool <= saved[s].scm
      BY <1>1 DEF Intact, Roomy
    <2>2. saved[s] # wanted => wanted.scm >= yml[s].scm
      BY <1>1, <2>1 DEF IInv, Passed, Allowed
    <2>3. /\ wanted.scm \in Nat /\ pool \in Nat
          /\ yml[s] # None /\ yml[s].scm \in Nat
      BY <2>1, SizesAreNumbers DEF IInv, SavedTopology
    <2> QED BY <2>1, <2>2, <2>3
  <1> QED BY <1>4, <1>5, <1>6 DEF Intact0

\* The servers whose files have changed are stopped.
LEMMA StopIntact ==
    ASSUME IInv, IInv', Intact, NEW S \in SUBSET Servers, StopServers(S), faults' = 0
    PROVE  Intact0'
  <1>1. /\ faults = 0 /\ S = changed /\ pc = "stop" /\ pc' = "remount" /\ last' = last
        /\ UNCHANGED <<wanted, capacity, emptied>>
        /\ UNCHANGED <<formatted, yml, saved, ram, pool, changed>>
        /\ running' = [s \in Servers |-> IF s \in S THEN None ELSE running[s]]
    BY TaskDone DEF StopServers, Intact, disks, files, storage
  <1>2. last \notin {"ok", "refused"}
    BY <1>1 DEF IInv, Ended, Intact
  <1>3. Forced'
    BY <1>1 DEF Intact, Forced, InForce, Sized
  <1>4. MountedOnce' /\ Roomy' /\ Own' /\ ConfigInForce' /\ CleanRecovers'
    BY <1>1, <1>2 DEF Intact, MountedOnce, Roomy, Own, ConfigInForce, CleanRecovers
  <1> QED BY <1>3, <1>4 DEF Intact0

\* The RAM disks of stopped servers get the size of their files.
LEMMA RemountIntact ==
    ASSUME IInv, IInv', Intact, NEW S \in SUBSET Servers, Remount(S), faults' = 0
    PROVE  Intact0'
  <1>1. /\ faults = 0 /\ S = Mounted /\ pc = "remount" /\ pc' = "prepare" /\ last' = last
        /\ UNCHANGED <<wanted, capacity, emptied>>
        /\ UNCHANGED <<formatted, yml, saved, running, pool, changed>>
        /\ ram' = [s \in Servers |-> IF s \in S THEN wanted.scm ELSE ram[s]]
    BY TaskDone DEF Remount, Intact, disks, files, storage
  <1>2. last \notin {"ok", "refused"}
    BY <1>1 DEF IInv, Ended, Intact
  <1>3. \A s \in Servers : yml[s] = wanted
    BY <1>1 DEF IInv, Rendered
  <1>4. Forced'
    BY <1>1, <1>3 DEF Intact, Forced, InForce, Sized, Mounted
  <1>5. MountedOnce'
    <2>1. wanted.scm # 0
      BY DaosAssumption DEF IInv, TypeOK, Config
    <2> QED BY <1>1, <2>1 DEF Intact, MountedOnce
  <1>6. Roomy' /\ Own' /\ ConfigInForce' /\ CleanRecovers'
    BY <1>1, <1>2 DEF Intact, Roomy, Own, ConfigInForce, CleanRecovers
  <1> QED BY <1>4, <1>5, <1>6 DEF Intact0

\* The pool fits: no RAM disk is refused its size.
LEMMA NeverOverfull ==
    ASSUME IInv, Intact, faults = 0, RemountFails
    PROVE  FALSE
  <1>1. pc = "remount" /\ pool > wanted.scm
    BY DEF RemountFails, Step, Overfull
  <1>2. pool \in Nat /\ wanted.scm \in Nat /\ wanted.scm > 0
    BY SizesAreNumbers DEF IInv
  <1>3. pool # 0
    BY <1>1, <1>2
  <1>4. PICK s \in Servers : TRUE
    BY DaosAssumption
  <1>5. pool <= yml[s].scm /\ yml[s] = wanted
    BY <1>1, <1>3 DEF Intact, Roomy, IInv, Rendered
  <1>6. pool <= wanted.scm
    BY <1>5
  <1> QED BY <1>1, <1>2, <1>6

\* A server that is started reads its file and mounts a RAM disk of that size.
LEMMA StartIntact ==
    ASSUME IInv, IInv', Intact, NEW S \in SUBSET Servers, StartServers(S), faults' = 0
    PROVE  Intact0'
  <1>1. /\ faults = 0 /\ pc = "start" /\ pc' = "format" /\ last' = last
        /\ UNCHANGED <<wanted, capacity, emptied>>
        /\ UNCHANGED <<formatted, yml, saved, pool, changed>>
        /\ running' = [s \in Servers |-> IF s \in S THEN yml[s] ELSE running[s]]
        /\ ram' = [s \in Servers |-> IF s \in S /\ formatted = "yes" /\ ram[s] = 0
                                     THEN yml[s].scm ELSE ram[s]]
    BY TaskDone DEF StartServers, Intact, disks, files, storage
  <1>2. last \notin {"ok", "refused"}
    BY <1>1 DEF IInv, Ended, Intact
  <1>3. Forced'
    BY <1>1 DEF Intact, Forced, InForce, Sized
  <1>4. MountedOnce'
    BY <1>1 DEF Intact, MountedOnce
  <1>5. Roomy' /\ Own' /\ ConfigInForce' /\ CleanRecovers'
    BY <1>1, <1>2 DEF Intact, Roomy, Own, ConfigInForce, CleanRecovers
  <1> QED BY <1>3, <1>4, <1>5 DEF Intact0

\* All servers run with their files when the system is formatted.
LEMMA FormatIntact ==
    ASSUME IInv, IInv', Intact, faults = 0, Format
    PROVE  Intact0'
  <1>1. /\ pc = "format" /\ pc' = "create" /\ last' = last /\ formatted' = "yes"
        /\ UNCHANGED <<wanted, capacity, emptied, yml, saved, running, pool, changed>>
        /\ ram' = [s \in Servers |-> IF formatted = "yes" THEN ram[s] ELSE running[s].scm]
    BY DEF Format, Step, bounds, files, storage
  <1>2. last \notin {"ok", "refused"}
    BY <1>1 DEF IInv, Ended, Intact
  <1>3. \A s \in Servers : running[s] = yml[s] /\ yml[s] = wanted
    BY <1>1 DEF IInv, Serving, Rendered, Intact, Forced, InForce
  <1>4. Forced'
    BY <1>1, <1>3 DEF Intact, Forced, InForce, Sized
  <1>5. MountedOnce'
    <2>1. wanted.scm # 0
      BY DaosAssumption DEF IInv, TypeOK, Config
    <2> QED BY <1>1, <1>3, <2>1 DEF Intact, MountedOnce
  <1>6. Roomy' /\ Own' /\ ConfigInForce' /\ CleanRecovers'
    BY <1>1, <1>2 DEF Intact, Roomy, Own, ConfigInForce, CleanRecovers
  <1> QED BY <1>4, <1>5, <1>6 DEF Intact0

\* A pool that leaves headroom fits on the RAM disks, which have the wanted size.
LEMMA CreateIntact ==
    ASSUME IInv, IInv', Intact, faults = 0, CreatePool
    PROVE  Intact0'
  <1> DEFINE room == Headroom(capacity, wanted.scm)
             fits == \A s \in Servers : capacity <= ram[s]
  <1>1. /\ pc = "create" /\ pc' \in {"verify", "idle"}
        /\ pc' = "verify" => last' = last /\ room /\ (pool # 0 \/ fits)
        /\ pc' = "idle" => last' = "refused" /\ ~(room /\ (pool # 0 \/ fits))
        /\ pool' = IF room /\ pool = 0 /\ fits THEN capacity ELSE pool
        /\ UNCHANGED <<wanted, capacity, emptied, faults>>
        /\ UNCHANGED <<formatted, yml, saved, running, ram, changed>>
    BY DEF CreatePool, Step, bounds, disks, files, services, IInv, TypeOK
  <1>2. last \notin {"ok", "refused"}
    BY <1>1 DEF IInv, Ended, Intact
  <1>3. \A s \in Servers : yml[s] = wanted /\ ram[s] = wanted.scm
    BY <1>1 DEF IInv, Rendered, Intact, Forced, Sized, MountedOnce
  <1>4. room => capacity <= wanted.scm
    <2>1. capacity \in Nat /\ wanted.scm \in Nat
      BY SizesAreNumbers DEF IInv
    <2> QED BY <2>1 DEF Headroom
  <1>5. room => fits
    BY <1>3, <1>4
  <1>6. Forced' /\ MountedOnce' /\ ConfigInForce'
    BY <1>1, <1>2 DEF Intact, Forced, InForce, Sized, MountedOnce, ConfigInForce
  <1>7. Roomy'
    <2>1. CASE room /\ pool = 0
      <3>1. pc' = "verify" /\ pool' = capacity
        BY <1>1, <1>5, <2>1
      <3> QED BY <1>1, <1>3, <1>4, <2>1, <3>1 DEF Roomy
    <2>2. CASE ~(room /\ pool = 0)
      <3>1. pool' = pool
        BY <1>1, <2>2
      <3> QED BY <1>1, <3>1 DEF Intact, Roomy
    <2> QED BY <2>1, <2>2
  <1>8. Own'
    <2> SUFFICES ASSUME emptied = "yes", pc' = "verify" PROVE pool' = capacity
      BY <1>1 DEF Own
    <2>1. pool = 0
      BY <1>1 DEF Intact, Own
    <2> QED BY <1>1, <2>1
  <1>9. CleanRecovers'
    <2> SUFFICES ASSUME last' = "refused" PROVE ~room
      BY <1>1 DEF CleanRecovers
    <2> QED BY <1>1, <1>2, <1>5
  <1> QED BY <1>6, <1>7, <1>8, <1>9 DEF Intact0

\* A pool of another capacity has been there before the run.
LEMMA VerifyIntact ==
    ASSUME IInv, Intact, faults = 0, Verify
    PROVE  Intact0'
  <1>1. /\ pc = "verify" /\ pc' \in {"container", "idle"}
        /\ pc' = "container" => last' = last /\ pool = capacity
        /\ pc' = "idle" => last' = "refused" /\ pool # capacity
        /\ UNCHANGED <<wanted, capacity, emptied, faults>>
        /\ UNCHANGED <<formatted, yml, saved, running, ram, pool, changed>>
    BY DEF Verify, Step, bounds, disks, files, services, storage
  <1>2. last \notin {"ok", "refused"}
    BY <1>1 DEF IInv, Ended, Intact
  <1>3. Forced' /\ MountedOnce' /\ ConfigInForce' /\ Own'
    BY <1>1, <1>2 DEF Intact, Forced, InForce, Sized, MountedOnce, ConfigInForce, Own
  <1>4. Roomy'
    BY <1>1 DEF Intact, Roomy
  <1>5. CleanRecovers'
    BY <1>1, <1>2 DEF Intact, Own, CleanRecovers
  <1> QED BY <1>3, <1>4, <1>5 DEF Intact0

\* The run is successful when every server has its fingerprint.
LEMMA PreserveIntact ==
    ASSUME IInv, IInv', Intact, NEW S \in SUBSET Servers, Preserve(S), faults' = 0
    PROVE  Intact0'
  <1>1. /\ faults = 0 /\ S = Servers /\ pc = "preserve" /\ pc' = "idle" /\ last' = "ok"
        /\ UNCHANGED <<wanted, capacity, emptied>>
        /\ UNCHANGED <<formatted, yml, running, ram, pool, changed>>
        /\ saved' = [s \in Servers |-> IF s \in S THEN wanted ELSE saved[s]]
    BY DEF Preserve, Fault, Intact, disks, services, storage
  <1>2. \A s \in Servers : /\ yml[s] = wanted
                           /\ running[s] = yml[s] /\ ram[s] = yml[s].scm
    BY <1>1 DEF IInv, Rendered, Serving, Intact, Forced, InForce, Sized, MountedOnce
  <1>3. \A s \in Servers : saved'[s] = wanted /\ saved'[s] # None
    BY <1>1, WantedIsConfig DEF IInv
  <1>4. Forced' /\ MountedOnce' /\ Own'
    BY <1>1 DEF Intact, Forced, InForce, Sized, MountedOnce, Own
  <1>5. Roomy'
    BY <1>1, <1>2, <1>3 DEF Intact, Roomy
  <1>6. ConfigInForce' /\ CleanRecovers'
    BY <1>1, <1>2 DEF ConfigInForce, CleanRecovers
  <1> QED BY <1>4, <1>5, <1>6 DEF Intact0

\* Steps that leave files, RAM disks and the pool alone, or stop servers.
LEMMA OthersIntact ==
    ASSUME IInv, IInv', Intact, faults' = 0,
           \/ Edit \/ Start \/ StartClean \/ CreateContainer \/ DestroyPool
           \/ \E S \in SUBSET Servers : Discover(S) \/ Prepare(S) \/ HaltServers(S)
    PROVE  Intact0'
  <1>1. CASE Edit \/ Start \/ StartClean
    <2>1. /\ faults = 0 /\ pc = "idle" /\ pc' \in {"idle", "discover", "destroy"}
          /\ last' \in {"edited", "running"}
          /\ pc' = "discover" /\ emptied' = "yes" => pool = 0
          /\ UNCHANGED <<formatted, yml, saved, running, ram, pool>>
      BY <1>1 DEF Edit, Start, StartClean, disks, files, services, storage, bounds
    <2>2. Forced' /\ MountedOnce' /\ Roomy' /\ Own' /\ ConfigInForce' /\ CleanRecovers'
      BY <2>1 DEF Intact, Forced, InForce, Sized, MountedOnce, Roomy, Own, ConfigInForce,
                  CleanRecovers
    <2> QED BY <2>2 DEF Intact0
  <1>2. CASE CreateContainer
    <2>1. /\ faults = 0 /\ pc = "container" /\ pc' = "preserve" /\ last' = last
          /\ UNCHANGED <<wanted, capacity, emptied, formatted, yml, saved, running, ram, pool>>
      BY <1>2 DEF CreateContainer, Step, disks, files, services, bounds
    <2>2. last \notin {"ok", "refused"}
      BY <2>1 DEF IInv, Ended, Intact
    <2> QED BY <2>1, <2>2 DEF Intact, Intact0, Forced, InForce, Sized, MountedOnce, Roomy, Own,
                              ConfigInForce, CleanRecovers
  <1>3. CASE DestroyPool
    <2>1. /\ faults = 0 /\ pc = "destroy" /\ pc' = "halt" /\ last' = last
          /\ UNCHANGED <<wanted, capacity, emptied, formatted, yml, saved, running, ram>>
          /\ pool' \in {0, pool}
      BY <1>3 DEF DestroyPool, Step, disks, files, services, storage, bounds
    <2>2. last \notin {"ok", "refused"}
      BY <2>1 DEF IInv, Ended, Intact
    <2> QED BY <2>1, <2>2 DEF Intact, Intact0, Forced, InForce, Sized, MountedOnce, Roomy, Own,
                              ConfigInForce, CleanRecovers
  <1>4. CASE \E S \in SUBSET Servers : Discover(S)
    <2>1. PICK S \in SUBSET Servers : Discover(S)
      BY <1>4
    <2>2. (Servers \ mapped) \cap bound = {}
      BY DEF IInv, MappedBeforeBound
    <2>3. Task("discover", S, Servers \ mapped, "guard")
      BY <2>1, <2>2 DEF Discover
    <2>4. /\ faults = 0 /\ pc = "discover" /\ pc' = "guard" /\ last' = last
          /\ UNCHANGED <<wanted, capacity, emptied, formatted, yml, saved, running, ram, pool>>
      BY <2>1, <2>3, TaskDone DEF Discover, Intact, files, services, storage
    <2>5. last \notin {"ok", "refused"}
      BY <2>4 DEF IInv, Ended, Intact
    <2> QED BY <2>4, <2>5 DEF Intact, Intact0, Forced, InForce, Sized, MountedOnce, Roomy, Own,
                              ConfigInForce, CleanRecovers
  <1>5. CASE \E S \in SUBSET Servers : Prepare(S)
    <2>1. /\ faults = 0 /\ pc = "prepare" /\ pc' = "start" /\ last' = last
          /\ UNCHANGED <<wanted, capacity, emptied, formatted, yml, saved, running, ram, pool>>
      BY <1>5, TaskDone DEF Prepare, Intact, files, services, storage
    <2>2. last \notin {"ok", "refused"}
      BY <2>1 DEF IInv, Ended, Intact
    <2> QED BY <2>1, <2>2 DEF Intact, Intact0, Forced, InForce, Sized, MountedOnce, Roomy, Own,
                              ConfigInForce, CleanRecovers
  <1>6. CASE \E S \in SUBSET Servers : HaltServers(S)
    <2>1. /\ faults = 0 /\ pc = "halt" /\ pc' = "idle" /\ last' = "cleaned"
          /\ UNCHANGED <<wanted, capacity, emptied, formatted, yml, saved, ram, pool>>
          /\ \A s \in Servers : running'[s] \in {None, running[s]}
      BY <1>6 DEF HaltServers, Fault, Intact, disks, files, storage
    <2>2. Forced' /\ MountedOnce' /\ Roomy' /\ Own' /\ ConfigInForce' /\ CleanRecovers'
      BY <2>1 DEF Intact, Forced, InForce, Sized, MountedOnce, Roomy, Own, ConfigInForce,
                  CleanRecovers
    <2> QED BY <2>2 DEF Intact0
  <1> QED BY <1>1, <1>2, <1>3, <1>4, <1>5, <1>6

\* The number of failures grows, and a run that was refused is over.
LEMMA StepEnded ==
    ASSUME IInv, Intact, [Next]_vars
    PROVE  faults' \in Nat /\ (last' = "refused" => pc' = "idle")
           /\ (faults' = 0 => faults = 0 /\ ~Abort)
  <1> DEFINE Ends == /\ faults' \in Nat /\ (last' = "refused" => pc' = "idle")
                     /\ (faults' = 0 => faults = 0)
  <1>1. faults \in Nat /\ (last = "refused" => pc = "idle")
    BY DEF Intact
  <1>2. ASSUME Edit \/ Start \/ StartClean \/ Abort PROVE Ends
    BY <1>1, <1>2 DEF Edit, Start, StartClean, Abort, Fault, bounds
  <1>3. ASSUME NEW S \in SUBSET Servers, ServerTask(S)
        PROVE  Ends
    BY <1>1, <1>3 DEF ServerTask, Discover, Render, StopServers, Remount, Prepare, StartServers,
                      Preserve, HaltServers, Task, Step, Fault, bounds
  <1>4. ASSUME SystemTask PROVE Ends
    BY <1>1, <1>4 DEF SystemTask, Guard, RemountFails, Format, CreatePool, Verify,
                      CreateContainer, DestroyPool, Step, bounds
  <1>5. ASSUME UNCHANGED vars PROVE Ends
    BY <1>1, <1>5 DEF vars, bounds
  <1>6. Abort => faults' # 0
    BY <1>1 DEF Abort, Fault
  <1> QED BY <1>2, <1>3, <1>4, <1>5, <1>6 DEF Next, Run

LEMMA StepIntact == IInv /\ IInv' /\ Intact /\ [Next]_vars => Intact'
  <1> SUFFICES ASSUME IInv, IInv', Intact, [Next]_vars, faults' = 0
               PROVE  Intact0'
    BY StepEnded DEF Intact, Intact0
  <1>1. faults = 0 /\ ~Abort
    BY StepEnded
  <1>2. CASE Edit \/ Start \/ StartClean
    BY <1>2, OthersIntact
  <1>3. CASE \E S \in SUBSET Servers : ServerTask(S)
    BY <1>3, OthersIntact, RenderIntact, StopIntact, RemountIntact, StartIntact,
       PreserveIntact DEF ServerTask
  <1>4. CASE SystemTask
    BY <1>1, <1>4, GuardRefuses, NeverOverfull, FormatIntact, CreateIntact, VerifyIntact,
       OthersIntact DEF SystemTask
  <1>5. CASE UNCHANGED vars
    <2>1. UNCHANGED <<wanted, capacity, formatted, yml, saved, running, ram, pool, pc, changed,
                      last, emptied, faults>>
      BY <1>5 DEF vars, disks, files, services, storage, bounds
    <2>2. Forced' /\ MountedOnce' /\ Roomy' /\ Own' /\ ConfigInForce' /\ CleanRecovers'
      BY <1>1, <2>1 DEF Intact, Forced, InForce, Sized, MountedOnce, Roomy, Own, ConfigInForce,
                        CleanRecovers
    <2> QED BY <2>2 DEF Intact0
  <1> QED BY <1>1, <1>2, <1>3, <1>4, <1>5 DEF Next, Run

LEMMA IntactAlways == Spec => []Intact
  <1> QED BY InitIntact, StepIntact, Invariance, PTL DEF Spec

\* Without a failure, a run that succeeds leaves every server running with the file on
\* disk and on a RAM disk of its size, whatever was edited before.
THEOREM ForceAlways == Spec => []ConfigInForce
  <1>1. Intact => ConfigInForce
    BY DEF Intact, ConfigInForce
  <1> QED BY <1>1, IntactAlways, PTL

\* Without a failure, a run that follows a makeclean which deleted the pool is refused
\* for a pool without headroom, a server without RAM for its RAM disk, or another
\* topology only: for any sizes, capacities and memories.
THEOREM CleanAlwaysRecovers == Spec => []CleanRecovers
  <1>1. Intact => CleanRecovers
    BY DEF Intact, CleanRecovers
  <1> QED BY <1>1, IntactAlways, PTL
===============================================================================

------------------------------ MODULE DaosConfig ------------------------------
(***************************************************************************)
(* Phase 5 of a DAOS cluster: configure_daos.yaml brings the storage       *)
(* servers from raw devices to a running system with a benchmark pool, and *)
(* is run again after a failure or an edit of the configuration; its       *)
(* makeclean play deletes the pool and stops the servers.                  *)
(*                                                                         *)
(* The plays are any_errors_fatal under the linear strategy: every server  *)
(* has finished a task before the next one starts, and a run goes no       *)
(* further than a task that fails somewhere.  A run can also be killed at  *)
(* any point.  What the tasks registered ('changed') is then lost; what    *)
(* they wrote on the servers stays.  DAOS itself is external.              *)
(***************************************************************************)
EXTENDS Integers, FiniteSets

CONSTANTS
    Servers,        \* the ds group
    Memory,         \* Memory[s]: the RAM of a server, in MiB
    Sizes,          \* scm_size: RAM-disk sizes the configuration may ask for, in GiB
    Topologies,     \* the rest of daos_server.yml
    Capacities,     \* pool_metadata_gib_per_server
    None,           \* no file
    MaxEdits,       \* bound on the edits of the configuration
    MaxFaults,      \* bound on failed tasks and kills
    MaxCleans       \* bound on the makeclean runs

ASSUME DaosAssumption ==
    /\ Servers # {}
    /\ Memory \in [Servers -> Nat]
    /\ Sizes \subseteq Nat \ {0}
    /\ Capacities \subseteq Nat \ {0}
    /\ MaxEdits \in Nat
    /\ MaxFaults \in Nat
    /\ MaxCleans \in Nat
    /\ None \notin [scm : Sizes, topology : Topologies]

Config == [scm : Sizes, topology : Topologies]

VARIABLES
    wanted,     \* the server configuration the inventory asks for
    capacity,   \* the pool capacity it asks for
    mapped,     \* servers with a persisted NVMe mapping, tessi_nvme.json
    bound,      \* servers whose NVMe devices are bound to vfio
    yml,        \* yml[s]: daos_server.yml
    saved,      \* saved[s]: the configuration of s's fingerprint file
    running,    \* running[s]: the configuration s runs with, None when stopped
    ram,        \* ram[s]: size of the mounted RAM disk, 0 if there is none
    formatted,  \* "yes" once the engines have been formatted
    pool,       \* capacity of the benchmark pool, 0 if there is none
    container,  \* "yes" when the API container exists
    pc,         \* the next task of the run, or "idle"
    changed,    \* servers whose template task reported a change in this run
    last,       \* how the last run ended
    emptied,    \* "yes" when this run started after a makeclean had deleted the pool
    edits, faults, cleans

disks == <<mapped, bound, formatted>>
files == <<yml, saved>>
services == <<running, ram>>
storage == <<pool, container>>
bounds == <<edits, faults, cleans>>
vars == <<wanted, capacity, disks, files, services, storage, pc, changed, last, emptied, bounds>>

Init ==
    /\ wanted \in Config
    /\ capacity \in Capacities
    /\ mapped = {}
    /\ bound = {}
    /\ yml = [s \in Servers |-> None]
    /\ saved = [s \in Servers |-> None]
    /\ running = [s \in Servers |-> None]
    /\ ram = [s \in Servers |-> 0]
    /\ formatted = "no"
    /\ pool = 0
    /\ container = "no"
    /\ pc = "idle"
    /\ changed = {}
    /\ last = "none"
    /\ emptied = "no"
    /\ edits = 0
    /\ faults = 0
    /\ cleans = 0

\* The pool's metadata leaves 20 percent of the RAM disk.
Headroom(cap, scm) == 10 * cap <= 8 * scm

\* The inventory is edited and bootstrapped again, between two runs.
Edit ==
    /\ pc = "idle"
    /\ edits < MaxEdits
    /\ edits' = edits + 1
    /\ wanted' \in Config
    /\ capacity' \in Capacities
    /\ last' = "edited"
    /\ UNCHANGED <<disks, files, services, storage, pc, changed, emptied, faults, cleans>>

Start ==
    /\ pc = "idle"
    /\ pc' = "discover"
    /\ changed' = {}
    /\ last' = "running"
    /\ emptied' = IF last = "cleaned" /\ pool = 0 THEN "yes" ELSE "no"
    /\ UNCHANGED <<wanted, capacity, disks, files, services, storage, bounds>>

StartClean ==
    /\ pc = "idle"
    /\ cleans < MaxCleans
    /\ cleans' = cleans + 1
    /\ pc' = "destroy"
    /\ last' = "running"
    /\ UNCHANGED <<wanted, capacity, disks, files, services, storage, changed, emptied, edits, faults>>

Fault == faults < MaxFaults /\ faults' = faults + 1

\* A task for the servers in all, done on those in S, is followed by the task
\* next; when it has not been done on all of them the run ends.
Task(here, S, all, next) ==
    /\ pc = here
    /\ S \subseteq all
    /\ \/ S = all /\ pc' = next /\ UNCHANGED <<faults, last>>
       \/ S # all /\ pc' = "idle" /\ last' = "failed" /\ Fault
    /\ UNCHANGED <<wanted, capacity, emptied, edits, cleans>>

\* A check or an operation on the whole system; it fails unless ok holds.
Step(here, ok, next) ==
    /\ pc = here
    /\ IF ok THEN pc' = next /\ UNCHANGED last ELSE pc' = "idle" /\ last' = "refused"
    /\ UNCHANGED <<wanted, capacity, emptied, bounds>>

\* A task fails before it has done anything, or the run is killed.
Abort ==
    /\ pc # "idle"
    /\ pc' = "idle"
    /\ last' = "failed"
    /\ Fault
    /\ UNCHANGED <<wanted, capacity, disks, files, services, storage, changed, emptied, edits, cleans>>

-------------------------------------------------------------------------------
(* Play "Configure DAOS storage engines".                                  *)

\* Mutant of Discover: the addresses are not persisted.
DiscoverOnly(S) ==
    /\ (Servers \ mapped) \cap bound = {}
    /\ Task("discover", S, Servers \ mapped, "guard")
    /\ UNCHANGED <<disks, files, services, storage, changed>>

\* The devices of a server without a mapping must be unused block devices, which
\* they no longer are once bound; their addresses are then persisted.
Discover(S) ==
    /\ IF (Servers \ mapped) \cap bound = {}
       THEN Task("discover", S, Servers \ mapped, "guard") /\ mapped' = mapped \cup S
       ELSE Step("discover", FALSE, "guard") /\ UNCHANGED mapped
    /\ UNCHANGED <<bound, formatted, files, services, storage, changed>>

\* Whether a server with another fingerprint may be given the wanted configuration:
\* only scm_size may differ from its daos_server.yml, and it may only grow unless
\* no pool data is on the RAM disk.
Allowed(s) ==
    saved[s] # None /\ saved[s] # wanted =>
        /\ wanted.scm >= yml[s].scm \/ pool = 0
        /\ wanted.topology = yml[s].topology

\* Metadata memory must leave at least 40 percent of server RAM.
LeavesRAM(scm, s) == 10 * 1024 * scm <= 6 * Memory[s]

\* Both are checked on every server on every run; neither changes anything.
Guard ==
    /\ Step("guard", \A s \in Servers : Allowed(s) /\ LeavesRAM(wanted.scm, s), "render")
    /\ UNCHANGED <<disks, files, services, storage, changed>>

Render(S) ==
    /\ Task("render", S, Servers, "stop")
    /\ yml' = [s \in Servers |-> IF s \in S THEN wanted ELSE yml[s]]
    /\ changed' = {s \in S : yml[s] # wanted}
    /\ UNCHANGED <<disks, saved, services, storage>>

StopServers(S) ==
    /\ Task("stop", S, changed, "remount")
    /\ running' = [s \in Servers |-> IF s \in S THEN None ELSE running[s]]
    /\ UNCHANGED <<disks, files, ram, storage, changed>>

\* Linux refuses a size that does not hold what is on the RAM disk.
Mounted == {s \in changed : ram[s] # 0}
Overfull == pool > wanted.scm /\ Mounted # {}

\* Mutant of Remount: the RAM disk keeps its size.
NoRemount(S) ==
    /\ Task("remount", S, Mounted, "prepare")
    /\ UNCHANGED <<disks, files, services, storage, changed>>

Remount(S) ==
    /\ ~Overfull
    /\ Task("remount", S, Mounted, "prepare")
    /\ ram' = [s \in Servers |-> IF s \in S THEN wanted.scm ELSE ram[s]]
    /\ UNCHANGED <<disks, files, running, storage, changed>>

RemountFails ==
    /\ Overfull
    /\ Step("remount", FALSE, "prepare")
    /\ UNCHANGED <<disks, files, services, storage, changed>>

Prepare(S) ==
    /\ Task("prepare", S, {s \in Servers : running[s] = None}, "start")
    /\ bound' = bound \cup S
    /\ UNCHANGED <<mapped, formatted, files, services, storage, changed>>

\* A server of a formatted system mounts its RAM disk when it has none.
StartServers(S) ==
    /\ Task("start", S, {s \in Servers : running[s] = None}, "format")
    /\ running' = [s \in Servers |-> IF s \in S THEN yml[s] ELSE running[s]]
    /\ ram' = [s \in Servers |-> IF s \in S /\ formatted = "yes" /\ ram[s] = 0
                                 THEN yml[s].scm ELSE ram[s]]
    /\ UNCHANGED <<disks, files, storage, changed>>

-------------------------------------------------------------------------------
(* Play "Initialize DAOS and create benchmark storage".                    *)

\* Only when the system does not answer the query; formatting mounts the RAM disks.
Format ==
    /\ Step("format", TRUE, "create")
    /\ formatted' = "yes"
    /\ ram' = [s \in Servers |-> IF formatted = "yes" THEN ram[s] ELSE running[s].scm]
    /\ UNCHANGED <<mapped, bound, files, running, storage, changed>>

\* Mutant of CreatePool: the pool is created even when its label is registered.
CreateAgain ==
    LET room == Headroom(capacity, wanted.scm)
        fits == \A s \in Servers : capacity <= ram[s]
    IN  /\ Step("create", room /\ fits, "verify")
        /\ pool' = IF room /\ fits THEN pool + capacity ELSE pool
        /\ UNCHANGED <<disks, files, services, container, changed>>

\* Once every engine has joined: an existing pool is left alone, a new one needs
\* room on every RAM disk.
CreatePool ==
    LET room == Headroom(capacity, wanted.scm)
        fits == \A s \in Servers : capacity <= ram[s]
    IN  /\ Step("create", room /\ (pool # 0 \/ fits), "verify")
        /\ pool' = IF room /\ pool = 0 /\ fits THEN capacity ELSE pool
        /\ UNCHANGED <<disks, files, services, container, changed>>

\* Mutant of Verify: whatever pool there is is accepted.
VerifyAny ==
    /\ Step("verify", pool # 0, "container")
    /\ UNCHANGED <<disks, files, services, storage, changed>>

Verify ==
    /\ Step("verify", pool = capacity, "container")
    /\ UNCHANGED <<disks, files, services, storage, changed>>

CreateContainer ==
    /\ Step("container", TRUE, "preserve")
    /\ container' = "yes"
    /\ UNCHANGED <<disks, files, services, pool, changed>>

Preserve(S) ==
    /\ pc = "preserve"
    /\ S \subseteq Servers
    /\ saved' = [s \in Servers |-> IF s \in S THEN wanted ELSE saved[s]]
    /\ pc' = "idle"
    /\ \/ S = Servers /\ last' = "ok" /\ UNCHANGED faults
       \/ S # Servers /\ last' = "failed" /\ Fault
    /\ UNCHANGED <<wanted, capacity, disks, yml, services, storage, changed, emptied, edits, cleans>>

-------------------------------------------------------------------------------
(* Play "Delete the benchmark pool and stop DAOS services".                *)

\* The pools are listed by the servers; without an answer, which is certain only
\* when all of them run or none does, no pool is deleted.
DestroyPool ==
    /\ Step("destroy", TRUE, "halt")
    /\ \/ /\ \E s \in Servers : running[s] # None
          /\ pool' = 0
          /\ container' = "no"
       \/ /\ \E s \in Servers : running[s] = None
          /\ UNCHANGED storage
    /\ UNCHANGED <<disks, files, services, changed>>

\* Mutant of HaltServers: makeclean also deletes the NVMe mapping.
HaltAndForget(S) ==
    /\ pc = "halt"
    /\ S = Servers
    /\ running' = [s \in Servers |-> None]
    /\ mapped' = {}
    /\ pc' = "idle"
    /\ last' = "cleaned"
    /\ UNCHANGED <<wanted, capacity, bound, formatted, files, ram, storage, changed,
                   emptied, bounds>>

HaltServers(S) ==
    /\ pc = "halt"
    /\ S \subseteq Servers
    /\ running' = [s \in Servers |-> IF s \in S THEN None ELSE running[s]]
    /\ pc' = "idle"
    /\ \/ S = Servers /\ last' = "cleaned" /\ UNCHANGED faults
       \/ S # Servers /\ last' = "failed" /\ Fault
    /\ UNCHANGED <<wanted, capacity, disks, files, ram, storage, changed, emptied, edits, cleans>>

-------------------------------------------------------------------------------
ServerTask(S) ==
    \/ Discover(S) \/ Render(S) \/ StopServers(S) \/ Remount(S) \/ Prepare(S)
    \/ StartServers(S) \/ Preserve(S) \/ HaltServers(S)

SystemTask ==
    \/ Guard \/ RemountFails \/ Format \/ CreatePool \/ Verify
    \/ CreateContainer \/ DestroyPool

Run == SystemTask \/ \E S \in SUBSET Servers : ServerTask(S)

Next == Edit \/ Start \/ StartClean \/ Abort \/ Run

Spec == Init /\ [][Next]_vars

-------------------------------------------------------------------------------
(* Properties.                                                             *)

TypeOK ==
    /\ wanted \in Config
    /\ capacity \in Capacities
    /\ mapped \subseteq Servers
    /\ bound \subseteq Servers
    /\ yml \in [Servers -> Config \cup {None}]
    /\ saved \in [Servers -> Config \cup {None}]
    /\ running \in [Servers -> Config \cup {None}]
    /\ ram \in [Servers -> Sizes \cup {0}]
    /\ formatted \in {"no", "yes"}
    /\ pool \in Capacities \cup {0}
    /\ container \in {"no", "yes"}
    /\ pc \in {"idle", "discover", "guard", "render", "stop", "remount", "prepare", "start",
               "format", "create", "verify", "container", "preserve", "destroy", "halt"}
    /\ changed \subseteq Servers
    /\ last \in {"none", "running", "edited", "failed", "refused", "ok", "cleaned"}
    /\ emptied \in {"no", "yes"}

\* NVMe devices are only bound to vfio, where they can no longer be discovered, on a
\* server whose mapping has been persisted, wherever a run stops.
MappedBeforeBound == bound \subseteq mapped

\* A run that succeeds leaves what the inventory asks for, whatever earlier runs left
\* behind: the pool has the requested capacity, and every server has its file and
\* its fingerprint, and is running.
ReadyAfterSuccess ==
    last = "ok" =>
        /\ pool = capacity /\ container = "yes"
        /\ \A s \in Servers : yml[s] = wanted /\ saved[s] = wanted /\ running[s] # None

\* Once fingerprints exist, the topology of the engines never changes.
TopologyKept ==
    [][\A s \in Servers : saved[s] # None => yml'[s].topology = yml[s].topology]_vars

\* "Stop server before rebinding when configuration changes": as long as no run has
\* failed or been killed, a run that succeeds leaves the servers running with the
\* configuration on disk, on RAM disks of its size.
ConfigInForce ==
    last = "ok" /\ faults = 0 =>
        \A s \in Servers : running[s] = yml[s] /\ ram[s] = yml[s].scm

\* No server ever has a RAM disk that leaves less than 40 percent of its RAM, whatever
\* runs fail between rendering a configuration and using it.
RAMLeft == \A s \in Servers : LeavesRAM(ram[s], s)

\* "Run phase5-clean while servers are running, then rerun phase5": as long as no
\* run has failed or been killed, the run that follows a makeclean which deleted the
\* pool is refused only for a pool that leaves no headroom on the RAM disks, RAM disks
\* that leave too little RAM on a server, or a change of topology.
CleanRecovers ==
    last = "refused" /\ emptied = "yes" /\ faults = 0 =>
        \/ ~Headroom(capacity, wanted.scm)
        \/ \E s \in Servers : ~LeavesRAM(wanted.scm, s)
        \/ \E s \in Servers : saved[s] # None /\ yml[s].topology # wanted.topology
===============================================================================

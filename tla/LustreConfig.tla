----------------------------- MODULE LustreConfig -----------------------------
(***************************************************************************)
(* Phase 5 of a Lustre cluster: configure_lustre_all.yaml and its task     *)
(* files make a ZFS pool on every metadata and object storage server,      *)
(* format a Lustre target in it and mount the targets and clients.         *)
(*                                                                         *)
(* The tasks tagged makeclean, which unmount everything and destroy the    *)
(* pools, also run at the head of a normal run, so that each run starts    *)
(* afresh.  What they unmount and destroy is named after a server's place  *)
(* in the inventory, which can be edited between two runs: servers and     *)
(* clients come, go and change places.  A run acts on the hosts that the   *)
(* inventory names at the time; what it no longer names keeps its mounts   *)
(* and pools.                                                              *)
(*                                                                         *)
(* The play is any_errors_fatal under the linear strategy: a task that     *)
(* fails on some hosts is finished on the others, and ends the run.  ZFS   *)
(* and Lustre are external.                                                *)
(***************************************************************************)
EXTENDS Integers, Sequences, FiniteSets

CONSTANTS
    Host,           \* servers and clients, numbered in the order that sort gives their names
    Inventories,    \* the inventories the user may write
    MaxEdits,       \* bound on the edits of the inventory
    MaxFaults,      \* bound on failed tasks and kills
    MaxCleans       \* bound on the makeclean runs

Members(list) == {list[k] : k \in DOMAIN list}

ASSUME LustreAssumption ==
    /\ Host \subseteq Nat \ {0}
    /\ \A i \in Inventories :
        /\ i \in [mds : Seq(Host), oss : Seq(Host), clients : SUBSET Host,
                  failover : {"yes", "no"}]
        /\ i.mds # <<>>
        /\ Members(i.mds) \cap Members(i.oss) = {}
        /\ (Members(i.mds) \cup Members(i.oss)) \cap i.clients = {}
        /\ \A g \in {"mds", "oss"} : \A j, k \in DOMAIN i[g] : i[g][j] = i[g][k] => j = k
    /\ MaxEdits \in Nat
    /\ MaxFaults \in Nat
    /\ MaxCleans \in Nat

\* No pool or target.  Targets are named after a group and an index in it.
None == <<"none", 0>>
TargetName == {"mds", "oss"} \X Nat

VARIABLES
    inv,        \* the inventory
    data,       \* data[h]: the target pool on the disks of server h
    nids,       \* nids[h]: the MGS hosts h's target was formatted with, {} if it was not
    partner,    \* partner[h]: the fail node it was formatted with, 0 if none
    mgt,        \* mgt[h]: MGS pool of h: "none", "pool", "made" (formatted) or "mounted"
    tgt,        \* tgt[h]: the target mounted on h
    mounted,    \* hosts with the file system mounted
    pc,         \* the next task of the run, or "idle"
    goal,       \* what the run is for, "configured" or "cleaned"
    last,       \* how the last run ended
    edits, faults, cleans

pools == <<data, nids, partner, mgt>>
mounts == <<tgt, mounted>>
bounds == <<edits, faults, cleans>>
vars == <<inv, pools, mounts, pc, goal, last, bounds>>

-------------------------------------------------------------------------------
(* configure_variables.yaml.                                               *)

Servers == Members(inv.mds) \cup Members(inv.oss)
Clients == inv.clients
Group(h) == IF h \in Members(inv.mds) THEN "mds" ELSE "oss"

\* group_index, the place of the server in its group, as written in the inventory.
Index(h) == (CHOOSE k \in DOMAIN inv[Group(h)] : inv[Group(h)][k] = h) - 1
Name(h) == <<Group(h), Index(h)>>

\* sorted_mds[k] and sorted_oss[k], which are sorted by name.
Sorted(g, k) ==
    CHOOSE h \in Members(inv[g]) : Cardinality({x \in Members(inv[g]) : x < h}) = k

\* The MGS is on the first metadata server.
MGSHost == inv.mds[1]
MGSNodes == IF inv.failover = "yes" THEN Members(inv.mds) ELSE {Sorted("mds", 0)}

FailNode(h) ==
    Sorted(Group(h), IF Index(h) % 2 = 0 THEN Index(h) + 1 ELSE Index(h) - 1)

\* Failover requires an even number of MDS and OSS nodes.
Paired == inv.failover = "yes" => Len(inv.mds) % 2 = 0 /\ Len(inv.oss) % 2 = 0

-------------------------------------------------------------------------------
Init ==
    /\ inv \in Inventories
    /\ data = [h \in Host |-> None]
    /\ nids = [h \in Host |-> {}]
    /\ partner = [h \in Host |-> 0]
    /\ mgt = [h \in Host |-> "none"]
    /\ tgt = [h \in Host |-> None]
    /\ mounted = {}
    /\ pc = "idle"
    /\ goal = "configured"
    /\ last = "none"
    /\ edits = 0
    /\ faults = 0
    /\ cleans = 0

\* The inventory is edited and bootstrapped again, between two runs.
Edit ==
    /\ pc = "idle"
    /\ edits < MaxEdits
    /\ edits' = edits + 1
    /\ inv' \in Inventories
    /\ last' = "edited"
    /\ UNCHANGED <<pools, mounts, pc, goal, faults, cleans>>

Start(aim) ==
    /\ pc = "idle"
    /\ pc' = "variables"
    /\ goal' = aim
    /\ last' = "running"
    /\ UNCHANGED <<inv, pools, mounts, edits, faults>>

StartConfigure == Start("configured") /\ UNCHANGED cleans
StartClean == Start("cleaned") /\ cleans < MaxCleans /\ cleans' = cleans + 1

Fault == faults < MaxFaults /\ faults' = faults + 1

\* A task for the hosts in all, done on those in S; it cannot succeed on those that
\* are not able.  Unless it has been done on all of them the run ends.
Task(here, S, able, all, next) ==
    /\ pc = here
    /\ S \subseteq all \cap able
    /\ IF S = all
       THEN /\ pc' = next
            /\ last' = IF next = "idle" THEN goal ELSE last
            /\ UNCHANGED faults
       ELSE /\ pc' = "idle"
            /\ last' = "failed"
            /\ IF S = all \cap able THEN UNCHANGED faults ELSE Fault
    /\ UNCHANGED <<inv, goal, edits, cleans>>

\* Mutant: the unmounting of the clients is skipped.
ServersOnly ==
    \E S \in SUBSET {0} :
        /\ Task("variables", S, IF Paired THEN {0} ELSE {}, {0}, "unmount_targets")
        /\ UNCHANGED <<pools, mounts>>

\* The facts are set, which a clean does as well; then the preconditions are checked
\* and the modules and LNet set up.  Without a fault this only fails on odd groups.
Prepare ==
    \E S \in SUBSET {0} :
        /\ Task("variables", S, IF Paired THEN {0} ELSE {}, {0}, "unmount_clients")
        /\ UNCHANGED <<pools, mounts>>

-------------------------------------------------------------------------------
(* The tasks tagged makeclean.                                             *)

\* The task runs on the clients of the inventory: one that was dropped from it keeps
\* the file system mounted.
UnmountClients(S) ==
    /\ Task("unmount_clients", S, Clients, Clients, "unmount_targets")
    /\ mounted' = mounted \ S
    /\ UNCHANGED <<pools, tgt>>

\* Mutant: the metadata servers are forgotten.
UnmountOSS(S) ==
    /\ Task("unmount_targets", S, Members(inv.oss), Members(inv.oss), "unmount_mgt")
    /\ tgt' = [h \in Host |-> IF h \in S /\ tgt[h] = Name(h) THEN None ELSE tgt[h]]
    /\ UNCHANGED <<pools, mounted>>

\* Only the mount point of the target's present name is looked at.
UnmountTargets(S) ==
    /\ Task("unmount_targets", S, Servers, Servers, "unmount_mgt")
    /\ tgt' = [h \in Host |-> IF h \in S /\ tgt[h] = Name(h) THEN None ELSE tgt[h]]
    /\ UNCHANGED <<pools, mounted>>

UnmountMGT(S) ==
    /\ Task("unmount_mgt", S, {MGSHost}, {MGSHost}, "destroy")
    /\ mgt' = [h \in Host |-> IF h \in S /\ mgt[h] = "mounted" THEN "made" ELSE mgt[h]]
    /\ UNCHANGED <<data, nids, partner, mounts>>

\* Mutant: the pool of the MGS is kept.
KeepMGT(S) ==
    /\ Task("destroy", S, Servers, Servers, IF goal = "cleaned" THEN "idle" ELSE "create")
    /\ data' = [h \in Host |-> IF h \in S /\ data[h] = Name(h) THEN None ELSE data[h]]
    /\ nids' = [h \in Host |-> IF data'[h] = None THEN {} ELSE nids[h]]
    /\ partner' = [h \in Host |-> IF data'[h] = None THEN 0 ELSE partner[h]]
    /\ UNCHANGED <<mgt, mounts>>

\* Pools of the present names are destroyed if they exist: S are the servers whose
\* target pool, and 0 stands for the MGS pool.  Here a clean ends.
Destroy(S) ==
    /\ Task("destroy", S, Servers \cup {0}, Servers \cup {0},
            IF goal = "cleaned" THEN "idle" ELSE "create")
    /\ data' = [h \in Host |-> IF h \in S /\ data[h] = Name(h) THEN None ELSE data[h]]
    /\ nids' = [h \in Host |-> IF data'[h] = None THEN {} ELSE nids[h]]
    /\ partner' = [h \in Host |-> IF data'[h] = None THEN 0 ELSE partner[h]]
    /\ mgt' = IF 0 \in S THEN [mgt EXCEPT ![MGSHost] = "none"] ELSE mgt
    /\ UNCHANGED mounts

-------------------------------------------------------------------------------
(* Configuration.                                                          *)

\* Mutant: a pool that exists is taken as it is.
TakePools(S) ==
    /\ Task("create", S, Servers, Servers, "create_mgt")
    /\ data' = [h \in Host |-> IF h \in S /\ data[h] = None THEN Name(h) ELSE data[h]]
    /\ UNCHANGED <<nids, partner, mgt, mounts>>

\* zpool create fails on disks that a pool uses, of whatever name.
CreatePools(S) ==
    /\ Task("create", S, {h \in Host : data[h] = None}, Servers, "create_mgt")
    /\ data' = [h \in Host |-> IF h \in S THEN Name(h) ELSE data[h]]
    /\ UNCHANGED <<nids, partner, mgt, mounts>>

\* The pool of the MGS is created and formatted; a failure can come in between.
CreateMGT(S) ==
    /\ Task("create_mgt", S, {h \in Host : mgt[h] = "none"}, {MGSHost}, "format")
    /\ \/ S # {} /\ mgt' = [mgt EXCEPT ![MGSHost] = "made"]
       \/ S = {} /\ UNCHANGED mgt
       \/ S = {} /\ mgt[MGSHost] = "none" /\ mgt' = [mgt EXCEPT ![MGSHost] = "pool"]
    /\ UNCHANGED <<data, nids, partner, mounts>>

Format(S) ==
    /\ Task("format", S, Servers, Servers, "mount_mgt")
    /\ nids' = [h \in Host |-> IF h \in S THEN MGSNodes ELSE nids[h]]
    /\ partner' = [h \in Host |->
            IF h \in S THEN IF inv.failover = "yes" THEN FailNode(h) ELSE 0
            ELSE partner[h]]
    /\ UNCHANGED <<data, mgt, mounts>>

MountMGT(S) ==
    /\ Task("mount_mgt", S, {h \in Host : mgt[h] = "made"}, {MGSHost}, "mount_targets")
    /\ mgt' = [h \in Host |-> IF h \in S THEN "mounted" ELSE mgt[h]]
    /\ UNCHANGED <<data, nids, partner, mounts>>

\* A target registers with the MGS when it is mounted.
Serves(nodes) == \E g \in nodes : mgt[g] = "mounted"

MountTargets(S) ==
    /\ Task("mount_targets", S, {h \in Host : Serves(nids[h])}, Servers, "mount_clients")
    /\ tgt' = [h \in Host |-> IF h \in S THEN Name(h) ELSE tgt[h]]
    /\ UNCHANGED <<pools, mounted>>

MountClients(S) ==
    /\ Task("mount_clients", S, IF Serves(MGSNodes) THEN Clients ELSE {}, Clients, "idle")
    /\ mounted' = mounted \cup S
    /\ UNCHANGED <<pools, tgt>>

-------------------------------------------------------------------------------
Progress ==
    \/ Prepare
    \/ \E S \in SUBSET (Servers \cup {0}) :
        \/ UnmountTargets(S) \/ UnmountMGT(S) \/ Destroy(S)
        \/ CreatePools(S) \/ CreateMGT(S) \/ Format(S) \/ MountMGT(S) \/ MountTargets(S)
    \/ \E S \in SUBSET Clients : UnmountClients(S) \/ MountClients(S)

Next == Edit \/ StartConfigure \/ StartClean \/ Progress

Spec == Init /\ [][Next]_vars

\* Every task ends, and the user runs make again until phase 5 is completed.
FairSpec ==
    /\ Spec
    /\ WF_vars(Progress)
    /\ WF_vars(last # "configured" /\ StartConfigure)

-------------------------------------------------------------------------------
(* Properties.                                                             *)

TypeOK ==
    /\ inv \in Inventories
    /\ data \in [Host -> TargetName \cup {None}]
    /\ nids \in [Host -> SUBSET Host]
    /\ partner \in [Host -> Host \cup {0}]
    /\ mgt \in [Host -> {"none", "pool", "made", "mounted"}]
    /\ tgt \in [Host -> TargetName \cup {None}]
    /\ \A h \in Host : tgt[h] \in {None, data[h]}
    /\ mounted \subseteq Host
    /\ pc \in {"idle", "variables", "unmount_clients", "unmount_targets", "unmount_mgt", "destroy",
               "create", "create_mgt", "format", "mount_mgt", "mount_targets", "mount_clients"}
    /\ goal \in {"configured", "cleaned"}
    /\ last \in {"none", "running", "failed", "configured", "cleaned", "edited"}

\* Whatever earlier runs, cleans and edits have left behind, a successful run leaves
\* each server with its own target, mounted and registered with the running MGS, and
\* every client of the inventory with the file system.
ReadyAfterSuccess ==
    last = "configured" =>
        /\ \A h \in Servers : data[h] = Name(h) /\ tgt[h] = Name(h) /\ Serves(nids[h])
        /\ mgt[MGSHost] = "mounted"
        /\ Clients \subseteq mounted

\* A target is never mounted on a server while another server of the inventory has a
\* target of that name mounted, even when servers have changed places, were dropped and
\* taken back, and runs in between have failed.
MountsUnique ==
    [][\A h \in Host : tgt'[h] \notin {None, tgt[h]} =>
            \A g \in Servers \ {h} : tgt'[g] # tgt'[h]]_vars

\* No target pool is destroyed while a client of the inventory has the file system
\* mounted, whether it has long been a client, is new, or was dropped with the file
\* system mounted and taken back.  (A host that is no longer a client is not unmounted,
\* and pools are destroyed under it.)
ClientsFirst ==
    [][\A h \in Host : data[h] # None /\ data'[h] = None => mounted \cap Clients = {}]_vars

\* What is on the servers bears the names they have in the inventory, which can be
\* configured at all, and no client has kept a pool from when it was a server.
Settled ==
    /\ \A h \in Servers : data[h] \in {None, Name(h)}
    /\ \A h \in Clients : data[h] = None /\ mgt[h] = "none"
    /\ Paired
    /\ inv.failover = "no" => MGSHost = Sorted("mds", 0)

\* However runs and cleans have failed, once tasks stop failing running make again
\* completes phase 5, unless hosts with pools have changed places or become clients.
Converges == <>[]Settled => []<>(last = "configured")
===============================================================================

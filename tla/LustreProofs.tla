----------------------------- MODULE LustreProofs -----------------------------
(* Theorems about LustreConfig, for any servers, inventories, edits and faults. *)
EXTENDS LustreConfig, FiniteSetTheorems, TLAPS

\* The tasks of a run between two of its steps.
Unmounting == {"unmount_mgt", "destroy", "create"}
Created == {"create_mgt", "format", "mount_mgt", "mount_targets", "mount_clients"}

\* The types that matter; what a target was formatted with is any value.
Types ==
    /\ inv \in Inventories
    /\ data \in [Host -> TargetName \cup {None}]
    /\ DOMAIN nids = Host
    /\ mgt \in [Host -> {"none", "pool", "made", "mounted"}]
    /\ tgt \in [Host -> TargetName \cup {None}]
    /\ mounted \subseteq Host
    /\ pc \in {"idle", "variables", "unmount_clients", "unmount_targets"}
              \cup Unmounting \cup Created

\* A server has only the target of its own pool mounted.
Held == \A h \in Host : tgt[h] \in {None, data[h]}

\* What the finished tasks of a run have established.
Unmounted ==
    /\ pc \in {"unmount_targets"} \cup Unmounting \cup Created => mounted \cap Clients = {}
    /\ pc \in Unmounting => \A h \in Servers : tgt[h] # Name(h)

Named == pc \in Created => \A h \in Servers : data[h] = Name(h)

Registered ==
    /\ pc \in {"mount_targets", "mount_clients"} => mgt[MGSHost] = "mounted"
    /\ pc = "mount_clients" => \A h \in Servers : tgt[h] = Name(h) /\ Serves(nids[h])

Ready == last = "configured" => pc = "idle" /\ ReadyAfterSuccess

IInv == Types /\ Held /\ Unmounted /\ Named /\ Registered /\ Ready

-------------------------------------------------------------------------------
(* Names.                                                                  *)

\* The servers and clients of an inventory are hosts, as is the first metadata server.
LEMMA ServersAreHosts ==
    ASSUME inv \in Inventories
    PROVE  Servers \subseteq Host /\ MGSHost \in Host /\ Clients \subseteq Host
  <1>1. /\ inv.mds \in Seq(Host) /\ inv.oss \in Seq(Host) /\ inv.mds # <<>>
        /\ inv.clients \in SUBSET Host
    BY LustreAssumption
  <1> QED BY <1>1 DEF Servers, Members, MGSHost, Clients

\* Names are those of targets, and no two servers of an inventory have the same.
LEMMA NameType ==
    ASSUME inv \in Inventories, NEW h \in Servers
    PROVE  Name(h) \in TargetName /\ Name(h) # None
  <1> DEFINE g == Group(h)
  <1>1. g \in {"mds", "oss"} /\ h \in Members(inv[g])
    <2>1. inv \in [mds : Seq(Host), oss : Seq(Host), clients : SUBSET Host, failover : {"yes", "no"}]
      BY LustreAssumption
    <2> QED BY <2>1 DEF Group, Servers
  <1>2. inv[g] \in Seq(Host)
    BY <1>1, LustreAssumption
  <1> DEFINE s == inv[g]
             k == CHOOSE x \in DOMAIN s : s[x] = h
  <1>3. \E x \in DOMAIN s : s[x] = h
    BY <1>1 DEF Members
  <1>4. k \in 1..Len(s)
    BY <1>2, <1>3
  <1>5. k - 1 \in Nat
    <2> HIDE DEF k
    <2> QED BY <1>2, <1>4
  <1>6. Name(h) = <<g, k - 1>>
    BY DEF Name, Index
  <1> HIDE DEF g, k
  <1> QED BY <1>1, <1>5, <1>6 DEF TargetName, None

LEMMA NameInjective ==
    ASSUME inv \in Inventories, NEW h \in Servers, NEW j \in Servers, Name(h) = Name(j)
    PROVE  h = j
  <1>1. \A x \in Servers : /\ Group(x) \in {"mds", "oss"}
                           /\ x \in Members(inv[Group(x)])
                           /\ inv[Group(x)] \in Seq(Host)
    <2>1. inv \in [mds : Seq(Host), oss : Seq(Host), clients : SUBSET Host, failover : {"yes", "no"}]
      BY LustreAssumption
    <2> QED BY <2>1 DEF Group, Servers
  <1>2. ASSUME NEW x \in Servers PROVE Index(x) \in Int /\ inv[Group(x)][Index(x) + 1] = x
    <2> DEFINE s == inv[Group(x)]
               k == CHOOSE y \in DOMAIN s : s[y] = x
    <2>1. \E y \in DOMAIN s : s[y] = x
      BY <1>1 DEF Members
    <2>2. k \in DOMAIN s /\ s[k] = x
      BY <2>1
    <2>3. k \in 1..Len(s) /\ Len(s) \in Nat
      BY <1>1, <2>2
    <2>4. Index(x) = k - 1
      BY DEF Index
    <2> HIDE DEF k, s
    <2>5. Index(x) \in Int /\ Index(x) + 1 = k
      BY <2>3, <2>4
    <2> QED BY <2>2, <2>5 DEF s
  <1>3. Group(h) = Group(j) /\ Index(h) = Index(j)
    BY DEF Name
  <1> QED BY <1>2, <1>3

\* Between two edits the names stay.
LEMMA SameNames ==
    ASSUME UNCHANGED inv
    PROVE  /\ Servers' = Servers /\ MGSHost' = MGSHost /\ Clients' = Clients
           /\ \A h \in Host : Name(h)' = Name(h)
  BY DEF Clients, Servers, MGSHost, Name, Group, Index, Members

-------------------------------------------------------------------------------
(* The steps.                                                              *)

\* Where a task leads, and that a run which fails or goes on is not a success.
LEMMA TaskEnds ==
    ASSUME NEW here, NEW S, NEW able, NEW all, NEW next, Task(here, S, able, all, next)
    PROVE  /\ pc = here /\ inv' = inv /\ S \subseteq all /\ S \subseteq able
           /\ \/ pc' = next /\ S = all
              \/ pc' = "idle" /\ last' = "failed"
           /\ next # "idle" => last' \in {last, "failed"}
  BY DEF Task

LEMMA InitInv == Init => IInv
  BY DEF Init, IInv, Types, Held, Unmounted, Named, Registered, Ready, Unmounting, Created

\* Between two runs nothing is established.
LEMMA EditInv ==
    ASSUME IInv, Edit
    PROVE  IInv'
  BY DEF IInv, Edit, Types, Held, Unmounted, Named, Registered, Ready, Unmounting, Created,
         pools, mounts

LEMMA StartInv ==
    ASSUME IInv, NEW aim \in {"configured", "cleaned"}, Start(aim)
    PROVE  IInv'
  BY DEF IInv, Start, Types, Held, Unmounted, Named, Registered, Ready, Unmounting, Created,
         pools, mounts

LEMMA PrepareInv ==
    ASSUME IInv, Prepare
    PROVE  IInv'
  <1>1. PICK S \in SUBSET {0} :
          Task("variables", S, IF Paired THEN {0} ELSE {}, {0}, "unmount_clients")
    BY DEF Prepare
  <1>2. /\ inv' = inv /\ pc = "variables" /\ pc' \in {"unmount_clients", "idle"}
        /\ last' \in {last, "failed"} /\ UNCHANGED <<pools, mounts>>
    BY <1>1, TaskEnds DEF Prepare
  <1> QED BY <1>2 DEF IInv, Types, Held, Unmounted, Named, Registered, Ready, Unmounting,
                      Created, pools, mounts

\* A run goes on when the file system is unmounted everywhere.
LEMMA UnmountClientsInv ==
    ASSUME IInv, NEW S, UnmountClients(S)
    PROVE  IInv'
  <1>1. /\ inv' = inv /\ pc = "unmount_clients"
        /\ \/ pc' = "unmount_targets" /\ mounted' \cap Clients = {}
           \/ pc' = "idle"
        /\ last' \in {last, "failed"} /\ UNCHANGED <<pools, tgt>> /\ mounted' \subseteq Host
    <2>1. /\ inv' = inv /\ pc = "unmount_clients"
          /\ \/ pc' = "unmount_targets" /\ S = Clients
             \/ pc' = "idle"
          /\ last' \in {last, "failed"}
      BY TaskEnds DEF UnmountClients
    <2> QED BY <2>1 DEF UnmountClients, IInv, Types
  <1> QED BY <1>1 DEF IInv, Types, Held, Unmounted, Clients, Named, Registered, Ready, Unmounting,
                      Created, pools

\* No server has a target of its present name mounted any more.
LEMMA UnmountTargetsInv ==
    ASSUME IInv, NEW S, UnmountTargets(S)
    PROVE  IInv'
  <1>1. /\ inv' = inv /\ pc = "unmount_targets"
        /\ \/ pc' = "unmount_mgt" /\ S = Servers
           \/ pc' = "idle"
        /\ last' \in {last, "failed"} /\ UNCHANGED <<pools, mounted>>
        /\ tgt' = [h \in Host |-> IF h \in S /\ tgt[h] = Name(h) THEN None ELSE tgt[h]]
    BY TaskEnds DEF UnmountTargets
  <1>2. /\ Servers \subseteq Host
        /\ Servers' = Servers /\ \A h \in Host : Name(h)' = Name(h)
        /\ \A h \in Servers : Name(h) # None
    BY <1>1, ServersAreHosts, SameNames, NameType DEF IInv, Types
  <1>3. Types'
    BY <1>1 DEF IInv, Types, pools, Unmounting
  <1>4. Held' /\ Named' /\ Registered' /\ Ready'
    BY <1>1 DEF IInv, Types, Held, Named, Registered, Ready, Created, pools
  <1>5. Unmounted'
    <2>1. (mounted \cap Clients = {})' /\ pc' \in {"unmount_mgt", "idle"}
      BY <1>1 DEF IInv, Unmounted, Clients
    <2>2. pc' = "unmount_mgt" => \A h \in Servers : tgt'[h] # Name(h)
      BY <1>1, <1>2
    <2> QED BY <1>2, <2>1, <2>2 DEF Unmounted, Unmounting, Created
  <1> QED BY <1>3, <1>4, <1>5 DEF IInv

LEMMA UnmountMGTInv ==
    ASSUME IInv, NEW S, UnmountMGT(S)
    PROVE  IInv'
  <1>1. /\ inv' = inv /\ pc = "unmount_mgt" /\ pc' \in {"destroy", "idle"}
        /\ last' \in {last, "failed"} /\ UNCHANGED <<data, nids, partner, tgt, mounted>>
        /\ mgt' = [h \in Host |-> IF h \in S /\ mgt[h] = "mounted" THEN "made" ELSE mgt[h]]
    BY TaskEnds DEF UnmountMGT, mounts
  <1>2. /\ Servers \subseteq Host
        /\ Servers' = Servers /\ \A h \in Host : Name(h)' = Name(h)
    BY <1>1, ServersAreHosts, SameNames DEF IInv, Types
  <1>3. Types' /\ Held' /\ Named' /\ Registered' /\ Ready'
    BY <1>1 DEF IInv, Types, Held, Named, Registered, Ready, Unmounting, Created
  <1>4. Unmounted'
    BY <1>1, <1>2 DEF IInv, Unmounted, Clients, Unmounting, Created
  <1> QED BY <1>3, <1>4 DEF IInv

\* The pools that are destroyed are not mounted.
LEMMA DestroyInv ==
    ASSUME IInv, NEW S \in SUBSET (Servers \cup {0}), Destroy(S)
    PROVE  IInv'
  <1>1. /\ inv' = inv /\ pc = "destroy" /\ pc' \in {"create", "idle"}
        /\ UNCHANGED <<tgt, mounted>>
        /\ data' = [h \in Host |-> IF h \in S /\ data[h] = Name(h) THEN None ELSE data[h]]
        /\ nids' = [h \in Host |-> IF data'[h] = None THEN {} ELSE nids[h]]
        /\ mgt' = IF 0 \in S THEN [mgt EXCEPT ![MGSHost] = "none"] ELSE mgt
    BY TaskEnds DEF Destroy, mounts
  <1>2. last' \in {last, "failed", "cleaned"}
    BY DEF Destroy, Task
  <1>3. /\ Servers \subseteq Host /\ 0 \notin Host
        /\ Servers' = Servers /\ \A h \in Host : Name(h)' = Name(h)
    BY <1>1, ServersAreHosts, SameNames, LustreAssumption DEF IInv, Types
  <1>4. \A h \in Host : h \in S => h \in Servers /\ tgt[h] # Name(h)
    BY <1>1, <1>3 DEF IInv, Unmounted, Unmounting
  <1>5. Types'
    BY <1>1 DEF IInv, Types, Unmounting
  <1>6. Held'
    BY <1>1, <1>4 DEF IInv, Held
  <1>7. Unmounted'
    BY <1>1, <1>3 DEF IInv, Unmounted, Clients, Unmounting, Created
  <1>8. Named' /\ Registered' /\ Ready'
    BY <1>1, <1>2 DEF IInv, Named, Registered, Ready, Created
  <1> QED BY <1>5, <1>6, <1>7, <1>8 DEF IInv

\* A run that goes on has made the pool of every server under its present name.
LEMMA CreatePoolsInv ==
    ASSUME IInv, NEW S, CreatePools(S)
    PROVE  IInv'
  <1>1. /\ inv' = inv /\ pc = "create" /\ S \subseteq Servers
        /\ \/ pc' = "create_mgt" /\ S = Servers
           \/ pc' = "idle"
        /\ last' \in {last, "failed"} /\ UNCHANGED <<nids, partner, mgt, tgt, mounted>>
        /\ \A h \in S : data[h] = None
        /\ data' = [h \in Host |-> IF h \in S THEN Name(h) ELSE data[h]]
    BY TaskEnds DEF CreatePools, mounts
  <1>2. /\ Servers \subseteq Host
        /\ Servers' = Servers /\ \A h \in Host : Name(h)' = Name(h)
        /\ \A h \in Servers : Name(h) \in TargetName
    BY <1>1, ServersAreHosts, SameNames, NameType DEF IInv, Types
  <1>3. Types'
    BY <1>1, <1>2 DEF IInv, Types, Created
  <1>4. Held'
    BY <1>1 DEF IInv, Held
  <1>5. Unmounted'
    BY <1>1 DEF IInv, Unmounted, Clients, Unmounting, Created
  <1>6. Named'
    BY <1>1, <1>2 DEF Named, Created
  <1>7. Registered' /\ Ready'
    BY <1>1 DEF IInv, Registered, Ready
  <1> QED BY <1>3, <1>4, <1>5, <1>6, <1>7 DEF IInv

LEMMA CreateMGTInv ==
    ASSUME IInv, NEW S, CreateMGT(S)
    PROVE  IInv'
  <1>1. /\ inv' = inv /\ pc = "create_mgt" /\ pc' \in {"format", "idle"}
        /\ last' \in {last, "failed"} /\ UNCHANGED <<data, nids, partner, tgt, mounted>>
        /\ \E v \in {"made", "pool", mgt[MGSHost]} : mgt' \in {mgt, [mgt EXCEPT ![MGSHost] = v]}
    BY TaskEnds DEF CreateMGT, mounts
  <1>2. /\ Servers \subseteq Host
        /\ Servers' = Servers /\ \A h \in Host : Name(h)' = Name(h)
    BY <1>1, ServersAreHosts, SameNames DEF IInv, Types
  <1>3. Types'
    BY <1>1 DEF IInv, Types, Created
  <1>4. Held' /\ Unmounted' /\ Registered' /\ Ready'
    BY <1>1 DEF IInv, Held, Unmounted, Clients, Registered, Ready, Unmounting, Created
  <1>5. Named'
    BY <1>1, <1>2 DEF IInv, Named, Created
  <1> QED BY <1>3, <1>4, <1>5 DEF IInv

LEMMA FormatInv ==
    ASSUME IInv, NEW S, Format(S)
    PROVE  IInv'
  <1>1. /\ inv' = inv /\ pc = "format" /\ pc' \in {"mount_mgt", "idle"}
        /\ last' \in {last, "failed"} /\ UNCHANGED <<data, mgt, tgt, mounted>>
        /\ DOMAIN nids' = Host
    BY TaskEnds DEF Format, mounts
  <1>2. /\ Servers \subseteq Host
        /\ Servers' = Servers /\ \A h \in Host : Name(h)' = Name(h)
    BY <1>1, ServersAreHosts, SameNames DEF IInv, Types
  <1>3. Types'
    BY <1>1 DEF IInv, Types, Created
  <1>4. Held' /\ Unmounted' /\ Registered' /\ Ready'
    BY <1>1 DEF IInv, Held, Unmounted, Clients, Registered, Ready, Unmounting, Created
  <1>5. Named'
    BY <1>1, <1>2 DEF IInv, Named, Created
  <1> QED BY <1>3, <1>4, <1>5 DEF IInv

\* The targets are mounted while the MGS runs.
LEMMA MountMGTInv ==
    ASSUME IInv, NEW S, MountMGT(S)
    PROVE  IInv'
  <1>1. /\ inv' = inv /\ pc = "mount_mgt"
        /\ \/ pc' = "mount_targets" /\ S = {MGSHost}
           \/ pc' = "idle"
        /\ last' \in {last, "failed"} /\ UNCHANGED <<data, nids, partner, tgt, mounted>>
        /\ mgt' = [h \in Host |-> IF h \in S THEN "mounted" ELSE mgt[h]]
    BY TaskEnds DEF MountMGT, mounts
  <1>2. /\ Servers \subseteq Host /\ MGSHost \in Host
        /\ Servers' = Servers /\ MGSHost' = MGSHost /\ \A h \in Host : Name(h)' = Name(h)
    BY <1>1, ServersAreHosts, SameNames DEF IInv, Types
  <1>3. Types'
    BY <1>1 DEF IInv, Types, Created
  <1>4. Held' /\ Unmounted' /\ Ready'
    BY <1>1 DEF IInv, Held, Unmounted, Clients, Ready, Unmounting, Created
  <1>5. Named'
    BY <1>1, <1>2 DEF IInv, Named, Created
  <1>6. Registered'
    BY <1>1, <1>2 DEF Registered
  <1> QED BY <1>3, <1>4, <1>5, <1>6 DEF IInv

\* Every target that is mounted is that of the server's pool, and registered.
LEMMA MountTargetsInv ==
    ASSUME IInv, NEW S, MountTargets(S)
    PROVE  IInv'
  <1>1. /\ inv' = inv /\ pc = "mount_targets" /\ S \subseteq Servers
        /\ \/ pc' = "mount_clients" /\ S = Servers
           \/ pc' = "idle"
        /\ last' \in {last, "failed"} /\ UNCHANGED <<data, nids, partner, mgt, mounted>>
        /\ \A h \in S : Serves(nids[h])
        /\ tgt' = [h \in Host |-> IF h \in S THEN Name(h) ELSE tgt[h]]
    BY TaskEnds DEF MountTargets, pools
  <1>2. /\ Servers \subseteq Host
        /\ Servers' = Servers /\ MGSHost' = MGSHost /\ \A h \in Host : Name(h)' = Name(h)
        /\ \A h \in Servers : Name(h) \in TargetName
    BY <1>1, ServersAreHosts, SameNames, NameType DEF IInv, Types
  <1>3. \A h \in Servers : data[h] = Name(h)
    BY <1>1 DEF IInv, Named, Created
  <1>4. Types'
    BY <1>1, <1>2 DEF IInv, Types, Created
  <1>5. Held'
    BY <1>1, <1>3 DEF IInv, Held
  <1>6. Unmounted' /\ Ready'
    BY <1>1 DEF IInv, Unmounted, Clients, Ready, Unmounting, Created
  <1>7. Named'
    BY <1>1, <1>2, <1>3 DEF Named
  <1>8. Registered'
    <2>1. mgt'[MGSHost] = "mounted"
      BY <1>1 DEF IInv, Registered
    <2>2. pc' = "mount_clients" => \A h \in Servers : tgt'[h] = Name(h) /\ Serves(nids[h])
      BY <1>1, <1>2
    <2>3. \A h \in Servers : Serves(nids[h])' = Serves(nids[h])
      BY <1>1 DEF Serves
    <2> QED BY <1>1, <1>2, <2>1, <2>2, <2>3 DEF Registered
  <1> QED BY <1>4, <1>5, <1>6, <1>7, <1>8 DEF IInv

\* The last task: what it adds is the clients.
LEMMA MountClientsInv ==
    ASSUME IInv, NEW S, MountClients(S)
    PROVE  IInv'
  <1>1. /\ inv' = inv /\ pc = "mount_clients" /\ pc' = "idle" /\ S \subseteq Clients
        /\ S = Clients \/ last' = "failed"
        /\ UNCHANGED <<data, nids, partner, mgt, tgt>> /\ mounted' = mounted \cup S
    BY TaskEnds DEF MountClients, pools
  <1>2. /\ Servers \subseteq Host /\ Clients \subseteq Host
        /\ Servers' = Servers /\ MGSHost' = MGSHost /\ \A h \in Host : Name(h)' = Name(h)
    BY <1>1, ServersAreHosts, SameNames DEF IInv, Types
  <1>3. Types' /\ Held' /\ Unmounted' /\ Named' /\ Registered'
    BY <1>1, <1>2 DEF IInv, Types, Held, Unmounted, Named, Registered, Unmounting, Created
  <1>4. Ready'
    <2> SUFFICES ASSUME last' = "configured" PROVE ReadyAfterSuccess'
      BY <1>1 DEF Ready
    <2>1. Clients' \subseteq mounted'
      BY <1>1 DEF Clients
    <2>2. mgt'[MGSHost] = "mounted"
      BY <1>1 DEF IInv, Registered
    <2>3. \A h \in Servers : data'[h] = Name(h) /\ tgt'[h] = Name(h) /\ Serves(nids[h])
      BY <1>1 DEF IInv, Registered, Named, Created
    <2>4. \A h \in Servers : Serves(nids[h])' = Serves(nids[h])
      BY <1>1 DEF Serves
    <2> QED BY <1>2, <2>1, <2>2, <2>3, <2>4 DEF ReadyAfterSuccess
  <1> QED BY <1>3, <1>4 DEF IInv

-------------------------------------------------------------------------------
(* The theorems.                                                           *)

LEMMA NextInv == IInv /\ [Next]_vars => IInv'
  <1> SUFFICES ASSUME IInv, [Next]_vars PROVE IInv'
    OBVIOUS
  <1>1. CASE Edit \/ StartConfigure \/ StartClean
    BY <1>1, EditInv, StartInv DEF StartConfigure, StartClean
  <1>2. CASE Prepare
    BY <1>2, PrepareInv
  <1>3. CASE \E S \in SUBSET (Servers \cup {0}) :
                UnmountTargets(S) \/ UnmountMGT(S) \/ Destroy(S)
    BY <1>3, UnmountTargetsInv, UnmountMGTInv, DestroyInv
  <1>4. CASE \E S \in SUBSET (Servers \cup {0}) :
                \/ CreatePools(S) \/ CreateMGT(S) \/ Format(S) \/ MountMGT(S) \/ MountTargets(S)
    BY <1>4, CreatePoolsInv, CreateMGTInv, FormatInv, MountMGTInv, MountTargetsInv
  <1>5. CASE \E S \in SUBSET Clients : UnmountClients(S) \/ MountClients(S)
    BY <1>5, UnmountClientsInv, MountClientsInv
  <1>6. CASE UNCHANGED vars
    <2>1. UNCHANGED <<inv, data, nids, partner, mgt, tgt, mounted, pc, last>>
      BY <1>6 DEF vars, pools, mounts
    <2>2. /\ Servers \subseteq Host
          /\ Servers' = Servers /\ MGSHost' = MGSHost /\ \A h \in Host : Name(h)' = Name(h)
          /\ \A h \in Servers : Serves(nids[h])' = Serves(nids[h])
      BY <2>1, ServersAreHosts, SameNames DEF IInv, Types, Serves
    <2>3. Types' /\ Held'
      BY <2>1 DEF IInv, Types, Held
    <2>4. Unmounted' /\ Named' /\ Registered'
      BY <2>1, <2>2 DEF IInv, Unmounted, Clients, Named, Registered
    <2>5. Ready'
      BY <2>1, <2>2 DEF IInv, Ready, ReadyAfterSuccess, Clients
    <2> QED BY <2>3, <2>4, <2>5 DEF IInv
  <1> QED BY <1>1, <1>2, <1>3, <1>4, <1>5, <1>6 DEF Next, Progress

\* IInv holds in every reachable state.
LEMMA Always == Spec => []IInv
  <1> QED BY InitInv, NextInv, PTL DEF Spec

\* For any servers and however often the inventory was edited and runs have failed, a
\* successful run leaves every server with its own target, mounted and registered, and
\* every client of the inventory with the file system (configure_lustre.yaml).
THEOREM AlwaysReady == Spec => []ReadyAfterSuccess
  <1>1. IInv => ReadyAfterSuccess
    BY DEF IInv, Ready, ReadyAfterSuccess
  <1> QED BY <1>1, Always, PTL

\* No server mounts a target that another server of the inventory has mounted: zpool
\* create refuses disks in use, so servers that changed places stop the run before
\* (configure_lustre.yaml, the creation of the pools and the mounts).
THEOREM AlwaysMountsUnique == Spec => MountsUnique
  <1> DEFINE Unique == \A h \in Host : tgt'[h] \notin {None, tgt[h]} =>
                         \A g \in Servers \ {h} : tgt'[g] # tgt'[h]
  <1>1. IInv /\ [Next]_vars => [Unique]_vars
    <2> SUFFICES ASSUME IInv, Next PROVE Unique
      OBVIOUS
    <2>1. CASE \E S : MountTargets(S)
      <3>1. PICK S : MountTargets(S)
        BY <2>1
      <3>2. /\ pc = "mount_targets" /\ S \subseteq Servers
            /\ tgt' = [h \in Host |-> IF h \in S THEN Name(h) ELSE tgt[h]]
        BY <3>1, TaskEnds DEF MountTargets
      <3>3. Servers \subseteq Host /\ \A h \in Servers : Name(h) # None
        BY ServersAreHosts, NameType DEF IInv, Types
      <3>4. \A h, g \in Servers : h # g => Name(h) # Name(g)
        BY NameInjective DEF IInv, Types
      <3>5. \A g \in Servers : tgt'[g] \in {None, Name(g)}
        BY <3>2, <3>3 DEF IInv, Held, Named, Created
      <3>6. \A h \in Host : tgt'[h] \notin {None, tgt[h]} => h \in Servers /\ tgt'[h] = Name(h)
        BY <3>2
      <3> QED BY <3>3, <3>4, <3>5, <3>6
    <2>2. CASE \A h \in Host : tgt'[h] \in {None, tgt[h]}
      BY <2>2
    <2>3. (\E S : MountTargets(S)) \/ \A h \in Host : tgt'[h] \in {None, tgt[h]}
      <3>1. CASE \E S \in SUBSET (Servers \cup {0}) : UnmountTargets(S)
        BY <3>1 DEF UnmountTargets
      <3>2. CASE UNCHANGED tgt
        BY <3>2
      <3> QED BY <3>1, <3>2 DEF Next, Progress, Edit, StartConfigure, StartClean, Start,
                   Prepare, UnmountClients, UnmountMGT, Destroy, CreatePools, CreateMGT, Format,
                   MountMGT, MountClients, mounts
    <2> QED BY <2>1, <2>2, <2>3
  <1> QED BY <1>1, Always, PTL DEF Spec, MountsUnique

\* Whatever was edited, no pool is destroyed while a client of the inventory has the file
\* system mounted: the play goes on from the unmounting only when it was done on all the
\* clients that the inventory names now, be they new or taken back (configure_lustre.yaml).
THEOREM AlwaysClientsFirst == Spec => ClientsFirst
  <1> DEFINE First == \A h \in Host : data[h] # None /\ data'[h] = None => mounted \cap Clients = {}
  <1>1. IInv /\ [Next]_vars => [First]_vars
    <2> SUFFICES ASSUME IInv, Next PROVE First
      OBVIOUS
    <2>1. CASE \E S : Destroy(S)
      BY <2>1, TaskEnds DEF Destroy, IInv, Unmounted, Unmounting
    <2>2. CASE \E S : CreatePools(S)
      <3>1. PICK S : CreatePools(S)
        BY <2>2
      <3>2. /\ S \subseteq Servers
            /\ data' = [h \in Host |-> IF h \in S THEN Name(h) ELSE data[h]]
        BY <3>1, TaskEnds DEF CreatePools
      <3>3. \A h \in Servers : Name(h) # None
        BY NameType DEF IInv, Types
      <3> QED BY <3>2, <3>3
    <2>3. CASE UNCHANGED data
      BY <2>3
    <2>4. (\E S : Destroy(S)) \/ (\E S : CreatePools(S)) \/ UNCHANGED data
      BY DEF Next, Progress, Edit, StartConfigure, StartClean, Start, Prepare, UnmountClients,
             UnmountTargets, UnmountMGT, CreateMGT, Format, MountMGT, MountTargets,
             MountClients, pools
    <2> QED BY <2>1, <2>2, <2>3, <2>4
  <1> QED BY <1>1, Always, PTL DEF Spec, ClientsFirst

-------------------------------------------------------------------------------
(* Places in sorted lists, and fail nodes.                                 *)

\* How many members of M come before h.
Before(M, h) == Cardinality({x \in M : x < h})

\* Members of a finite set of numbers have different places in it, from 0 on, and
\* every place is taken.
LEMMA Places ==
    ASSUME NEW M \in SUBSET Nat, IsFiniteSet(M)
    PROVE  /\ \A h \in M : Before(M, h) \in 0 .. Cardinality(M) - 1
           /\ \A h, j \in M : Before(M, h) = Before(M, j) => h = j
           /\ \A k \in 0 .. Cardinality(M) - 1 : \E h \in M : Before(M, h) = k
  <1> DEFINE n == Cardinality(M)
             place == [h \in M |-> Before(M, h)]
  <1>1. n \in Nat
    BY FS_CardinalityType
  <1>2. ASSUME NEW h \in M PROVE Before(M, h) \in 0 .. n - 1
    <2>1. {x \in M : x < h} \in SUBSET (M \ {h})
      OBVIOUS
    <2>2. IsFiniteSet(M \ {h}) /\ Cardinality(M \ {h}) = n - 1
      BY FS_RemoveElement
    <2>3. IsFiniteSet({x \in M : x < h}) /\ Before(M, h) <= n - 1
      BY <2>1, <2>2, FS_Subset DEF Before
    <2>4. Before(M, h) \in Nat
      BY <2>3, FS_CardinalityType DEF Before
    <2> QED BY <1>1, <2>3, <2>4
  <1>3. ASSUME NEW h \in M, NEW j \in M, h < j PROVE Before(M, h) < Before(M, j)
    <2> DEFINE A == {x \in M : x < h}
               B == {x \in M : x < j}
    <2>0. h \in Nat /\ j \in Nat /\ \A x \in M : x \in Nat
      OBVIOUS
    <2>1. IsFiniteSet(A) /\ IsFiniteSet(B)
      BY FS_Subset
    <2>2. IsFiniteSet(A \cup {h}) /\ Cardinality(A \cup {h}) = Cardinality(A) + 1
      <3>1. h \notin A
        BY <2>0
      <3> HIDE DEF A
      <3> QED BY <2>1, <3>1, FS_AddElement
    <2>3. A \cup {h} \in SUBSET B
      <3>1. \A x \in M : x < h => x < j
        BY <1>3, <2>0
      <3> QED BY <1>3, <3>1
    <2>4. Cardinality(A \cup {h}) <= Cardinality(B)
      BY <2>1, <2>3, FS_Subset
    <2>5. Cardinality(A) \in Nat /\ Cardinality(B) \in Nat
      BY <2>1, FS_CardinalityType
    <2> QED BY <2>2, <2>4, <2>5 DEF Before
  <1>4. \A h, j \in M : Before(M, h) = Before(M, j) => h = j
    <2> SUFFICES ASSUME NEW h \in M, NEW j \in M, Before(M, h) = Before(M, j), h # j
                 PROVE  FALSE
      OBVIOUS
    <2>1. h < j \/ j < h
      OBVIOUS
    <2>2. Before(M, h) \in Int
      BY <1>1, <1>2
    <2> QED BY <1>3, <2>1, <2>2
  <1>5. place \in Injection(M, 0 .. n - 1)
    BY <1>2, <1>4 DEF Injection, IsInjective
  <1>6. IsFiniteSet(0 .. n - 1) /\ Cardinality(0 .. n - 1) = n
    <2>1. n - 1 \in Int /\ 0 \in Int
      BY <1>1
    <2>2. /\ IsFiniteSet(0 .. n - 1)
          /\ Cardinality(0 .. n - 1) = IF 0 > n - 1 THEN 0 ELSE (n - 1) - 0 + 1
      BY <2>1, FS_Interval
    <2> HIDE DEF n
    <2> QED BY <1>1, <2>2
  <1>7. place \in Surjection(M, 0 .. n - 1)
    BY <1>5, <1>6, FS_Injection
  <1>8. ASSUME NEW k \in 0 .. n - 1 PROVE \E h \in M : Before(M, h) = k
    BY <1>7 DEF Surjection
  <1> QED BY <1>2, <1>4, <1>8

\* The members of a group are as many as its list is long.
LEMMA GroupSize ==
    ASSUME inv \in Inventories, NEW g \in {"mds", "oss"}
    PROVE  /\ inv[g] \in Seq(Host)
           /\ Members(inv[g]) \subseteq Host /\ Members(inv[g]) \subseteq Nat
           /\ IsFiniteSet(Members(inv[g]))
           /\ Cardinality(Members(inv[g])) = Len(inv[g])
  <1> DEFINE list == inv[g]
  <1>1. list \in Seq(Host) /\ \A j, k \in DOMAIN list : list[j] = list[k] => j = k
    <2>1. inv \in [mds : Seq(Host), oss : Seq(Host), clients : SUBSET Host, failover : {"yes", "no"}]
      BY LustreAssumption
    <2>2. \A j, k \in DOMAIN list : list[j] = list[k] => j = k
      BY LustreAssumption
    <2> QED BY <2>1, <2>2
  <1>2. Len(list) \in Nat /\ list \in [1 .. Len(list) -> Host]
    BY <1>1
  <1>3. Members(list) \subseteq Host /\ Members(list) \subseteq Nat
    <2>1. Host \subseteq Nat
      BY LustreAssumption
    <2> HIDE DEF list
    <2>2. Members(list) \subseteq Host
      BY <1>2 DEF Members
    <2> QED BY <2>1, <2>2
  <1>4. list \in Bijection(1 .. Len(list), Members(list))
    <2> HIDE DEF list
    <2> QED BY <1>1, <1>2 DEF Members, Bijection, Injection, Surjection, IsInjective
  <1>5. ExistsBijection(1 .. Len(list), Members(list))
    BY <1>4 DEF ExistsBijection
  <1>6. IsFiniteSet(Members(list)) /\ Cardinality(Members(list)) = Len(list)
    BY <1>2, <1>5, FS_NatBijection, FS_CountingElements
  <1> QED BY <1>1, <1>3, <1>6

\* Every place in a group is taken by one server.
LEMMA SortedType ==
    ASSUME inv \in Inventories, NEW g \in {"mds", "oss"}, NEW k \in 0 .. Len(inv[g]) - 1
    PROVE  /\ Sorted(g, k) \in Members(inv[g])
           /\ \A h \in Members(inv[g]) : Before(Members(inv[g]), h) = k => h = Sorted(g, k)
  <1> DEFINE M == Members(inv[g])
  <1>1. M \in SUBSET Nat /\ IsFiniteSet(M) /\ Cardinality(M) = Len(inv[g])
    BY GroupSize
  <1>2. \E h \in M : Before(M, h) = k
    BY <1>1, Places
  <1>3. Sorted(g, k) = CHOOSE h \in M : Before(M, h) = k
    BY DEF Sorted, Before
  <1>4. \A h, j \in M : Before(M, h) = Before(M, j) => h = j
    BY <1>1, Places
  <1> QED BY <1>2, <1>3, <1>4

\* A server's place in its group.
LEMMA IndexType ==
    ASSUME inv \in Inventories, NEW h \in Servers
    PROVE  /\ Group(h) \in {"mds", "oss"} /\ h \in Members(inv[Group(h)])
           /\ Index(h) \in 0 .. Len(inv[Group(h)]) - 1
           /\ Len(inv[Group(h)]) \in Nat
           /\ inv[Group(h)][Index(h) + 1] = h
  <1> DEFINE s == inv[Group(h)]
             k == CHOOSE y \in DOMAIN s : s[y] = h
  <1>1. Group(h) \in {"mds", "oss"} /\ h \in Members(s)
    <2>1. inv \in [mds : Seq(Host), oss : Seq(Host), clients : SUBSET Host, failover : {"yes", "no"}]
      BY LustreAssumption
    <2> QED BY <2>1 DEF Group, Servers
  <1>2. s \in Seq(Host)
    BY <1>1, GroupSize
  <1>3. \E y \in DOMAIN s : s[y] = h
    BY <1>1 DEF Members
  <1>4. k \in DOMAIN s /\ s[k] = h
    BY <1>3
  <1>5. Index(h) = k - 1
    BY DEF Index
  <1> HIDE DEF k
  <1>6. k \in 1 .. Len(s) /\ Len(s) \in Nat
    BY <1>2, <1>4
  <1>7. Index(h) \in 0 .. Len(s) - 1 /\ Index(h) + 1 = k
    BY <1>5, <1>6
  <1> QED BY <1>1, <1>4, <1>6, <1>7

\* The number of the server that a server is paired with.
Other(k) == IF k % 2 = 0 THEN k + 1 ELSE k - 1

LEMMA OtherInRange ==
    ASSUME NEW n \in Nat, n % 2 = 0, NEW k \in 0 .. n - 1
    PROVE  Other(k) \in 0 .. n - 1 /\ Other(k) # k /\ Other(Other(k)) = k
  <1>1. k \in Nat /\ k < n
    OBVIOUS
  <1>2. CASE k % 2 = 0
    <2>1. k + 1 # n /\ (k + 1) % 2 = 1
      BY <1>1, <1>2
    <2> QED BY <1>1, <1>2, <2>1 DEF Other
  <1>3. CASE k % 2 # 0
    <2>1. k # 0 /\ (k - 1) % 2 = 0
      BY <1>1, <1>3
    <2> QED BY <1>1, <1>3, <2>1 DEF Other
  <1> QED BY <1>2, <1>3

\* With pairs, the fail node of a server is a server of its group.
LEMMA FailNodeType ==
    ASSUME inv \in Inventories, inv.failover = "yes", Paired, NEW h \in Servers
    PROVE  /\ FailNode(h) \in Members(inv[Group(h)])
           /\ FailNode(h) = Sorted(Group(h), Other(Index(h)))
           /\ Other(Index(h)) \in 0 .. Len(inv[Group(h)]) - 1
           /\ Len(inv[Group(h)]) % 2 = 0
  <1> DEFINE g == Group(h)
  <1>1. g \in {"mds", "oss"} /\ Index(h) \in 0 .. Len(inv[g]) - 1 /\ Len(inv[g]) \in Nat
    BY IndexType
  <1>2. Len(inv[g]) % 2 = 0
    BY <1>1 DEF Paired
  <1>3. FailNode(h) = Sorted(g, Other(Index(h)))
    BY DEF FailNode, Other
  <1> HIDE DEF g
  <1>4. Other(Index(h)) \in 0 .. Len(inv[g]) - 1
    BY <1>1, <1>2, OtherInRange
  <1>5. Sorted(g, Other(Index(h))) \in Members(inv[g])
    BY <1>1, <1>4, SortedType
  <1> QED BY <1>2, <1>3, <1>4, <1>5 DEF g

\* A group that is written in the order of the names.
InOrder(g) == \A j, k \in DOMAIN inv[g] : j < k => inv[g][j] < inv[g][k]

\* In such a group the sorted list is the list itself.
LEMMA SortedInOrder ==
    ASSUME inv \in Inventories, NEW g \in {"mds", "oss"}, InOrder(g),
           NEW k \in 0 .. Len(inv[g]) - 1
    PROVE  Sorted(g, k) = inv[g][k + 1]
  <1> DEFINE list == inv[g]
             M == Members(list)
             below == {x \in M : x < list[k + 1]}
  <1>1. list \in Seq(Host) /\ M \subseteq Nat
    BY GroupSize
  <1>2. Len(list) \in Nat /\ list \in [1 .. Len(list) -> Host] /\ k + 1 \in 1 .. Len(list)
    BY <1>1
  <1>3. list[k + 1] \in M
    BY <1>2 DEF Members
  <1>4. \A i, j \in 1 .. Len(list) : i < j => list[i] < list[j]
    BY <1>2 DEF InOrder
  <1>5. \A i \in 1 .. Len(list) : list[i] \in Nat
    BY <1>2, LustreAssumption
  <1>6. \A i, j \in 1 .. Len(list) : list[i] < list[j] => i < j
    <2> HIDE DEF list
    <2> QED BY <1>2, <1>4, <1>5
  <1> DEFINE f == [i \in 1 .. k |-> list[i]]
  <1>7. f \in Bijection(1 .. k, below)
    <2> HIDE DEF list
    <2>1. \A i \in 1 .. k : i \in 1 .. Len(list) /\ list[i] \in below
      BY <1>2, <1>4 DEF Members
    <2>2. \A i, j \in 1 .. k : list[i] = list[j] => i = j
      BY <1>2, <1>4, <1>5
    <2>3. \A x \in below : \E i \in 1 .. k : list[i] = x
      <3> SUFFICES ASSUME NEW x \in below PROVE \E i \in 1 .. k : list[i] = x
        OBVIOUS
      <3>1. PICK i \in 1 .. Len(list) : list[i] = x
        BY <1>2 DEF Members
      <3>2. i < k + 1
        BY <1>2, <1>6, <3>1
      <3> QED BY <3>1, <3>2
    <2> QED BY <2>1, <2>2, <2>3 DEF Bijection, Injection, Surjection, IsInjective
  <1>8. Cardinality(below) = k
    <2>1. ExistsBijection(1 .. k, below)
      BY <1>7 DEF ExistsBijection
    <2> QED BY <2>1, FS_CountingElements
  <1>9. Before(M, list[k + 1]) = k
    BY <1>8 DEF Before
  <1> QED BY <1>3, <1>9, SortedType

\* With failover, an even number of servers in each group and an inventory in the order
\* of the names, the fail nodes pair the servers of a group, for any number of them: the
\* fail node of a server is another server of its group, whose fail node it is
\* (configure_variables.yaml).
THEOREM PairsAreMutual ==
    ASSUME inv \in Inventories, inv.failover = "yes", Paired, InOrder("mds"), InOrder("oss"),
           NEW h \in Servers
    PROVE  /\ FailNode(h) \in Servers
           /\ Group(FailNode(h)) = Group(h)
           /\ FailNode(h) # h
           /\ FailNode(FailNode(h)) = h
  <1> DEFINE g == Group(h)
             n == Len(inv[g])
             j == FailNode(h)
  <1>1. /\ g \in {"mds", "oss"} /\ Index(h) \in 0 .. n - 1 /\ n \in Nat /\ n % 2 = 0
        /\ inv[g][Index(h) + 1] = h
        /\ j \in Members(inv[g]) /\ j = Sorted(g, Other(Index(h)))
        /\ Other(Index(h)) \in 0 .. n - 1
    BY IndexType, FailNodeType
  <1>2. Other(Index(h)) # Index(h) /\ Other(Other(Index(h))) = Index(h)
    BY <1>1, OtherInRange
  <1>3. InOrder(g)
    BY <1>1
  <1>4. j = inv[g][Other(Index(h)) + 1]
    BY <1>1, <1>3, SortedInOrder
  <1>5. j \in Servers /\ Group(j) = g
    <2>1. Members(inv.mds) \cap Members(inv.oss) = {}
      BY LustreAssumption
    <2> QED BY <1>1, <2>1 DEF Servers, Group
  <1>6. \A a, b \in DOMAIN inv[g] : inv[g][a] = inv[g][b] => a = b
    BY <1>1, LustreAssumption
  <1>7. DOMAIN inv[g] = 1 .. n
    <2>1. inv[g] \in Seq(Host)
      BY <1>1, GroupSize
    <2> QED BY <2>1
  <1>8. Index(j) \in 0 .. n - 1 /\ inv[g][Index(j) + 1] = j
    BY <1>5, IndexType
  <1>9. Index(j) = Other(Index(h))
    <2>1. Index(j) + 1 \in 1 .. n /\ Other(Index(h)) + 1 \in 1 .. n
      BY <1>1, <1>8
    <2>2. Index(j) + 1 = Other(Index(h)) + 1
      BY <1>4, <1>6, <1>7, <1>8, <2>1
    <2> QED BY <1>1, <1>8, <2>2
  <1>10. FailNode(j) = h
    <2>1. FailNode(j) = Sorted(g, Other(Index(j)))
      BY <1>5, FailNodeType
    <2>2. Sorted(g, Index(h)) = inv[g][Index(h) + 1]
      BY <1>1, <1>3, SortedInOrder
    <2> QED BY <1>1, <1>2, <1>9, <2>1, <2>2
  <1>11. j # h
    <2>1. Index(h) + 1 \in 1 .. n /\ Other(Index(h)) + 1 \in 1 .. n
      BY <1>1
    <2>2. Index(h) + 1 # Other(Index(h)) + 1
      BY <1>1, <1>2
    <2> QED BY <1>1, <1>4, <1>6, <1>7, <2>1, <2>2
  <1> QED BY <1>5, <1>10, <1>11

-------------------------------------------------------------------------------
(* What targets were formatted with.                                       *)

\* The rest of the types; the preparation has passed in a run that formats.
Formats ==
    /\ nids \in [Host -> SUBSET Host]
    /\ partner \in [Host -> Host \cup {0}]
    /\ goal \in {"configured", "cleaned"}
    /\ last \in {"none", "running", "failed", "configured", "cleaned", "edited"}
    /\ pc \notin {"idle", "variables"} => Paired

LEMMA FormatFormats ==
    ASSUME IInv, Formats, NEW S, Format(S)
    PROVE  Formats'
  <1>1. /\ inv' = inv /\ pc = "format" /\ pc' \in {"mount_mgt", "idle"} /\ S \subseteq Servers
        /\ last' \in {last, "failed"} /\ goal' = goal
        /\ nids' = [h \in Host |-> IF h \in S THEN MGSNodes ELSE nids[h]]
        /\ partner' = [h \in Host |->
                IF h \in S THEN IF inv.failover = "yes" THEN FailNode(h) ELSE 0
                ELSE partner[h]]
    BY TaskEnds DEF Format, Task
  <1>2. inv \in Inventories /\ Paired
    BY <1>1 DEF IInv, Types, Formats
  <1>3. /\ Members(inv.mds) \subseteq Host
        /\ 0 \in 0 .. Len(inv.mds) - 1
    <2>1. inv["mds"] \in Seq(Host) /\ inv.mds # << >>
      BY <1>2, LustreAssumption
    <2>2. Members(inv["mds"]) \subseteq Host
      BY <1>2, GroupSize
    <2> QED BY <2>1, <2>2
  <1>4. MGSNodes \subseteq Host
    <2>1. Sorted("mds", 0) \in Members(inv["mds"])
      BY <1>2, <1>3, SortedType
    <2> QED BY <1>3, <2>1 DEF MGSNodes
  <1>5. \A h \in Servers : inv.failover = "yes" => FailNode(h) \in Host
    <2> SUFFICES ASSUME NEW h \in Servers, inv.failover = "yes" PROVE FailNode(h) \in Host
      OBVIOUS
    <2>1. FailNode(h) \in Members(inv[Group(h)]) /\ Group(h) \in {"mds", "oss"}
      BY <1>2, FailNodeType, IndexType
    <2> QED BY <1>2, <2>1, GroupSize
  <1>6. nids' \in [Host -> SUBSET Host] /\ partner' \in [Host -> Host \cup {0}]
    BY <1>1, <1>4, <1>5 DEF Formats
  <1>7. Paired'
    BY <1>1, <1>2 DEF Paired
  <1> QED BY <1>1, <1>6, <1>7 DEF Formats

LEMMA NextFormats == IInv /\ Formats /\ [Next]_vars => Formats'
  <1> SUFFICES ASSUME IInv, Formats, [Next]_vars PROVE Formats'
    OBVIOUS
  <1>1. CASE Edit
    BY <1>1 DEF Edit, Formats, pools
  <1>2. CASE StartConfigure \/ StartClean
    BY <1>2 DEF StartConfigure, StartClean, Start, Formats, pools
  <1>3. CASE Prepare
    <2>1. PICK S \in SUBSET {0} :
            Task("variables", S, IF Paired THEN {0} ELSE {}, {0}, "unmount_clients")
      BY <1>3 DEF Prepare
    <2>2. /\ inv' = inv /\ goal' = goal /\ last' \in {last, "failed"}
          /\ pc' = "idle" \/ Paired
          /\ UNCHANGED <<nids, partner>>
      BY <1>3, <2>1, TaskEnds DEF Prepare, Task, pools
    <2> QED BY <2>2 DEF Formats, Paired
  <1>4. CASE \E S : Format(S)
    BY <1>4, FormatFormats
  <1>5. CASE \E S : Destroy(S)
    <2>1. PICK S : Destroy(S)
      BY <1>5
    <2>2. /\ inv' = inv /\ goal' = goal /\ last' \in {last, "failed", goal} /\ pc = "destroy"
          /\ nids' = [h \in Host |-> IF data'[h] = None THEN {} ELSE nids[h]]
          /\ partner' = [h \in Host |-> IF data'[h] = None THEN 0 ELSE partner[h]]
      BY <2>1 DEF Destroy, Task
    <2> QED BY <2>2 DEF Formats, Paired
  <1>6. ASSUME NEW here \in {"unmount_clients", "unmount_targets", "unmount_mgt", "create",
                             "create_mgt", "mount_mgt", "mount_targets", "mount_clients"},
               NEW S, NEW able, NEW all, NEW next, Task(here, S, able, all, next),
               UNCHANGED <<nids, partner>>
        PROVE  Formats'
    <2>1. inv' = inv /\ goal' = goal /\ last' \in {last, "failed", goal} /\ pc = here
      BY <1>6 DEF Task
    <2> QED BY <1>6, <2>1 DEF Formats, Paired
  <1>7. CASE \E S : UnmountClients(S) \/ UnmountTargets(S) \/ UnmountMGT(S)
    BY <1>6, <1>7 DEF UnmountClients, UnmountTargets, UnmountMGT, pools
  <1>8. CASE \E S : CreatePools(S) \/ CreateMGT(S) \/ MountMGT(S)
    BY <1>6, <1>8 DEF CreatePools, CreateMGT, MountMGT
  <1>9. CASE \E S : MountTargets(S) \/ MountClients(S)
    BY <1>6, <1>9 DEF MountTargets, MountClients, pools
  <1>10. CASE UNCHANGED vars
    BY <1>10 DEF vars, pools, Formats, Paired
  <1> QED BY <1>1, <1>2, <1>3, <1>4, <1>5, <1>7, <1>8, <1>9, <1>10 DEF Next, Progress

\* Every target is formatted with a fail node and MGS hosts that are servers: the places
\* that the pairing looks for exist, since a run on odd groups ends before it formats
\* (configure_lustre.yaml, the preconditions; configure_variables.yaml).
THEOREM AlwaysTyped == Spec => []TypeOK
  <1>1. Init => Formats
    BY DEF Init, Formats
  <1>2. IInv /\ Formats => TypeOK
    BY DEF IInv, Types, Held, Formats, TypeOK, Unmounting, Created
  <1> QED BY <1>1, <1>2, NextFormats, Always, PTL DEF Spec
===============================================================================

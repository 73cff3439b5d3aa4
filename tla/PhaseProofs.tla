----------------------------- MODULE PhaseProofs -----------------------------
(***************************************************************************)
(* Theorems about three phases of the workflow: the performance baseline   *)
(* of phase 6 (Baseline), for any nodes, inventories, experiments and      *)
(* runs; the virtual cluster of phase 3 with mvpnet (Mvpnet), for any VMs  *)
(* and jobs; the reports of phase 7 (Report), for any saved runs,          *)
(* baselines, rates and phases.  The modules share no state: what is       *)
(* proved of one does not use the others.                                  *)
(***************************************************************************)
EXTENDS Baseline, Mvpnet, Report, FiniteSetTheorems, WellFoundedInduction, TLAPS

\* The tasks of the playbook between which the play's run has no FIO job left.
AfterFio == {"pairwise", "concurrent", "manifest", "writing", "publish"}
Reporting == phase7.at \in {"render", "save"}

\* The types of all variables but osu, whose pairs are only compared.
Types ==
  /\ inv \in [Experiments -> Inventories]
  /\ device \in [Nodes -> {"raw", "claimed"}]
  /\ nextRun \in 0..MaxRuns
  /\ play \in [at : {"idle", "launch", "fio"} \cup AfterFio,
               exp : Experiments \cup {"none"}, inv : Inventories \cup {"none"},
               run : 0..MaxRuns, plane : 0..2, link : Nat]
  /\ jobs \in [Nodes -> SUBSET Runs]
  /\ fio \subseteq Nodes
  /\ manifest \in [Runs -> Manifest]
  /\ pointer \in [Experiments -> 0..MaxRuns]
  /\ published \in [Experiments -> SUBSET Runs]
  /\ phase7 \in [at : {"idle", "render", "save", "done", "failed"},
                 exp : Experiments \cup {"none"}, inv : Inventories \cup {"none"},
                 run : 0..MaxRuns, data : Manifest]

\* A play is that of the last run, on disks that are nobody's, and no report of
\* its experiment runs beside it.
Playing ==
  /\ play.at = "idle" => osu = {} /\ play.run = 0
  /\ play.at # "idle" =>
       /\ play.exp \in Experiments
       /\ play.inv \in Inventories
       /\ play.run = nextRun
       /\ nextRun > 0
       /\ \A n \in Storage(play.inv) : device[n] = "raw"
       /\ Reporting => phase7.exp # play.exp

\* FIO jobs are of runs that exist; those of the play's run are on its storage
\* servers, and only until the play has waited for them.
FioJobs ==
  /\ \A n \in Nodes, r \in Runs : r \in jobs[n] => r <= nextRun
  /\ play.at = "launch" => \A n \in Nodes : play.run \notin jobs[n]
  /\ play.at \notin {"idle", "launch"} =>
       \A n \in Nodes : play.run \in jobs[n] => n \in Storage(play.inv)
  /\ play.at \in AfterFio =>
       /\ \A n \in Nodes : play.run \notin jobs[n]
       /\ fio = Storage(play.inv)

\* OSU jobs run in the network tasks only, on one of the planes, and share no node.
OsuRound ==
  /\ play.at \in {"pairwise", "concurrent"} => play.plane \in 1..Len(Planes(play.inv))
  /\ osu # {} => play.at \in {"pairwise", "concurrent"}
  /\ \A p, q \in osu : p # q => {p[1], p[2]} \cap {q[1], q[2]} = {}

\* The manifest of the play's run is absent, then partial, then complete, and a
\* complete one has the FIO results of all storage servers of its inventory.
Manifests ==
  /\ \A r \in Runs : r > nextRun => manifest[r].state = "absent"
  /\ play.at \notin {"idle", "writing", "publish"} => manifest[play.run].state = "absent"
  /\ play.at = "writing" => manifest[play.run].state = "partial"
  /\ play.at = "publish" => /\ manifest[play.run].state = "complete"
                            /\ manifest[play.run].inv = play.inv
  /\ \A r \in Runs : manifest[r].state = "complete" =>
       /\ manifest[r].inv \in Inventories
       /\ manifest[r].fio = Storage(manifest[r].inv)

\* An experiment's pointer names the last run it has published.
Pointed ==
  \A e \in Experiments :
    /\ pointer[e] # 0 => pointer[e] \in published[e]
    /\ \A r \in published[e] :
         r <= nextRun /\ r <= pointer[e] /\ manifest[r].state = "complete"

\* A report holds what select_manifest has found, and what it has read of it.
Reported ==
  Reporting =>
    /\ phase7.exp \in Experiments
    /\ phase7.inv = inv[phase7.exp]
    /\ phase7.run \in Runs
    /\ manifest[phase7.run].state = "complete"
    /\ manifest[phase7.run].inv = phase7.inv
    /\ \A r \in published[phase7.exp] : manifest[r].inv = phase7.inv => r <= phase7.run
    /\ phase7.at = "save" =>
         /\ phase7.data.state = "complete"
         /\ phase7.data.inv = manifest[phase7.run].inv
         /\ phase7.data.fio = manifest[phase7.run].fio
         /\ phase7.data.pairs = manifest[phase7.run].pairs

IInv == Types /\ Playing /\ FioJobs /\ OsuRound /\ Manifests /\ Pointed /\ Reported

-----------------------------------------------------------------------------
(* Induction, without a theorem for it: a set of counterexamples that is not  *)
(* empty has a least element, and that one is refuted.                       *)

\* A set of subsets of a finite set has a smallest one: the form of induction
\* that the proofs about sums use, with the counterexamples as the set.
LEMMA LeastSet ==
  ASSUME NEW S, IsFiniteSet(S), NEW B, B \subseteq SUBSET S, B # {}
  PROVE  \E u \in B : \A v \in B : v \subseteq u => v = u
  <1>1. IsWellFoundedOn(StrictSubsetOrdering(S), SUBSET S)
    BY FS_StrictSubsetOrderingWellFounded, FS_FiniteSubsetsOfFinite
  <1>2. PICK u \in B : \A v \in B : <<v, u>> \notin StrictSubsetOrdering(S)
    BY <1>1, WFMin
  <1>3. ASSUME NEW v \in B, v \subseteq u, v # u PROVE FALSE
    BY <1>2, <1>3 DEF StrictSubsetOrdering
  <1> QED BY <1>3

\* The same for natural numbers.
LEMMA LeastNumber ==
  ASSUME NEW B, B \subseteq Nat, B # {}
  PROVE  \E n \in B : \A m \in B : n <= m
  <1>1. PICK n \in B : \A m \in B : <<m, n>> \notin OpToRel(<, Nat)
    BY NatLessThanWellFounded, WFMin
  <1>2. \A m \in B : ~ (m < n)
    BY <1>1 DEF OpToRel
  <1> QED BY <1>2

-----------------------------------------------------------------------------
(* Facts about the constants.                                              *)

\* The storage servers of an inventory are nodes, and so are its links' ends.
LEMMA StorageType ==
    ASSUME NEW i \in Inventories
    PROVE  /\ Storage(i) \subseteq Nodes
           /\ ZipPairs(i, Ds[i]) \subseteq Nodes \X Nodes
  <1>1. Ds[i] \in Seq(Nodes) /\ Mds[i] \in Seq(Nodes) /\ Clients[i] \in Seq(Nodes)
    BY TopologyAssumption
  <1>2. Storage(i) \subseteq Nodes
    BY <1>1 DEF Storage
  <1>3. ZipPairs(i, Ds[i]) \subseteq Nodes \X Nodes
    BY <1>1 DEF ZipPairs
  <1> QED BY <1>2, <1>3

\* zip pairs each client with one server and each server with one client, and no
\* client is a server (test.yaml:14-15): the pairs of a plane share no node.
LEMMA ZipApart ==
    ASSUME NEW i \in Inventories, NEW k \in 1..Len(Planes(i)),
           NEW p \in ZipPairs(i, Planes(i)[k]), NEW q \in ZipPairs(i, Planes(i)[k]), p # q
    PROVE  {p[1], p[2]} \cap {q[1], q[2]} = {}
  <1> DEFINE s == Planes(i)[k]
             c == Clients[i]
  <1>1. s = Ds[i] \/ s = Mds[i]
    BY DEF Planes
  <1>2. s \in Seq(Nodes) /\ c \in Seq(Nodes)
    BY <1>1, TopologyAssumption
  <1>3. PICK a \in 1..Len(c) : a <= Len(s) /\ p = <<c[a], s[a]>>
    BY DEF ZipPairs
  <1>4. PICK b \in 1..Len(c) : b <= Len(s) /\ q = <<c[b], s[b]>>
    BY DEF ZipPairs
  <1>5. a # b
    BY <1>3, <1>4
  <1>6. a \in 1..Len(s) /\ b \in 1..Len(s)
    BY <1>2, <1>3, <1>4
  <1>7. c[a] # c[b]
    BY <1>5, DistinctAssumption
  <1>8. s[a] # s[b]
    BY <1>1, <1>5, <1>6, DistinctAssumption
  <1>9. c[a] # s[b] /\ c[b] # s[a]
    BY <1>1, <1>6, TopologyAssumption
  <1> QED BY <1>3, <1>4, <1>7, <1>8, <1>9

\* Nonempty sets of runs have a last one.
LEMMA LastRun ==
    ASSUME NEW S \in SUBSET Runs, S # {}
    PROVE  \E m \in S : \A s \in S : s <= m
  <1> DEFINE B == {MaxRuns - s : s \in S}
  <1>1. MaxRuns \in Nat /\ \A s \in S : s \in Nat /\ s <= MaxRuns
    BY BoundAssumption DEF Runs
  <1>2. B \subseteq Nat /\ B # {}
    BY <1>1
  <1>3. PICK n \in B : \A b \in B : n <= b
    BY <1>2, LeastNumber
  <1>4. PICK m \in S : n = MaxRuns - m
    OBVIOUS
  <1>5. \A s \in S : MaxRuns - m <= MaxRuns - s
    BY <1>3, <1>4
  <1> QED BY <1>1, <1>5

-----------------------------------------------------------------------------
(* The links of a baseline.                                                *)

\* The pairs of servers that start with server a, and their concatenation from m on,
\* as combinations(servers, 2) gives them.
PairsFrom(servers, a) ==
  [k \in 1..(Len(servers) - a) |-> <<servers[a], servers[a + k]>>]
Flattened(g, servers, m) ==
  g = [a \in m..Len(servers) |-> IF a = Len(servers) THEN <<>>
                                 ELSE PairsFrom(servers, a) \o g[a + 1]]

\* Links are the products, then the combinations.
LEMMA LinksAre ==
  ASSUME NEW i, NEW servers
  PROVE  LET c == Clients[i]
             s == Len(servers)
         IN Links(i, servers) =
              [k \in 1..(Len(c) * s) |->
                 <<c[((k - 1) \div s) + 1], servers[((k - 1) % s) + 1]>>]
              \o (CHOOSE g : Flattened(g, servers, 1))[1]
  BY Zenon DEF Links, PairsFrom, Flattened

\* The combinations exist: they are built from the last server backwards.
LEMMA FlattenedExists ==
  ASSUME NEW servers \in Seq(Nodes), Len(servers) > 0
  PROVE  \E g : Flattened(g, servers, 1)
  <1> DEFINE s == Len(servers)
             Bad == {k \in Nat : k < s /\ ~ \E g : Flattened(g, servers, s - k)}
  <1>0. s \in Nat /\ s > 0
    OBVIOUS
  <1>1. \E g : Flattened(g, servers, s)
    <2>1. Flattened([a \in s..s |-> <<>>], servers, s)
      BY <1>0 DEF Flattened
    <2> QED BY <2>1
  <1>2. ASSUME NEW m \in Nat, 1 < m, m <= s, NEW g, Flattened(g, servers, m)
        PROVE  \E h : Flattened(h, servers, m - 1)
    <2> DEFINE h == [a \in (m - 1)..s |-> IF a = s THEN <<>>
                                          ELSE PairsFrom(servers, a) \o g[a + 1]]
    <2>0. \A a \in m..s : a \in (m - 1)..s
      BY <1>0, <1>2
    <2>1. \A a \in m..s : h[a] = g[a]
      BY <1>2, <2>0 DEF Flattened
    <2>2. \A a \in (m - 1)..s : a # s => h[a + 1] = g[a + 1]
      <3>1. \A a \in (m - 1)..s : a # s => a + 1 \in m..s
        BY <1>0, <1>2
      <3> HIDE DEF h
      <3> QED BY <2>1, <3>1
    <2>3. h = [a \in (m - 1)..s |-> IF a = s THEN <<>>
                                    ELSE PairsFrom(servers, a) \o h[a + 1]]
      BY <2>2
    <2> QED BY <2>3 DEF Flattened
  <1>3. Bad = {}
    <2> SUFFICES ASSUME Bad # {} PROVE FALSE
      OBVIOUS
    <2>0. Bad \subseteq Nat
      OBVIOUS
    <2> HIDE DEF Bad
    <2>1. PICK n \in Bad : \A k \in Bad : n <= k
      BY <2>0, LeastNumber
    <2>2. n \in Nat /\ n < s /\ ~ \E g : Flattened(g, servers, s - n)
      BY <2>1 DEF Bad
    <2>3. n # 0
      BY <1>0, <1>1, <2>2
    <2>4. n - 1 \in Nat /\ n - 1 < s /\ n - 1 \notin Bad
      BY <1>0, <2>1, <2>2, <2>3
    <2>5. PICK g : Flattened(g, servers, s - (n - 1))
      BY <2>4 DEF Bad
    <2>6. /\ s - (n - 1) \in Nat /\ 1 < s - (n - 1) /\ s - (n - 1) <= s
          /\ (s - (n - 1)) - 1 = s - n
      BY <1>0, <2>2, <2>3
    <2>7. \E h : Flattened(h, servers, (s - (n - 1)) - 1)
      BY <1>2, <2>5, <2>6
    <2> QED BY <2>2, <2>6, <2>7
  <1>4. s - 1 \in Nat /\ s - 1 < s /\ s - (s - 1) = 1
    BY <1>0
  <1> QED BY <1>3, <1>4

\* Every combination is of two servers.
LEMMA FlattenedType ==
  ASSUME NEW servers \in Seq(Nodes), Len(servers) > 0, NEW g, Flattened(g, servers, 1)
  PROVE  g[1] \in Seq(Nodes \X Nodes)
  <1> DEFINE s == Len(servers)
             Bad == {k \in Nat : k < s /\ g[s - k] \notin Seq(Nodes \X Nodes)}
  <1>0. s \in Nat /\ s > 0
    OBVIOUS
  <1>1. ASSUME NEW a \in 1..s, a # s, g[a + 1] \in Seq(Nodes \X Nodes)
        PROVE  g[a] \in Seq(Nodes \X Nodes)
    <2>1. g[a] = PairsFrom(servers, a) \o g[a + 1]
      BY <1>1 DEF Flattened
    <2>2. PairsFrom(servers, a) \in Seq(Nodes \X Nodes)
      <3>1. s - a \in Nat
        BY <1>0, <1>1
      <3>2. \A k \in 1..(s - a) : a \in 1..s /\ a + k \in 1..s
        BY <1>0, <1>1
      <3>3. \A k \in 1..(s - a) : <<servers[a], servers[a + k]>> \in Nodes \X Nodes
        BY <3>2
      <3> QED BY <3>1, <3>3 DEF PairsFrom
    <2> QED BY <1>1, <2>1, <2>2
  <1>2. g[s] \in Seq(Nodes \X Nodes)
    BY <1>0 DEF Flattened
  <1>3. Bad = {}
    <2> SUFFICES ASSUME Bad # {} PROVE FALSE
      OBVIOUS
    <2>0. Bad \subseteq Nat
      OBVIOUS
    <2> HIDE DEF Bad
    <2>1. PICK n \in Bad : \A k \in Bad : n <= k
      BY <2>0, LeastNumber
    <2>2. n \in Nat /\ n < s /\ g[s - n] \notin Seq(Nodes \X Nodes)
      BY <2>1 DEF Bad
    <2>3. n # 0
      BY <1>0, <1>2, <2>2
    <2>4. n - 1 \in Nat /\ n - 1 < s /\ n - 1 \notin Bad
      BY <1>0, <2>1, <2>2, <2>3
    <2>5. g[s - (n - 1)] \in Seq(Nodes \X Nodes)
      BY <2>4 DEF Bad
    <2>6. s - n \in 1..s /\ s - n # s /\ (s - n) + 1 = s - (n - 1)
      BY <1>0, <2>2, <2>3
    <2> QED BY <1>1, <2>2, <2>5, <2>6
  <1>4. s - 1 \in Nat /\ s - 1 < s /\ s - (s - 1) = 1
    BY <1>0
  <1> QED BY <1>3, <1>4

\* The product's positions are positions of its factors.
LEMMA ProductPositions ==
  ASSUME NEW l \in Nat, NEW s \in Nat, s > 0, NEW k \in 1..(l * s)
  PROVE  ((k - 1) \div s) + 1 \in 1..l /\ ((k - 1) % s) + 1 \in 1..s
  <1> DEFINE q == (k - 1) \div s
             r == (k - 1) % s
  <1>1. q \in Nat /\ r \in Nat /\ r < s /\ k - 1 = s * q + r
    OBVIOUS
  <1> HIDE DEF q, r
  <1>2. k - 1 < l * s
    OBVIOUS
  <1>3. ASSUME q >= l PROVE FALSE
    <2>1. PICK d \in Nat : q = l + d
      <3>1. q - l \in Nat /\ q = l + (q - l)
        BY <1>1, <1>3
      <3> QED BY <3>1
    <2>2. s * q = l * s + s * d /\ s * d >= 0
      BY <2>1
    <2> QED BY <1>1, <1>2, <2>2
  <1>4. q + 1 \in 1..l /\ r + 1 \in 1..s
    BY <1>1, <1>3
  <1> QED BY <1>4 DEF q, r

\* Every link of a plane is between two nodes.
LEMMA LinksType ==
  ASSUME NEW i \in Inventories, NEW servers \in Seq(Nodes), Len(servers) > 0
  PROVE  Links(i, servers) \in Seq(Nodes \X Nodes)
  <1> DEFINE c == Clients[i]
             s == Len(servers)
             cross == [k \in 1..(Len(c) * s) |->
                         <<c[((k - 1) \div s) + 1], servers[((k - 1) % s) + 1]>>]
             g == CHOOSE h : Flattened(h, servers, 1)
  <1>1. Links(i, servers) = cross \o g[1]
    BY LinksAre
  <1>2. g[1] \in Seq(Nodes \X Nodes)
    BY FlattenedExists, FlattenedType
  <1>3. cross \in Seq(Nodes \X Nodes)
    <2>0. c \in Seq(Nodes) /\ Len(c) \in Nat /\ s \in Nat
      BY TopologyAssumption
    <2>1. Len(c) * s \in Nat
      BY <2>0
    <2>2. ASSUME NEW k \in 1..(Len(c) * s)
          PROVE  <<c[((k - 1) \div s) + 1], servers[((k - 1) % s) + 1]>> \in Nodes \X Nodes
      <3>1. ((k - 1) \div s) + 1 \in 1..Len(c) /\ ((k - 1) % s) + 1 \in 1..s
        BY <2>0, ProductPositions
      <3> QED BY <2>0, <3>1
    <2> HIDE DEF c, s
    <2> QED BY <2>1, <2>2
  <1> HIDE DEF cross, g
  <1> QED BY <1>1, <1>2, <1>3

\* The servers of a plane are nodes, and there are some.
LEMMA PlaneType ==
  ASSUME NEW i \in Inventories, NEW k \in 1..Len(Planes(i))
  PROVE  Planes(i)[k] \in Seq(Nodes) /\ Len(Planes(i)[k]) > 0
  <1>1. CASE Len(Mds[i]) > 0
    <2>1. Planes(i) = <<Ds[i], Mds[i]>>
      BY <1>1 DEF Planes
    <2> QED BY <1>1, <2>1, TopologyAssumption
  <1>2. CASE ~ Len(Mds[i]) > 0
    <2>1. Planes(i) = <<Ds[i]>>
      BY <1>2 DEF Planes
    <2> QED BY <2>1, TopologyAssumption
  <1> QED BY <1>1, <1>2

-----------------------------------------------------------------------------
(* Phase 6.                                                                *)

LEMMA InitInv == Init => IInv
  <1> SUFFICES ASSUME Init PROVE IInv
    OBVIOUS
  <1>1. Types
    BY BoundAssumption DEF Init, Types, Idle, NoReport, Absent, Manifest, AfterFio, Runs
  <1>2. Playing /\ FioJobs /\ OsuRound /\ Pointed /\ Reported
    BY DEF Init, Idle, NoReport, Playing, FioJobs, OsuRound, Pointed, Reported, Reporting, AfterFio
  <1>3. Manifests
    BY DEF Init, Idle, Absent, Manifests
  <1> QED BY <1>1, <1>2, <1>3 DEF IInv

\* The run directory is new, and all of its servers have raw disks.
LEMMA PreflightInv ==
    ASSUME IInv, NEW e \in Experiments, Preflight(e)
    PROVE  IInv'
  <1> USE DEF IInv, Preflight, files
  <1>1. /\ nextRun' = nextRun + 1 /\ nextRun' \in Runs
        /\ play' = [at |-> "launch", exp |-> e, inv |-> inv[e], run |-> nextRun',
                    plane |-> 0, link |-> 0]
        /\ inv[e] \in Inventories
    <2>1. nextRun' = nextRun + 1 /\ nextRun' \in Runs
      <3>1. nextRun \in Nat /\ nextRun < MaxRuns /\ MaxRuns \in Nat
        BY BoundAssumption DEF Types
      <3> QED BY <3>1 DEF Runs
    <2>2. play' = [at |-> "launch", exp |-> e, inv |-> inv[e], run |-> nextRun',
                   plane |-> 0, link |-> 0]
      BY DEF Idle
    <2>3. inv[e] \in Inventories
      BY DEF Types
    <2> QED BY <2>1, <2>2, <2>3
  <1>2. Types'
    BY <1>1 DEF Types, AfterFio, Runs
  <1>3. Playing'
    BY <1>1 DEF Types, Playing, Reporting, Checked, CheckDevices, Runs
  <1>4. FioJobs'
    BY <1>1, <1>2 DEF Types, FioJobs, AfterFio, Runs
  <1>5. OsuRound'
    BY <1>1 DEF OsuRound, Playing
  <1>6. Manifests'
    BY <1>1, <1>2 DEF Types, Manifests, Runs
  <1>7. Pointed'
    BY <1>1 DEF Types, Pointed, Runs
  <1>8. Reported'
    BY DEF Reported, Reporting
  <1> QED BY <1>2, <1>3, <1>4, <1>5, <1>6, <1>7, <1>8

\* A job starts on storage servers of the run only.
LEMMA LaunchInv ==
    ASSUME IInv, Launch
    PROVE  IInv'
  <1> USE DEF IInv, Launch, At, files
  <1>1. play' = [play EXCEPT !.at = "fio"] /\ play.at = "launch" /\ play.run \in Runs
    BY BoundAssumption DEF Types, Playing, Runs
  <1>2. Types'
    BY <1>1 DEF Types
  <1>3. Playing'
    BY <1>1 DEF Types, Playing, Reporting
  <1>4. FioJobs'
    BY <1>1 DEF Types, FioJobs, Playing, AfterFio
  <1>5. OsuRound'
    BY <1>1 DEF Types, OsuRound
  <1>6. Manifests'
    BY <1>1 DEF Types, Manifests
  <1>7. Pointed' /\ Reported'
    BY DEF Pointed, Reported, Reporting
  <1> QED BY <1>2, <1>3, <1>4, <1>5, <1>6, <1>7

\* The end of a job of an earlier run changes nothing of this one.
LEMMA FioInv ==
    ASSUME IInv, NEW n \in Nodes, NEW r \in Runs, FioDone(n, r) \/ FioFails(n, r)
    PROVE  IInv'
  <1> USE DEF IInv, FioDone, FioFails, files
  <1>1. /\ r \in jobs[n] /\ jobs' = [jobs EXCEPT ![n] = @ \ {r}]
        /\ fio' \subseteq Nodes
        /\ fio' # fio => r = play.run
    BY DEF Types
  <1>2. Types'
    BY <1>1 DEF Types
  <1>3. Playing' /\ OsuRound' /\ Manifests' /\ Pointed' /\ Reported'
    BY DEF Playing, OsuRound, Manifests, Pointed, Reported, Reporting
  <1>4. FioJobs'
    BY <1>1 DEF Types, FioJobs, AfterFio
  <1> QED BY <1>2, <1>3, <1>4

\* The wait ends well with the results of every server and without a job left.
LEMMA WaitInv ==
    ASSUME IInv, Wait
    PROVE  IInv'
  <1> USE DEF IInv, Wait, Waited, files
  <1>1. play.at = "fio" /\ play' = [play EXCEPT !.at = "pairwise", !.plane = 1, !.link = 0]
    OBVIOUS
  <1>2. Types'
    <2>1. play' = [at |-> "pairwise", exp |-> play.exp, inv |-> play.inv, run |-> play.run,
                   plane |-> 1, link |-> 0]
      BY <1>1 DEF Types
    <2>2. "pairwise" \in AfterFio /\ 1 \in 0..2 /\ 0 \in Nat
      BY DEF AfterFio
    <2> QED BY <2>1, <2>2 DEF Types
  <1>3. Playing'
    BY <1>1 DEF Types, Playing, Reporting
  <1>4. FioJobs'
    BY <1>1 DEF Types, FioJobs, AfterFio
  <1>5. OsuRound'
    BY <1>1 DEF Types, OsuRound, Planes
  <1>6. Manifests'
    BY <1>1 DEF Types, Manifests
  <1>7. Pointed' /\ Reported'
    BY DEF Pointed, Reported, Reporting
  <1> QED BY <1>2, <1>3, <1>4, <1>5, <1>6, <1>7

\* However the play ends, nothing of what it has left is lost.
LEMMA OverInv ==
    ASSUME IInv, Over, UNCHANGED <<inv, device, nextRun, jobs, files, phase7>>
    PROVE  IInv'
  <1> USE DEF IInv, Over, Idle, files
  <1>1. Types'
    BY BoundAssumption DEF Types
  <1>2. Playing' /\ FioJobs' /\ OsuRound' /\ Pointed' /\ Reported'
    BY DEF Playing, FioJobs, OsuRound, AfterFio, Pointed, Reported, Reporting
  <1>3. Manifests'
    BY DEF Manifests
  <1> QED BY <1>1, <1>2, <1>3

\* The next link of the plane is measured alone.
LEMMA PairwiseInv ==
    ASSUME IInv, Pairwise
    PROVE  IInv'
  <1> USE DEF IInv, Pairwise, files
  <1>1. /\ play.at = "pairwise" /\ play' = [play EXCEPT !.link = @ + 1]
        /\ \A p, q \in osu' : p = q
    OBVIOUS
  <1>2. Types'
    <2>1. play.link + 1 \in Nat
      BY DEF Types
    <2>2. play' = [at |-> play.at, exp |-> play.exp, inv |-> play.inv, run |-> play.run,
                   plane |-> play.plane, link |-> play.link + 1]
      BY <1>1 DEF Types
    <2> QED BY <2>1, <2>2 DEF Types
  <1>3. Playing'
    BY <1>1 DEF Types, Playing, Reporting
  <1>4. FioJobs'
    BY <1>1 DEF Types, FioJobs, AfterFio
  <1>5. OsuRound'
    BY <1>1 DEF Types, OsuRound
  <1>6. Manifests'
    BY <1>1 DEF Types, Manifests
  <1>7. Pointed' /\ Reported'
    BY DEF Pointed, Reported, Reporting
  <1> QED BY <1>2, <1>3, <1>4, <1>5, <1>6, <1>7

\* The pairs that are launched together share no node, by ZipApart.
LEMMA ConcurrentInv ==
    ASSUME IInv, Concurrent
    PROVE  IInv'
  <1> USE DEF IInv, Concurrent, At, files
  <1>1. play.at = "pairwise" /\ play' = [play EXCEPT !.at = "concurrent"]
    OBVIOUS
  <1>2. Types'
    BY <1>1 DEF Types, AfterFio
  <1>3. Playing'
    BY <1>1 DEF Types, Playing, Reporting
  <1>4. FioJobs'
    BY <1>1 DEF Types, FioJobs, AfterFio
  <1>5. OsuRound'
    <2>1. play.inv \in Inventories /\ play.plane \in 1..Len(Planes(play.inv))
      BY <1>1 DEF Playing, OsuRound
    <2>2. osu' = ZipPairs(play.inv, Planes(play.inv)[play.plane])
      BY DEF Servers
    <2>3. \A p, q \in osu' : p # q => {p[1], p[2]} \cap {q[1], q[2]} = {}
      BY <2>1, <2>2, ZipApart
    <2>4. /\ play'.at = "concurrent" /\ play'.plane = play.plane
          /\ play'.inv = play.inv
      BY <1>1 DEF Types
    <2> QED BY <2>1, <2>3, <2>4 DEF OsuRound
  <1>6. Manifests'
    BY <1>1 DEF Types, Manifests
  <1>7. Pointed' /\ Reported'
    BY DEF Pointed, Reported, Reporting
  <1> QED BY <1>2, <1>3, <1>4, <1>5, <1>6, <1>7

\* Fewer jobs share no node either.
LEMMA OsuDoneInv ==
    ASSUME IInv, NEW p \in osu, OsuDone(p)
    PROVE  IInv'
  <1> USE DEF IInv, OsuDone, files
  <1>1. Types' /\ FioJobs' /\ Manifests' /\ Pointed' /\ Reported'
    BY DEF Types, FioJobs, Manifests, Pointed, Reported, Reporting
  <1>2. Playing' /\ OsuRound'
    BY DEF Playing, OsuRound, Reporting
  <1> QED BY <1>1, <1>2

\* The metadata plane follows the first one, the manifest the last.
LEMMA JoinedInv ==
    ASSUME IInv, Joined
    PROVE  IInv'
  <1> USE DEF IInv, Joined, At, files
  <1>1. /\ play.at = "concurrent"
        /\ play.inv \in Inventories
        /\ play.plane \in 1..Len(Planes(play.inv))
        /\ Len(Planes(play.inv)) \in 1..2
    BY DEF Playing, OsuRound, Planes
  <1>2. CASE play.plane < Len(Planes(play.inv))
    <2>1. play' = [play EXCEPT !.at = "pairwise", !.plane = @ + 1, !.link = 0]
      BY <1>2
    <2>2. play.plane + 1 \in 1..Len(Planes(play.inv)) /\ play.plane + 1 \in 0..2
      <3> DEFINE n == Len(Planes(play.inv))
      <3>1. n \in 1..2 /\ play.plane \in 1..n /\ play.plane < n
        BY <1>1, <1>2
      <3> HIDE DEF n
      <3>2. play.plane + 1 \in 1..n /\ play.plane + 1 \in 0..2
        BY <3>1
      <3> QED BY <3>2 DEF n
    <2>3. /\ play' = [at |-> "pairwise", exp |-> play.exp, inv |-> play.inv,
                      run |-> play.run, plane |-> play.plane + 1, link |-> 0]
          /\ "pairwise" \in AfterFio /\ 0 \in Nat
      BY <2>1 DEF Types, AfterFio
    <2>4. Types'
      BY <2>2, <2>3 DEF Types
    <2>5. /\ play'.at = "pairwise" /\ play'.plane = play.plane + 1
          /\ play'.inv = play.inv /\ play'.run = play.run /\ play'.exp = play.exp
      BY <2>1 DEF Types
    <2>6. Playing'
      BY <1>1, <2>5 DEF Playing, Reporting
    <2>7. FioJobs'
      BY <1>1, <2>5 DEF FioJobs, AfterFio
    <2>8. OsuRound'
      BY <2>2, <2>5 DEF OsuRound
    <2>9. Manifests'
      BY <1>1, <2>5 DEF Manifests
    <2>10. Pointed' /\ Reported'
      BY DEF Pointed, Reported, Reporting
    <2> QED BY <2>4, <2>6, <2>7, <2>8, <2>9, <2>10
  <1>3. CASE ~(play.plane < Len(Planes(play.inv)))
    <2>1. play' = [play EXCEPT !.at = "manifest"]
      BY <1>3
    <2>2. Types'
      BY <2>1 DEF Types, AfterFio
    <2>3. /\ play'.at = "manifest"
          /\ play'.inv = play.inv /\ play'.run = play.run /\ play'.exp = play.exp
      BY <2>1 DEF Types
    <2>4. Playing'
      BY <1>1, <2>3 DEF Playing, Reporting
    <2>5. FioJobs'
      BY <1>1, <2>3 DEF FioJobs, AfterFio
    <2>6. OsuRound'
      BY <2>3 DEF OsuRound
    <2>7. Manifests'
      BY <1>1, <2>3 DEF Manifests
    <2>8. Pointed' /\ Reported'
      BY DEF Pointed, Reported, Reporting
    <2> QED BY <2>2, <2>4, <2>5, <2>6, <2>7, <2>8
  <1> QED BY <1>2, <1>3

\* The manifest that is opened is that of a new run: no report reads it and no
\* experiment has published it.
LEMMA OpenManifestInv ==
    ASSUME IInv, OpenManifest
    PROVE  IInv'
  <1> USE DEF IInv, OpenManifest, At
  <1>1. /\ play.at = "manifest" /\ play' = [play EXCEPT !.at = "writing"]
        /\ play.run = nextRun /\ play.run \in Runs
        /\ manifest[play.run].state = "absent"
    BY BoundAssumption DEF Types, Playing, Runs, Manifests
  <1>2. Types'
    <2>1. [Absent EXCEPT !.state = "partial"] \in Manifest
      BY DEF Absent, Manifest
    <2> QED BY <1>1, <2>1 DEF Types, AfterFio
  <1>3. /\ play'.at = "writing" /\ play'.inv = play.inv /\ play'.run = play.run
        /\ play'.exp = play.exp
        /\ manifest'[play.run].state = "partial"
        /\ \A r \in Runs : r # play.run => manifest'[r] = manifest[r]
    BY <1>1 DEF Types, Absent
  <1>4. Playing'
    BY <1>1, <1>3 DEF Playing, Reporting
  <1>5. FioJobs'
    BY <1>1, <1>3 DEF FioJobs, AfterFio
  <1>6. OsuRound'
    BY <1>1, <1>3 DEF OsuRound
  <1>7. Manifests'
    <2>1. \A r \in Runs : r > nextRun => manifest'[r].state = "absent"
      BY <1>1, <1>3 DEF Manifests, Types, Runs
    <2> QED BY <2>1, <1>1, <1>3 DEF Manifests
  <1>8. Pointed'
    BY <1>1, <1>3 DEF Pointed, Types
  <1>9. Reported'
    <2>1. Reporting => phase7.run # play.run /\ published[phase7.exp] \subseteq Runs \ {play.run}
      BY <1>1 DEF Reported, Pointed, Types
    <2> QED BY <1>3, <2>1 DEF Reported, Reporting
  <1> QED BY <1>2, <1>4, <1>5, <1>6, <1>7, <1>8, <1>9

\* What is written has the FIO results of all storage servers.
LEMMA WriteManifestInv ==
    ASSUME IInv, WriteManifest
    PROVE  IInv'
  <1> USE DEF IInv, WriteManifest, At
  <1> DEFINE m == [state |-> "complete", inv |-> play.inv, fio |-> fio,
                   pairs |-> ZipPairs(play.inv, Ds[play.inv]), derived |-> "no"]
  <1>1. /\ play.at = "writing" /\ play' = [play EXCEPT !.at = "publish"]
        /\ play.run = nextRun /\ play.run \in Runs
        /\ play.inv \in Inventories
        /\ fio = Storage(play.inv)
        /\ manifest[play.run].state = "partial"
    BY BoundAssumption DEF Types, Playing, FioJobs, AfterFio, Runs, Manifests
  <1>2. Types'
    <2>1. m \in Manifest
      BY <1>1, StorageType DEF Manifest
    <2> QED BY <1>1, <2>1 DEF Types, AfterFio
  <1>3. /\ play'.at = "publish" /\ play'.inv = play.inv /\ play'.run = play.run
        /\ play'.exp = play.exp
        /\ manifest'[play.run].state = "complete"
        /\ manifest'[play.run].inv = play.inv
        /\ manifest'[play.run].fio = fio
        /\ \A r \in Runs : r # play.run => manifest'[r] = manifest[r]
    BY <1>1 DEF Types
  <1>4. Playing'
    BY <1>1, <1>3 DEF Playing, Reporting
  <1>5. FioJobs'
    BY <1>1, <1>3 DEF FioJobs, AfterFio
  <1>6. OsuRound'
    BY <1>1, <1>3 DEF OsuRound
  <1>7. Manifests'
    <2>1. \A r \in Runs : r > nextRun => manifest'[r].state = "absent"
      BY <1>1, <1>3 DEF Manifests, Types, Runs
    <2>2. \A r \in Runs : manifest'[r].state = "complete" =>
             /\ manifest'[r].inv \in Inventories
             /\ manifest'[r].fio = Storage(manifest'[r].inv)
      BY <1>1, <1>3 DEF Manifests
    <2> QED BY <2>1, <2>2, <1>1, <1>3 DEF Manifests
  <1>8. Pointed'
    BY <1>1, <1>3 DEF Pointed, Types
  <1>9. Reported'
    <2>1. Reporting => phase7.run # play.run /\ published[phase7.exp] \subseteq Runs \ {play.run}
      BY <1>1 DEF Reported, Pointed, Types
    <2> QED BY <1>3, <2>1 DEF Reported, Reporting
  <1> QED BY <1>2, <1>4, <1>5, <1>6, <1>7, <1>8, <1>9

\* The run that is published is the last one, and complete.
LEMMA PublishInv ==
    ASSUME IInv, Publish
    PROVE  IInv'
  <1> USE DEF IInv, Publish, Over, Idle
  <1>1. /\ play.at = "publish" /\ play.exp \in Experiments
        /\ play.run = nextRun /\ play.run \in Runs
        /\ manifest[play.run].state = "complete"
        /\ Reporting => phase7.exp # play.exp
    BY BoundAssumption DEF Types, Playing, Runs, Manifests
  <1>2. Types'
    BY <1>1, BoundAssumption DEF Types, Runs
  <1>3. Playing' /\ FioJobs' /\ OsuRound' /\ Manifests'
    BY DEF Playing, FioJobs, OsuRound, AfterFio, Manifests
  <1>4. Pointed'
    <2> SUFFICES ASSUME NEW e \in Experiments
                 PROVE  /\ pointer'[e] # 0 => pointer'[e] \in published'[e]
                        /\ \A r \in published'[e] : /\ r <= nextRun /\ r <= pointer'[e]
                                                    /\ manifest[r].state = "complete"
      BY DEF Pointed
    <2>1. CASE e = play.exp
      <3>1. pointer'[e] = nextRun /\ published'[e] = published[e] \cup {nextRun}
        BY <1>1, <2>1 DEF Types
      <3>2. nextRun <= nextRun
        BY DEF Types
      <3> QED BY <1>1, <3>1, <3>2 DEF Pointed
    <2>2. CASE e # play.exp
      <3>1. pointer'[e] = pointer[e] /\ published'[e] = published[e]
        BY <2>2 DEF Types
      <3> QED BY <3>1 DEF Pointed
    <2> QED BY <2>1, <2>2
  <1>5. Reported'
    BY <1>1 DEF Reported, Reporting, Types
  <1> QED BY <1>2, <1>3, <1>4, <1>5

-----------------------------------------------------------------------------
(* Phase 7 and the environment.                                            *)

\* A selected run is complete, of the inventory, and as new as what the
\* experiment has published: its pointer is the last, and so is the CHOOSE.
LEMMA SelectedLast ==
    ASSUME IInv, NEW e \in Experiments, SelectManifest(e) # 0
    PROVE  LET r == SelectManifest(e)
           IN /\ r \in Runs
              /\ manifest[r].state = "complete"
              /\ manifest[r].inv = inv[e]
              /\ \A s \in published[e] : manifest[s].inv = inv[e] => s <= r
  <1> DEFINE r == SelectManifest(e)
  <1>1. CASE PointerUsable(e) /\ manifest[pointer[e]].inv = inv[e]
    <2>1. r = pointer[e] /\ pointer[e] \in Runs
      BY <1>1 DEF SelectManifest, PointerUsable, IInv, Types, Runs
    <2>2. manifest[pointer[e]].state = "complete"
      BY <1>1, <2>1 DEF IInv, Pointed, PointerUsable
    <2> QED BY <1>1, <2>1, <2>2 DEF IInv, Pointed
  <1>2. CASE ~(PointerUsable(e) /\ manifest[pointer[e]].inv = inv[e])
    <2> DEFINE S == Matching(e)
    <2>1. S # {} /\ r = CHOOSE m \in S : \A s \in S : s <= m
      BY <1>2 DEF SelectManifest
    <2>2. S \in SUBSET Runs
      BY DEF Matching
    <2>3. \E m \in S : \A s \in S : s <= m
      <3> HIDE DEF S
      <3> QED BY <2>1, <2>2, LastRun
    <2>4. r \in S /\ \A s \in S : s <= r
      <3> HIDE DEF S, r
      <3> QED BY <2>1, <2>3
    <2>5. \A s \in published[e] : manifest[s].inv = inv[e] => s \in S
      BY DEF IInv, Types, Pointed, Matching
    <2> QED BY <2>4, <2>5 DEF Matching
  <1> QED BY <1>1, <1>2

\* The report starts with what it has found, or fails.
LEMMA SelectInv ==
    ASSUME IInv, NEW e \in Experiments, Select(e)
    PROVE  IInv'
  <1> DEFINE r == SelectManifest(e)
  <1> USE DEF IInv, phase6, files
  <1>1. /\ UNCHANGED <<inv, device, nextRun, play, jobs, fio, osu>>
        /\ UNCHANGED <<manifest, pointer, published>>
        /\ play.exp # e
    BY DEF Select
  <1>2. FioJobs' /\ OsuRound' /\ Manifests' /\ Pointed'
    BY <1>1 DEF FioJobs, OsuRound, Manifests, Pointed
  <1>3. Absent \in Manifest /\ inv[e] \in Inventories
    BY DEF Absent, Manifest, Types
  <1>4. CASE r = 0
    <2>1. phase7' = [at |-> "failed", exp |-> e, inv |-> "none", run |-> 0, data |-> Absent]
      BY <1>4 DEF Select, NoReport
    <2>2. Types'
      BY <1>1, <1>3, <2>1, BoundAssumption DEF Types
    <2>3. Playing' /\ Reported'
      BY <1>1, <2>1 DEF Playing, Reported, Reporting
    <2> QED BY <1>2, <2>2, <2>3
  <1>5. CASE r # 0
    <2>1. phase7' = [at |-> "render", exp |-> e, inv |-> inv[e], run |-> r, data |-> Absent]
      BY <1>5 DEF Select, NoReport
    <2>2. /\ r \in Runs
          /\ manifest[r].state = "complete"
          /\ manifest[r].inv = inv[e]
          /\ \A s \in published[e] : manifest[s].inv = inv[e] => s <= r
      BY <1>5, SelectedLast
    <2>3. Types'
      BY <1>1, <1>3, <2>1, <2>2, BoundAssumption DEF Types, Runs
    <2>4. Playing'
      BY <1>1, <2>1 DEF Playing, Reporting
    <2>5. Reported'
      BY <1>1, <2>1, <2>2 DEF Reported, Reporting
    <2> QED BY <1>2, <2>3, <2>4, <2>5
  <1> QED BY <1>4, <1>5

\* The report holds a copy of the manifest from here on.
LEMMA RenderInv ==
    ASSUME IInv, Render
    PROVE  IInv'
  <1> USE DEF IInv, Render, phase6, files
  <1>1. /\ phase7.at = "render"
        /\ phase7' = [phase7 EXCEPT !.at = "save", !.data = manifest[phase7.run]]
        /\ phase7.run \in Runs
        /\ manifest[phase7.run].state = "complete"
    BY DEF Reported, Reporting
  <1>2. phase7' = [at |-> "save", exp |-> phase7.exp, inv |-> phase7.inv,
                   run |-> phase7.run, data |-> manifest[phase7.run]]
    BY <1>1 DEF Types
  <1>3. Types'
    BY <1>1, <1>2 DEF Types
  <1>4. FioJobs' /\ OsuRound' /\ Manifests' /\ Pointed'
    BY DEF FioJobs, OsuRound, Manifests, Pointed
  <1>5. Playing'
    BY <1>1, <1>2 DEF Playing, Reporting
  <1>6. Reported'
    BY <1>1, <1>2 DEF Reported, Reporting
  <1> QED BY <1>3, <1>4, <1>5, <1>6

\* What replaces a manifest differs from it in the derived values only.
LEMMA SaveKeeps ==
    ASSUME IInv, Save
    PROVE  /\ phase7.run \in Runs
           /\ manifest[phase7.run].state = "complete"
           /\ manifest'[phase7.run] \in Manifest
           /\ \A r \in Runs : r # phase7.run => manifest'[r] = manifest[r]
           /\ \A r \in Runs : /\ manifest'[r].state = manifest[r].state
                              /\ manifest'[r].inv = manifest[r].inv
                              /\ manifest'[r].fio = manifest[r].fio
                              /\ manifest'[r].pairs = manifest[r].pairs
  <1>1. /\ phase7.at = "save"
        /\ manifest' = [manifest EXCEPT ![phase7.run] = [phase7.data EXCEPT !.derived = "yes"]]
    BY DEF Save
  <1>2. /\ phase7.run \in Runs
        /\ manifest[phase7.run].state = "complete"
        /\ phase7.data.state = "complete"
        /\ phase7.data.inv = manifest[phase7.run].inv
        /\ phase7.data.fio = manifest[phase7.run].fio
        /\ phase7.data.pairs = manifest[phase7.run].pairs
    BY <1>1 DEF IInv, Reported, Reporting
  <1>3. phase7.data \in Manifest
    BY DEF IInv, Types
  <1> DEFINE d == [phase7.data EXCEPT !.derived = "yes"]
  <1>4. /\ d \in Manifest
        /\ d.state = phase7.data.state /\ d.inv = phase7.data.inv
        /\ d.fio = phase7.data.fio /\ d.pairs = phase7.data.pairs
    BY <1>3 DEF Manifest
  <1>5. /\ manifest'[phase7.run] = d
        /\ \A r \in Runs : r # phase7.run => manifest'[r] = manifest[r]
    BY <1>1, <1>2 DEF IInv, Types
  <1> HIDE DEF d
  <1> QED BY <1>2, <1>4, <1>5

\* The manifest of a report is replaced as a whole.
LEMMA SaveInv ==
    ASSUME IInv, Save
    PROVE  IInv'
  <1>1. /\ phase7.run \in Runs
        /\ manifest'[phase7.run] \in Manifest
        /\ \A r \in Runs : r # phase7.run => manifest'[r] = manifest[r]
        /\ \A r \in Runs : /\ manifest'[r].state = manifest[r].state
                           /\ manifest'[r].inv = manifest[r].inv
                           /\ manifest'[r].fio = manifest[r].fio
    BY SaveKeeps
  <1>2. /\ phase7' = [phase7 EXCEPT !.at = "done", !.data = Absent]
        /\ UNCHANGED <<inv, device, nextRun, play, jobs, fio, osu, pointer, published>>
        /\ DOMAIN manifest' = DOMAIN manifest
        /\ manifest' = [r \in Runs |-> manifest'[r]]
    BY DEF Save, phase6, IInv, Types
  <1>3. phase7'.at = "done"
    BY <1>2 DEF IInv, Types
  <1>4. Types'
    <2>1. manifest' \in [Runs -> Manifest]
      <3>1. \A r \in Runs : manifest'[r] \in Manifest
        BY <1>1 DEF IInv, Types
      <3> QED BY <1>2, <3>1
    <2>2. Absent \in Manifest
      BY DEF Absent, Manifest
    <2> QED BY <1>2, <2>1, <2>2 DEF IInv, Types
  <1>5. Playing' /\ FioJobs' /\ OsuRound' /\ Reported'
    BY <1>2, <1>3 DEF IInv, Playing, FioJobs, OsuRound, Reported, Reporting
  <1>6. Manifests'
    <2>1. play.at # "idle" => play.run \in Runs
      BY BoundAssumption DEF IInv, Types, Playing, Runs
    <2> QED BY <1>1, <1>2, <2>1 DEF IInv, Manifests
  <1>7. Pointed'
    <2>1. \A e \in Experiments : published[e] \subseteq Runs
      BY DEF IInv, Types
    <2> QED BY <1>1, <1>2, <2>1 DEF IInv, Pointed
  <1> QED BY <1>4, <1>5, <1>6, <1>7 DEF IInv

\* A report that fails leaves every file as it is.
LEMMA ReportFailsInv ==
    ASSUME IInv, ReportFails
    PROVE  IInv'
  <1> USE DEF IInv, ReportFails, phase6, files
  <1>1. phase7' = [at |-> "failed", exp |-> phase7.exp, inv |-> "none", run |-> 0,
                   data |-> Absent]
    BY DEF NoReport
  <1>2. Types'
    BY <1>1, BoundAssumption DEF Types, Absent, Manifest
  <1>3. FioJobs' /\ OsuRound' /\ Manifests' /\ Pointed'
    BY DEF FioJobs, OsuRound, Manifests, Pointed
  <1>4. Playing' /\ Reported'
    BY <1>1 DEF Playing, Reported, Reporting
  <1> QED BY <1>2, <1>3, <1>4

\* An inventory is edited while nothing of its experiment runs.
LEMMA EditInv ==
    ASSUME IInv, NEW e \in Experiments, Edit(e)
    PROVE  IInv'
  <1> USE DEF IInv, Edit, phase6, files
  <1>1. phase7' = [at |-> "idle", exp |-> "none", inv |-> "none", run |-> 0, data |-> Absent]
    BY DEF NoReport
  <1>2. Types'
    BY <1>1, BoundAssumption DEF Types, Absent, Manifest
  <1>3. FioJobs' /\ OsuRound' /\ Manifests' /\ Pointed'
    BY DEF FioJobs, OsuRound, Manifests, Pointed
  <1>4. Playing' /\ Reported'
    BY <1>1 DEF Playing, Reported, Reporting
  <1> QED BY <1>2, <1>3, <1>4

\* The disks change hands between two plays only.
LEMMA ClaimInv ==
    ASSUME IInv, NEW n \in Claimable, Claim(n)
    PROVE  IInv'
  <1> USE DEF IInv, Claim, files
  <1>1. Types'
    BY DEF Types
  <1>2. FioJobs' /\ OsuRound' /\ Manifests' /\ Pointed' /\ Reported'
    BY DEF FioJobs, OsuRound, Manifests, Pointed, Reported, Reporting
  <1>3. Playing'
    BY DEF Playing
  <1> QED BY <1>1, <1>2, <1>3

-----------------------------------------------------------------------------
(* The theorems.                                                           *)

LEMMA NextInv == IInv /\ [Next]_vars => IInv'
  <1> SUFFICES ASSUME IInv, [Next]_vars PROVE IInv'
    OBVIOUS
  <1>1. CASE Phase6Step
    <2>1. CASE \E e \in Experiments : Preflight(e)
      BY <2>1, PreflightInv
    <2>2. CASE \E n \in Nodes, r \in Runs : FioDone(n, r) \/ FioFails(n, r)
      BY <2>2, FioInv
    <2>3. CASE Launch \/ Wait \/ Pairwise \/ Concurrent \/ Joined
      BY <2>3, LaunchInv, WaitInv, PairwiseInv, ConcurrentInv, JoinedInv
    <2>4. CASE \E p \in osu : OsuDone(p)
      BY <2>4, OsuDoneInv
    <2>5. CASE WaitFails \/ OsuFails \/ Interrupt
      BY <2>5, OverInv DEF WaitFails, OsuFails, Interrupt
    <2>6. CASE OpenManifest \/ WriteManifest \/ Publish
      BY <2>6, OpenManifestInv, WriteManifestInv, PublishInv
    <2> QED BY <1>1, <2>1, <2>2, <2>3, <2>4, <2>5, <2>6 DEF Phase6Step
  <1>2. CASE Phase7Step
    BY <1>2, SelectInv, RenderInv, SaveInv, ReportFailsInv DEF Phase7Step
  <1>3. CASE (\E e \in Experiments : Edit(e)) \/ (\E n \in Claimable : Claim(n))
    BY <1>3, EditInv, ClaimInv
  <1>4. CASE UNCHANGED vars
    <2>1. Types' /\ FioJobs' /\ Manifests' /\ Pointed' /\ Reported'
      BY <1>4 DEF vars, IInv, Types, FioJobs, Manifests, Pointed, Reported, Reporting
    <2>2. Playing' /\ OsuRound'
      BY <1>4 DEF vars, IInv, Playing, OsuRound, Reporting
    <2> QED BY <2>1, <2>2 DEF IInv
  <1> QED BY <1>1, <1>2, <1>3, <1>4 DEF Next

\* IInv holds in every reachable state of the two playbooks.
LEMMA Always == Spec => []IInv
  <1> QED BY InitInv, NextInv, PTL DEF Spec

\* The OSU jobs are between nodes.
LEMMA OsuStep ==
  ASSUME IInv, osu \subseteq Nodes \X Nodes, [Next]_vars
  PROVE  osu' \subseteq Nodes \X Nodes
  <1>1. CASE Pairwise
    <2>1. play.inv \in Inventories /\ play.plane \in 1..Len(Planes(play.inv))
      BY <1>1 DEF Pairwise, IInv, Playing, OsuRound
    <2>2. Servers \in Seq(Nodes) /\ Len(Servers) > 0
      BY <2>1, PlaneType DEF Servers
    <2>3. Links(play.inv, Servers) \in Seq(Nodes \X Nodes)
      BY <2>1, <2>2, LinksType
    <2>4. /\ play.link \in Nat /\ play.link < Len(Links(play.inv, Servers))
          /\ osu' = {Links(play.inv, Servers)[play.link + 1]}
      BY <1>1 DEF Pairwise, IInv, Types
    <2> HIDE DEF Servers
    <2>5. play.link + 1 \in 1..Len(Links(play.inv, Servers))
      BY <2>3, <2>4
    <2> QED BY <2>3, <2>4, <2>5
  <1>2. CASE Concurrent
    <2>1. play.inv \in Inventories /\ play.plane \in 1..Len(Planes(play.inv))
      BY <1>2 DEF Concurrent, IInv, Playing, OsuRound
    <2>2. Servers \in Seq(Nodes)
      BY <2>1, PlaneType DEF Servers
    <2>3. Clients[play.inv] \in Seq(Nodes)
      BY <2>1, TopologyAssumption
    <2>4. osu' = ZipPairs(play.inv, Servers)
      BY <1>2 DEF Concurrent
    <2> QED BY <2>2, <2>3, <2>4 DEF ZipPairs
  <1>3. osu' \subseteq osu \/ Pairwise \/ Concurrent
    BY DEF Next, Phase6Step, Phase7Step, Preflight, Launch, FioDone, FioFails, Wait,
           WaitFails, OsuDone, Joined, OsuFails, OpenManifest, WriteManifest, Publish,
           Interrupt, Over, Select, Render, Save, ReportFails, Edit, Claim, phase6, vars
  <1> QED BY <1>1, <1>2, <1>3

\* Type correctness of the baseline, for any nodes, inventories and runs: every
\* link that measure.py measures is between two nodes.
THEOREM AlwaysTyped == Spec => []TypeOK
  <1> DEFINE Inv == IInv /\ osu \subseteq Nodes \X Nodes
  <1>1. Init => Inv
    BY InitInv DEF Init
  <1>2. Inv /\ [Next]_vars => Inv'
    BY NextInv, OsuStep
  <1>3. Inv => TypeOK
    BY DEF IInv, Types, AfterFio, TypeOK
  <1> HIDE DEF Inv
  <1> QED BY <1>1, <1>2, <1>3, PTL DEF Spec

\* While FIO jobs of a running play exist, the disks of all of its storage servers
\* are nobody's, however plays were interrupted before it (test.yaml:25-30).
THEOREM AllRawAlways == Spec => []AllRawBeforeWrites
  <1>1. IInv => AllRawBeforeWrites
    BY DEF IInv, Playing, AllRawBeforeWrites
  <1> QED BY <1>1, Always, PTL

\* OSU jobs that run together share no node and run after the play's FIO jobs, for
\* clients and servers of any number (measure.py:113-125).
THEOREM AloneAlways == Spec => []MeasuredAlone
  <1>1. IInv => MeasuredAlone
    BY DEF IInv, OsuRound, FioJobs, AfterFio, MeasuredAlone
  <1> QED BY <1>1, Always, PTL

\* A report never shows an incomplete baseline, one of other groups, or one older
\* than what its experiment has published (report.py:161-177).
THEOREM LastReported == Spec => []ReportsLast
  <1>1. IInv => ReportsLast
    BY DEF IInv, Reported, Reporting, Manifests, ReportsLast
  <1> QED BY <1>1, Always, PTL

\* No step of a play or of a report changes the samples of a complete manifest
\* (report.py:317-320 and measure.py's new directory for each run).
THEOREM SamplesAlwaysKept == Spec => SamplesKept
  <1> DEFINE Kept == \A r \in Runs : manifest[r].state = "complete" =>
                       /\ manifest'[r].state = "complete"
                       /\ manifest'[r].inv = manifest[r].inv
                       /\ manifest'[r].fio = manifest[r].fio
                       /\ manifest'[r].pairs = manifest[r].pairs
  <1>1. IInv /\ [Next]_vars => [Kept]_vars
    <2> SUFFICES ASSUME IInv, Next PROVE Kept
      OBVIOUS
    <2>1. CASE OpenManifest \/ WriteManifest
      <3>1. manifest[play.run].state # "complete"
        BY <2>1 DEF IInv, Manifests, OpenManifest, WriteManifest
      <3>2. \A r \in Runs : r # play.run => manifest'[r] = manifest[r]
        BY <2>1 DEF IInv, Types, OpenManifest, WriteManifest
      <3> QED BY <3>1, <3>2
    <2>2. CASE Save
      BY <2>2, SaveKeeps
    <2>3. CASE UNCHANGED manifest
      BY <2>3
    <2>4. (OpenManifest \/ WriteManifest) \/ Save \/ UNCHANGED manifest
      BY DEF Next, Phase6Step, Phase7Step, Preflight, Launch, FioDone, FioFails, Wait,
             WaitFails, Pairwise, Concurrent, OsuDone, Joined, OsuFails, Publish, Interrupt,
             Select, Render, ReportFails, Edit, Claim, files
    <2> QED BY <2>1, <2>2, <2>3, <2>4
  <1> QED BY <1>1, Always, PTL DEF Spec, SamplesKept

-------------------------------------------------------------------------------
(* The VMs of phase 3: Mvpnet, for any inventories, jobs and faults.  The  *)
(* lemmas are about one step of the phase, its jobs and its users.         *)

LEMMA MvpSamePlace ==
    UNCHANGED place => UNCHANGED <<PhysicalHosts, VMs>>
  BY DEF PhysicalHosts, VMs

LEMMA MvpInitially == MvpInit => MvpIInv
  <1> SUFFICES ASSUME MvpInit PROVE MvpIInv
    OBVIOUS
  <1>1. MvpTypeOK
    BY DEF MvpInit, MvpTypeOK, Nobody
  <1>2. WellPlaced
    BY MvpnetAssumption DEF MvpInit, WellPlaced, PhysicalHosts
  <1> QED
    BY <1>1, <1>2 DEF MvpInit, MvpIInv, OneLive, Live, Quiet,
        Tracked, Cleared, Mine, Created

LEMMA MvpTypes ==
    ASSUME MvpTypeOK, WellPlaced, [MvpNext]_mvpVars
    PROVE  MvpTypeOK' /\ WellPlaced'
  <1> USE DEF background, outputs, playing, Nobody
  <1>0. UNCHANGED place
    BY DEF MvpNext, mvpVars, Start, Fail, PlayStep, BuildFails,
        JobStep, Stat, Kill, RemovePid, Wipe, WipeDisks,
        MakeDirs, Build, EndBuild, StartMvpnet, Seen, TimeOut,
        ShellDone, Crash, Die, RankRuns
  <1>1. UNCHANGED <<PhysicalHosts, VMs>>
    BY <1>0, MvpSamePlace
  <1> DEFINE Typed == MvpTypeOK' /\ todo' \in [PhysicalHosts -> Seq(VMs)]
  <1>2. SUFFICES Typed
    BY <1>0, <1>1 DEF WellPlaced
  <1> USE <1>0, <1>1 DEF MvpTypeOK, WellPlaced, Goto, EndRun, Fault
  <1>3. CASE UNCHANGED mvpVars
    BY <1>3 DEF mvpVars
  <1>4. ASSUME NEW o \in {"create", "clean"}, Start(o) PROVE Typed
    <2>1. \A h \in PhysicalHosts : place[h] \in Seq(VMs)
      BY DEF VMs, PhysicalHosts, Range
    <2>2. todo' \in [PhysicalHosts -> Seq(VMs)]
      BY <1>4, <2>1 DEF Start, PhysicalHosts
    <2> QED BY <1>4, <2>2 DEF Start
  <1>5. CASE Fail
    BY <1>5 DEF Fail
  <1>6. CASE Stat \/ Kill \/ RemovePid
    BY <1>6 DEF Stat, Kill, RemovePid
  <1>7. CASE Wipe
    BY <1>7 DEF Wipe, Proceed
  <1>8. CASE WipeDisks
    BY <1>8 DEF WipeDisks, Proceed
  <1>9. CASE MakeDirs
    BY <1>9 DEF MakeDirs
  <1>10. ASSUME NEW h \in PhysicalHosts, Build(h) \/ BuildFails(h) PROVE Typed
    <2>1. todo[h] \in Seq(VMs) /\ todo[h] # << >>
      BY <1>10 DEF Build, BuildFails, Building
    <2>2. Head(todo[h]) \in VMs /\ Tail(todo[h]) \in Seq(VMs)
      BY <2>1
    <2> QED BY <1>10, <2>2 DEF Build, BuildFails
  <1>11. CASE EndBuild \/ Seen \/ TimeOut
    BY <1>11 DEF EndBuild, Seen, TimeOut
  <1>12. ASSUME NEW j \in Jobs, StartMvpnet(j) PROVE Typed
    BY <1>12 DEF StartMvpnet
  <1>13. ASSUME NEW j \in Jobs, ShellDone(j) PROVE Typed
    BY <1>13 DEF ShellDone
  <1>14. ASSUME NEW j \in Jobs, Crash(j) \/ Die(j) PROVE Typed
    BY <1>14 DEF Crash, Die
  <1>15. ASSUME NEW j \in Jobs, NEW v \in VMs, RankRuns(j, v) PROVE Typed
    BY <1>15 DEF RankRuns
  <1> QED
    BY <1>3, <1>4, <1>5, <1>6, <1>7, <1>8, <1>9, <1>10, <1>11, <1>12, <1>13, <1>14,
       <1>15 DEF MvpNext, PlayStep, JobStep

\* The jobs: at most one may still be counted on, and the pid file names the one that runs.
LEMMA MvpJobs ==
    ASSUME MvpIInv, [MvpNext]_mvpVars
    PROVE  (OneLive /\ Quiet /\ Tracked /\ Cleared)'
  <1> DEFINE Kept == (OneLive /\ Quiet /\ Tracked /\ Cleared)'
  <1>1. 1 \in PhysicalHosts
    BY DEF MvpIInv, WellPlaced, PhysicalHosts
  <1> USE DEF MvpIInv, MvpTypeOK, OneLive, Live, Quiet, Tracked,
        Cleared, background, outputs, playing, Nobody, Goto, EndRun
  <1>3. CASE UNCHANGED mvpVars
    BY <1>3 DEF mvpVars
  <1>4. ASSUME NEW o \in {"create", "clean"}, Start(o) PROVE Kept
    BY <1>4 DEF Start, Settled
  <1>5. CASE Fail
    BY <1>5 DEF Fail
  <1>6. CASE Stat
    BY <1>6 DEF Stat
  <1>16. CASE Kill
    BY <1>16 DEF Kill
  <1>17. CASE RemovePid
    BY <1>17 DEF RemovePid
  <1>7. CASE Wipe
    BY <1>1, <1>7 DEF Wipe, Proceed
  <1>8. CASE WipeDisks
    BY <1>8 DEF WipeDisks, Proceed
  <1>9. CASE MakeDirs
    BY <1>9 DEF MakeDirs
  <1>10. ASSUME NEW h \in PhysicalHosts, Build(h) \/ BuildFails(h) PROVE Kept
    BY <1>10 DEF Build, BuildFails, Building
  <1>11. CASE EndBuild \/ Seen \/ TimeOut
    BY <1>11 DEF EndBuild, Seen, TimeOut
  <1>12. ASSUME NEW j \in Jobs, StartMvpnet(j) PROVE Kept
    BY <1>12 DEF StartMvpnet
  <1>13. ASSUME NEW j \in Jobs, ShellDone(j) PROVE Kept
    BY <1>13 DEF ShellDone
  <1>14. ASSUME NEW j \in Jobs, Crash(j) \/ Die(j) PROVE Kept
    BY <1>14 DEF Crash, Die
  <1>15. ASSUME NEW j \in Jobs, NEW v \in VMs, RankRuns(j, v) PROVE Kept
    BY <1>15 DEF RankRuns, CanRun
  <1> QED
    BY <1>3, <1>4, <1>5, <1>6, <1>7, <1>8, <1>9, <1>10, <1>11, <1>12, <1>13, <1>14,
       <1>15, <1>16, <1>17 DEF MvpNext, PlayStep, JobStep

\* "-ge num_vms" lines of one job are a line of each VM (the wait of phase 3).
LEMMA MvpAllSeen ==
    ASSUME WellPlaced, NEW j,
           log \subseteq {j} \X VMs, Cardinality(log) >= Cardinality(VMs)
    PROVE  log = {j} \X VMs /\ VMs # {}
  <1> DEFINE seen == {v \in VMs : <<j, v>> \in log}
  <1>1. VMs \subseteq VMNames
    BY DEF VMs, WellPlaced, PhysicalHosts, Range
  <1>2. IsFiniteSet(VMs)
    BY <1>1, FS_Subset DEF WellPlaced
  <1>3. PICK h \in PhysicalHosts : place[h] # << >>
    BY DEF WellPlaced
  <1>4. place[h] \in Seq(VMNames) /\ 1 \in DOMAIN place[h]
    BY <1>3 DEF WellPlaced, PhysicalHosts
  <1>5. place[h][1] \in VMs
    BY <1>4 DEF VMs, Range
  <1>6. seen \subseteq VMs /\ IsFiniteSet(seen)
    BY <1>2, FS_Subset
  <1> DEFINE f == [v \in seen |-> <<j, v>>]
  <1>7. f \in Surjection(seen, log)
    BY DEF Surjection
  <1>8. Cardinality(log) <= Cardinality(seen) /\ IsFiniteSet(log)
    BY <1>6, <1>7, FS_Surjection
  <1>9. Cardinality(seen) \in Nat /\ Cardinality(log) \in Nat /\ Cardinality(VMs) \in Nat
    BY <1>2, <1>6, <1>8, FS_CardinalityType
  <1>10. seen = VMs
    <2>1. Cardinality(seen) = Cardinality(VMs)
      <3>1. Cardinality(seen) <= Cardinality(VMs)
        BY <1>2, <1>6, FS_Subset
      <3> QED BY <3>1, <1>8, <1>9
    <2> QED BY <2>1, <1>2, <1>6, FS_Subset, Zenon
  <1> QED BY <1>5, <1>10

\* The run that waits: whatever lines it counts are those of the job it has started.
LEMMA MvpMine ==
    ASSUME MvpIInv, [MvpNext]_mvpVars
    PROVE  Mine'
  <1> USE DEF MvpIInv, MvpTypeOK, OneLive, Live, Quiet, Tracked,
        Cleared, Mine, background, outputs, playing, Nobody, Goto, EndRun
  <1>3. CASE UNCHANGED mvpVars
    BY <1>3, MvpSamePlace DEF mvpVars
  <1>4. ASSUME NEW o \in {"create", "clean"}, Start(o) PROVE Mine'
    BY <1>4 DEF Start
  <1>5. CASE Fail
    BY <1>5 DEF Fail
  <1>6. CASE Stat \/ Kill \/ RemovePid
    BY <1>6 DEF Stat, Kill, RemovePid
  <1>7. CASE Wipe \/ WipeDisks \/ MakeDirs
    BY <1>7 DEF Wipe, WipeDisks, MakeDirs, Proceed
  <1>10. ASSUME NEW h \in PhysicalHosts, Build(h) \/ BuildFails(h) PROVE Mine'
    BY <1>10 DEF Build, BuildFails, Building
  <1>11. CASE EndBuild \/ Seen \/ TimeOut
    BY <1>11 DEF EndBuild, Seen, TimeOut
  <1>12. ASSUME NEW j \in Jobs, StartMvpnet(j) PROVE Mine'
    BY <1>12 DEF StartMvpnet
  <1>13. ASSUME NEW j \in Jobs, ShellDone(j) PROVE Mine'
    BY <1>13, MvpSamePlace DEF ShellDone
  <1>14. ASSUME NEW j \in Jobs, Crash(j) \/ Die(j) PROVE Mine'
    BY <1>14, MvpSamePlace DEF Crash, Die
  <1>15. ASSUME NEW j \in Jobs, NEW v \in VMs, RankRuns(j, v) PROVE Mine'
    BY <1>15, MvpSamePlace DEF RankRuns, CanRun
  <1> QED
    BY <1>3, <1>4, <1>5, <1>6, <1>7, <1>10, <1>11, <1>12, <1>13, <1>14,
       <1>15 DEF MvpNext, PlayStep, JobStep

\* A run that ended well keeps the job it has started until the next run.
LEMMA MvpCreated ==
    ASSUME MvpIInv, [MvpNext]_mvpVars
    PROVE  Created'
  <1> USE DEF MvpIInv, MvpTypeOK, Tracked, Created, Settled, background,
        outputs, playing, Nobody, Goto, EndRun
  <1>3. CASE UNCHANGED mvpVars
    BY <1>3, MvpSamePlace DEF mvpVars
  <1>4. ASSUME NEW o \in {"create", "clean"}, Start(o) PROVE Created'
    BY <1>4 DEF Start
  <1>5. CASE Fail
    BY <1>5 DEF Fail
  <1>6. CASE Stat \/ Kill \/ RemovePid
    BY <1>6 DEF Stat, Kill, RemovePid
  <1>7. CASE Wipe \/ WipeDisks \/ MakeDirs
    BY <1>7 DEF Wipe, WipeDisks, MakeDirs, Proceed
  <1>10. ASSUME NEW h \in PhysicalHosts, Build(h) \/ BuildFails(h) PROVE Created'
    BY <1>10 DEF Build, BuildFails, Building
  <1>11. CASE EndBuild \/ TimeOut
    BY <1>11 DEF EndBuild, TimeOut
  <1>16. CASE Seen
    <2>1. PICK j \in Jobs :
            /\ \A k \in Jobs : Live(k) => k = j
            /\ log \subseteq {j} \X VMs
            /\ log # {} => /\ pid = {j}
                           /\ \/ proc[j] = "crashed"
                              \/ proc[j] = "up" /\ \A v \in VMs : <<j, v>> \in log => v \in up[j]
      BY <1>16 DEF Seen, Mine
    <2>2. log = {j} \X VMs /\ VMs # {}
      <3>1. Cardinality(log) >= Cardinality(VMs)
        BY <1>16 DEF Seen
      <3> QED BY <2>1, <3>1, MvpAllSeen
    <2>3. log # {} /\ \A v \in VMs : <<j, v>> \in log
      <3> PICK v \in VMs : TRUE
        BY <2>2
      <3>1. <<j, v>> \in log /\ \A w \in VMs : <<j, w>> \in log
        BY <2>2
      <3> QED BY <3>1
    <2>4. pid = {j} /\ (proc[j] = "crashed" \/ (proc[j] = "up" /\ up[j] = VMs))
      <3>1. up[j] \subseteq VMs
        OBVIOUS
      <3>2. VMs \subseteq up[j] \/ proc[j] = "crashed"
        BY <2>1, <2>3
      <3>3. proc[j] = "crashed" \/ up[j] = VMs
        BY <3>1, <3>2
      <3> QED BY <2>1, <2>3, <3>3
    <2>5. \A k \in Jobs : proc[k] # "shell"
      BY <2>1, <2>4 DEF Live
    <2> QED BY <1>16, <2>4, <2>5, MvpSamePlace DEF Seen
  <1>12. ASSUME NEW j \in Jobs, StartMvpnet(j) PROVE Created'
    BY <1>12 DEF StartMvpnet
  <1>13. ASSUME NEW j \in Jobs, ShellDone(j) PROVE Created'
    BY <1>13, MvpSamePlace DEF ShellDone
  <1>14. ASSUME NEW j \in Jobs, Crash(j) \/ Die(j) PROVE Created'
    BY <1>14, MvpSamePlace DEF Crash, Die
  <1>15. ASSUME NEW j \in Jobs, NEW v \in VMs, RankRuns(j, v) PROVE Created'
    BY <1>15, MvpSamePlace DEF RankRuns, CanRun
  <1> QED
    BY <1>3, <1>4, <1>5, <1>6, <1>7, <1>10, <1>11, <1>12, <1>13, <1>14,
       <1>15, <1>16 DEF MvpNext, PlayStep, JobStep

LEMMA MvpInvariant == MvpSpec => []MvpIInv
  <1>1. MvpInit => MvpIInv
    BY MvpInitially
  <1>2. MvpIInv /\ [MvpNext]_mvpVars => MvpIInv'
    BY MvpTypes, MvpJobs, MvpMine, MvpCreated DEF MvpIInv
  <1> QED BY <1>1, <1>2, PTL DEF MvpSpec

\* The state of phase 3 stays well typed, for any inventories and jobs; without a work
\* directory there is no pid file and no log.
THEOREM MvpTyped == MvpSpec => []MvpTypeOK
  <1>1. MvpIInv => MvpTypeOK
    BY DEF MvpIInv
  <1> QED BY <1>1, MvpInvariant, PTL

\* An mpirun that has not been told to stop is always the one in the pid file, whatever
\* runs were interrupted and tasks failed: the next run's kill (Stat, Kill) finds it.
THEOREM JobsAreTracked == MvpSpec => []Tracked
  <1>1. MvpIInv => Tracked
    BY DEF MvpIInv
  <1> QED BY <1>1, MvpInvariant, PTL

\* A run that ends well has started every VM under one mpirun, which only a crash ends:
\* the lines it counted (Seen) were never those of an earlier job.
THEOREM CreatedMeansRunning == MvpSpec => []CreatedRuns
  <1>1. MvpIInv => CreatedRuns
    BY DEF MvpIInv, Created, CreatedRuns
  <1> QED BY <1>1, MvpInvariant, PTL

-----------------------------------------------------------------------------
(* Phase 7: the estimates and the comparisons of Report *)

\* The library's sum takes the elements of a set in the order that CHOOSE gives.
OneOf(s) == CHOOSE x \in s : TRUE
Sums(g, f, S) == g = [s \in SUBSET S |-> IF s = {} THEN 0 ELSE f[OneOf(s)] + g[s \ {OneOf(s)}]]

\* The sum of the community modules (SumFunctionOnSet) is the value at S of a
\* function that satisfies its recursive equation, if one does.
LEMMA SumIs ==
  ASSUME NEW f, NEW S
  PROVE  SumFunctionOnSet(f, S) = (CHOOSE g : Sums(g, f, S))[S]
  BY Zenon DEF SumFunctionOnSet, FoldFunctionOnSet, MapThenFoldSet, Sums, OneOf

\* The element that is taken first is one of the set.
LEMMA OneOfIn == ASSUME NEW s, s # {} PROVE OneOf(s) \in s
  BY DEF OneOf

\* A function that satisfies the equation exists: it is built for sets of one
\* more element at a time.
LEMMA SumsExist ==
  ASSUME NEW f, NEW S, IsFiniteSet(S)
  PROVE  \E g : Sums(g, f, S)
  <1> DEFINE Upto(k) == {s \in SUBSET S : Cardinality(s) <= k}
             Part(g, k) == g = [s \in Upto(k) |->
                                  IF s = {} THEN 0 ELSE f[OneOf(s)] + g[s \ {OneOf(s)}]]
             Bad == {k \in Nat : ~ \E g : Part(g, k)}
  <1>1. \A s \in SUBSET S : IsFiniteSet(s) /\ Cardinality(s) \in Nat
    BY FS_Subset, FS_CardinalityType
  <1>2. \A s \in SUBSET S : s # {} =>
          /\ s \ {OneOf(s)} \in SUBSET S
          /\ Cardinality(s) # 0
          /\ Cardinality(s \ {OneOf(s)}) = Cardinality(s) - 1
    BY <1>1, OneOfIn, FS_RemoveElement, FS_EmptySet
  <1>3. \E g : Part(g, 0)
    <2>1. Upto(0) = {s \in SUBSET S : s = {}}
      BY <1>1, <1>2, FS_EmptySet
    <2>2. Part([s \in Upto(0) |-> 0], 0)
      BY <2>1
    <2> QED BY <2>2
  <1>4. ASSUME NEW k \in Nat, NEW g, Part(g, k) PROVE \E h : Part(h, k + 1)
    <2> DEFINE h == [s \in Upto(k + 1) |->
                       IF s = {} THEN 0 ELSE f[OneOf(s)] + g[s \ {OneOf(s)}]]
    <2>1. \A s \in Upto(k) : s \in Upto(k + 1)
      BY <1>1
    <2>2. \A t \in Upto(k) : h[t] = g[t]
      BY <1>4, <2>1
    <2>3. \A s \in Upto(k + 1) : s # {} => s \ {OneOf(s)} \in Upto(k)
      BY <1>1, <1>2
    <2> HIDE DEF Upto
    <2>4. \A s \in Upto(k + 1) : s # {} => h[s \ {OneOf(s)}] = g[s \ {OneOf(s)}]
      BY <2>2, <2>3
    <2>5. h = [s \in Upto(k + 1) |->
                 IF s = {} THEN 0 ELSE f[OneOf(s)] + h[s \ {OneOf(s)}]]
      BY <2>4
    <2> QED BY <2>5
  <1> HIDE DEF Part
  <1>5. Bad = {}
    <2> SUFFICES ASSUME Bad # {} PROVE FALSE
      OBVIOUS
    <2>0. Bad \subseteq Nat
      OBVIOUS
    <2> HIDE DEF Bad
    <2>1. PICK n \in Bad : \A m \in Bad : n <= m
      BY <2>0, LeastNumber
    <2>2. n # 0
      BY <1>3, <2>1 DEF Bad
    <2>3. n \in Nat /\ n - 1 \in Nat /\ (n - 1) + 1 = n
      BY <2>0, <2>2
    <2>4. n - 1 \notin Bad
      BY <2>1, <2>3
    <2>5. PICK g : Part(g, n - 1)
      BY <2>3, <2>4 DEF Bad
    <2>6. \E h : Part(h, (n - 1) + 1)
      BY <1>4, <2>3, <2>5
    <2> QED BY <2>1, <2>3, <2>6 DEF Bad
  <1>6. PICK g : Part(g, Cardinality(S))
    BY <1>1, <1>5
  <1>7. Upto(Cardinality(S)) = SUBSET S
    BY <1>1, FS_Subset
  <1> QED BY <1>6, <1>7 DEF Sums, Part

\* The sum of f over every set is that of an element and of the others.
LEMMA SumsRemove ==
  ASSUME NEW f, NEW S, IsFiniteSet(S), \A x \in S : f[x] \in Nat,
         NEW g, Sums(g, f, S)
  PROVE  /\ g[{}] = 0
         /\ \A s \in SUBSET S : g[s] \in Nat
         /\ \A s \in SUBSET S : \A x \in s : g[s] = f[x] + g[s \ {x}]
  <1>1. g[{}] = 0
    BY DEF Sums
  <1>2. \A s \in SUBSET S : s # {} =>
          /\ OneOf(s) \in s
          /\ g[s] = f[OneOf(s)] + g[s \ {OneOf(s)}]
    BY OneOfIn DEF Sums
  <1>3. \A s \in SUBSET S : g[s] \in Nat
    <2> DEFINE Bad == {s \in SUBSET S : g[s] \notin Nat}
    <2> SUFFICES ASSUME Bad # {} PROVE FALSE
      OBVIOUS
    <2>0. Bad \subseteq SUBSET S
      OBVIOUS
    <2> HIDE DEF Bad
    <2>1. PICK s \in Bad : \A v \in Bad : v \subseteq s => v = s
      BY <2>0, LeastSet
    <2> USE DEF Bad
    <2>2. s # {}
      <3> SUFFICES ASSUME s = {} PROVE FALSE
        OBVIOUS
      <3>1. g[s] = 0
        BY <1>1
      <3> QED BY <2>1, <3>1
    <2>3. OneOf(s) \in s /\ s \ {OneOf(s)} \in SUBSET S /\ s \ {OneOf(s)} # s
      BY <1>2, <2>1, <2>2
    <2>4. g[s \ {OneOf(s)}] \in Nat
      BY <2>1, <2>3
    <2>5. f[OneOf(s)] \in Nat /\ g[s] = f[OneOf(s)] + g[s \ {OneOf(s)}]
      BY <1>2, <2>1, <2>2
    <2> QED BY <2>1, <2>4, <2>5
  <1>4. \A s \in SUBSET S : \A x \in s : g[s] = f[x] + g[s \ {x}]
    <2> DEFINE Bad == {s \in SUBSET S : \E x \in s : g[s] # f[x] + g[s \ {x}]}
    <2> SUFFICES ASSUME Bad # {} PROVE FALSE
      OBVIOUS
    <2>0. Bad \subseteq SUBSET S
      OBVIOUS
    <2> HIDE DEF Bad
    <2>1. PICK s \in Bad : \A v \in Bad : v \subseteq s => v = s
      BY <2>0, LeastSet
    <2> USE DEF Bad
    <2>2. PICK x \in s : g[s] # f[x] + g[s \ {x}]
      BY <2>1
    <2> DEFINE y == OneOf(s)
    <2>3. y \in s /\ g[s] = f[y] + g[s \ {y}]
      BY <1>2, <2>2
    <2> HIDE DEF y
    <2>4. x # y
      BY <2>2, <2>3
    <2>5. s \ {y} \notin Bad /\ s \ {x} \notin Bad
      BY <2>1, <2>2, <2>3
    <2>6. s \ {y} \in SUBSET S /\ s \ {x} \in SUBSET S /\ x \in s \ {y} /\ y \in s \ {x}
      BY <2>2, <2>3, <2>4
    <2>7. g[s \ {y}] = f[x] + g[(s \ {y}) \ {x}] /\ g[s \ {x}] = f[y] + g[(s \ {x}) \ {y}]
      BY <2>5, <2>6
    <2>8. (s \ {y}) \ {x} = (s \ {x}) \ {y}
      OBVIOUS
    <2>9. f[x] \in Nat /\ f[y] \in Nat /\ g[(s \ {x}) \ {y}] \in Nat
      BY <1>3, <2>2, <2>3
    <2> DEFINE r == g[(s \ {x}) \ {y}]
               p == f[x]
               q == f[y]
    <2>10. g[s] = q + (p + r) /\ f[x] + g[s \ {x}] = p + (q + r) /\ p \in Nat /\ q \in Nat /\ r \in Nat
      BY <2>3, <2>7, <2>8, <2>9
    <2> HIDE DEF r, p, q
    <2>11. q + (p + r) = p + (q + r)
      BY <2>10
    <2> QED BY <2>2, <2>10, <2>11
  <1> QED BY <1>1, <1>3, <1>4

\* Sums over a subset do not depend on the set it is taken from.
LEMMA SumOverSubset ==
  ASSUME NEW f, NEW S, IsFiniteSet(S), NEW g, Sums(g, f, S), NEW T, T \subseteq S
  PROVE  SumFunctionOnSet(f, T) = g[T]
  <1> DEFINE h == CHOOSE i : Sums(i, f, T)
  <1>1. IsFiniteSet(T)
    BY FS_Subset
  <1>2. Sums(h, f, T)
    BY <1>1, SumsExist
  <1>3. SumFunctionOnSet(f, T) = h[T]
    BY SumIs
  <1> HIDE DEF h
  <1> DEFINE Bad == {s \in SUBSET T : h[s] # g[s]}
  <1>4. Bad = {}
    <2> SUFFICES ASSUME Bad # {} PROVE FALSE
      OBVIOUS
    <2>0. Bad \subseteq SUBSET T
      OBVIOUS
    <2> HIDE DEF Bad
    <2>1. PICK s \in Bad : \A v \in Bad : v \subseteq s => v = s
      BY <1>1, <2>0, LeastSet
    <2> USE DEF Bad
    <2>2. s \in SUBSET S
      BY <2>1
    <2>3. s # {}
      BY <1>2, <2>1, <2>2 DEF Sums
    <2>4. h[s] = f[OneOf(s)] + h[s \ {OneOf(s)}] /\ g[s] = f[OneOf(s)] + g[s \ {OneOf(s)}]
      BY <1>2, <2>1, <2>2, <2>3 DEF Sums
    <2>5. s \ {OneOf(s)} \notin Bad /\ s \ {OneOf(s)} \in SUBSET T
      BY <2>1, <2>3, OneOfIn
    <2> QED BY <2>1, <2>4, <2>5
  <1> QED BY <1>3, <1>4

\* A sum of natural numbers never shrinks with more of them.
LEMMA SumGrows ==
  ASSUME NEW f, NEW S, IsFiniteSet(S), \A x \in S : f[x] \in Nat, NEW T, T \subseteq S
  PROVE  /\ SumFunctionOnSet(f, T) \in Nat
         /\ SumFunctionOnSet(f, S) \in Nat
         /\ SumFunctionOnSet(f, T) <= SumFunctionOnSet(f, S)
  <1>1. PICK g : Sums(g, f, S)
    BY SumsExist
  <1>2. /\ g[{}] = 0
        /\ \A s \in SUBSET S : g[s] \in Nat
        /\ \A s \in SUBSET S : \A x \in s : g[s] = f[x] + g[s \ {x}]
    BY <1>1, SumsRemove
  <1>3. SumFunctionOnSet(f, T) = g[T] /\ SumFunctionOnSet(f, S) = g[S]
    BY <1>1, SumOverSubset
  <1> DEFINE Bad == {s \in SUBSET S : T \subseteq s /\ ~ (g[T] <= g[s])}
  <1>4. Bad = {}
    <2> SUFFICES ASSUME Bad # {} PROVE FALSE
      OBVIOUS
    <2>0. Bad \subseteq SUBSET S
      OBVIOUS
    <2> HIDE DEF Bad
    <2>1. PICK s \in Bad : \A v \in Bad : v \subseteq s => v = s
      BY <2>0, LeastSet
    <2> USE DEF Bad
    <2>2. T # s
      BY <1>2, <2>1
    <2>3. PICK x \in s : x \notin T
      BY <2>1, <2>2
    <2>4. s \ {x} \in SUBSET S /\ T \subseteq s \ {x} /\ s \ {x} \notin Bad
      BY <2>1, <2>3
    <2>5. g[T] <= g[s \ {x}] /\ g[s] = f[x] + g[s \ {x}]
      BY <1>2, <2>1, <2>3, <2>4
    <2>6. g[T] \in Nat /\ g[s] \in Nat /\ g[s \ {x}] \in Nat /\ f[x] \in Nat
      BY <1>2, <2>1, <2>3, <2>4
    <2> QED BY <2>1, <2>5, <2>6
  <1> QED BY <1>2, <1>3, <1>4

\* What the checks of a run stand for, once its nodes and their software are compared.
ChecksStand ==
  /\ checks \in [issues : {"yes", "no"}, stack : {"not recorded", "match", "mismatch"}]
  /\ derived # None => base # NoBase
  /\ at \in {"read", "scope"} => derived = None
  /\ at \in {"read", "scope", "stack"} => checks.stack = "not recorded"
  /\ at \in {"stack", "compare"} /\ checks.issues = "no" =>
       /\ run.outside # "yes"
       /\ base # NoBase => Issues(base, run.groups, SavedHosts) = {}
  /\ at = "compare" /\ base # NoBase =>
       \A n \in Matches(base, run.groups) :
         /\ run.stack[n] = "other" => checks.stack = "mismatch"
         /\ checks.stack = "match" => run.stack[n] = "same"

\* Nothing is compared before or after the phases are.
ComparedLate == at \notin {"compare", "crashed"} => compared = NotCompared

ReportInv == ChecksStand /\ ComparedLate /\ FractionJustified

\* Without a comparison there is no fraction.
LEMMA NothingCompared == NotCompared.fraction = "no"
  BY DEF NotCompared

\* The parts hold before a report is made.
LEMMA ReportInitial == ReportInit => ReportInv
  <1> SUFFICES ASSUME ReportInit PROVE ReportInv
    OBVIOUS
  <1>1. ChecksStand
    BY DEF ReportInit, ChecksStand, NoChecks
  <1>2. ComparedLate
    BY DEF ReportInit, ComparedLate
  <1>3. FractionJustified
    BY NothingCompared DEF ReportInit, FractionJustified
  <1> QED BY <1>1, <1>2, <1>3 DEF ReportInv

\* When inventory, kernel and stack correspond, every node of the run is one the
\* baseline measured, with the same kernel and software (scoped_baseline and
\* phase_results).
LEMMA CorrespondingNodes ==
  ASSUME ChecksStand, at = "compare", Corresponds, derived # None
  PROVE  /\ base # NoBase
         /\ run.outside # "yes"
         /\ \A r \in Roles : \A n \in run.groups[r] :
              /\ n \in base.groups[r]
              /\ run.kernel[n] = base.kernel[n]
              /\ run.stack[n] # "other"
              /\ run.kind = "daos" => run.stack[n] = "same"
  <1>1. base # NoBase /\ run.outside # "yes" /\ Issues(base, run.groups, SavedHosts) = {}
    BY DEF ChecksStand, Corresponds
  <1> SUFFICES ASSUME NEW r \in Roles, NEW n \in run.groups[r]
               PROVE  /\ n \in base.groups[r]
                      /\ run.kernel[n] = base.kernel[n]
                      /\ run.stack[n] # "other"
                      /\ run.kind = "daos" => run.stack[n] = "same"
    BY <1>1
  <1>2. n \in base.groups[r] /\ SavedHosts[n] = base.kernel[n]
    BY <1>1 DEF Issues
  <1>3. SavedHosts[n] = run.kernel[n]
    BY DEF SavedHosts, Hosts
  <1>4. n \in Matches(base, run.groups)
    BY <1>2 DEF Matches, Selected
  <1> QED BY <1>1, <1>2, <1>3, <1>4 DEF ChecksStand, Corresponds

\* The justification stands while the run and the baseline do, and needs none
\* when nothing is compared.
LEMMA KeptJustified ==
  /\ compared' = NotCompared => FractionJustified'
  /\ FractionJustified /\ UNCHANGED <<run, base, compared>> => FractionJustified'
  <1>1. ASSUME compared' = NotCompared PROVE FractionJustified'
    BY <1>1, NothingCompared DEF FractionJustified
  <1>2. ASSUME FractionJustified, run' = run, base' = base, compared' = compared
        PROVE  FractionJustified'
    BY <1>2 DEF FractionJustified
  <1> QED BY <1>1, <1>2

\* So do the checks.
LEMMA KeptStanding ==
  ASSUME ChecksStand, UNCHANGED <<run, base, derived, checks>>, at' = at \/ at' \notin {"read", "scope", "stack", "compare"}
  PROVE  ChecksStand'
  <1>1. SavedHosts' = SavedHosts
    BY DEF SavedHosts
  <1> QED BY <1>1 DEF ChecksStand

\* Every step of the two reports keeps the parts; only Compare prints a fraction.
LEMMA ReportStep == ReportInv /\ [ReportNext]_reportVars => ReportInv'
  <1> SUFFICES ASSUME ReportInv, [ReportNext]_reportVars PROVE ReportInv'
    OBVIOUS
  <1>0. ChecksStand /\ ComparedLate /\ FractionJustified
    BY DEF ReportInv
  <1>1. CASE UNCHANGED reportVars
    <2>1. ComparedLate'
      BY <1>0, <1>1 DEF reportVars, ComparedLate
    <2> QED BY <1>0, <1>1, <2>1, KeptStanding, KeptJustified DEF reportVars, ReportInv
  <1>2. CASE Read \/ ReadBaseline
    <2>1. /\ at = "read" /\ at' \in {"scope", "derive"}
          /\ UNCHANGED <<derived, checks, compared>>
      BY <1>2 DEF Read, ReadBaseline
    <2>2. ChecksStand'
      BY <1>0, <2>1 DEF ChecksStand
    <2>3. ComparedLate'
      BY <1>0, <2>1 DEF ComparedLate
    <2>4. compared' = NotCompared
      BY <1>0, <2>1 DEF ComparedLate
    <2> QED BY <2>2, <2>3, <2>4, KeptJustified DEF ReportInv
  <1>3. CASE Scope
    <2> DEFINE issues == base # NoBase /\ Issues(base, run.groups, SavedHosts) # {}
    <2>1. /\ at = "scope" /\ at' \in {"stack", "crashed"}
          /\ checks' = [checks EXCEPT !.issues = IF issues \/ run.outside = "yes"
                                                 THEN "yes" ELSE "no"]
          /\ UNCHANGED <<run, base, compared>>
      BY <1>3 DEF Scope
    <2>2. derived' # None => base # NoBase
      BY <1>3 DEF Scope
    <2>4. SavedHosts' = SavedHosts
      BY <2>1 DEF SavedHosts
    <2>5. ChecksStand'
      BY <1>0, <2>1, <2>2, <2>4 DEF ChecksStand
    <2>6. compared' = NotCompared
      BY <1>0, <2>1 DEF ComparedLate
    <2>7. ComparedLate'
      BY <2>6 DEF ComparedLate
    <2> QED BY <2>5, <2>6, <2>7, KeptJustified DEF ReportInv
  <1>4. CASE Stack
    <2> DEFINE hosts == IF base = NoBase THEN {} ELSE Matches(base, run.groups)
    <2>1. /\ at = "stack" /\ at' = "compare"
          /\ checks' = [checks EXCEPT !.stack =
                IF \E n \in hosts : run.stack[n] = "other" THEN "mismatch"
                ELSE IF hosts # {} /\ \A n \in hosts : run.stack[n] = "same" THEN "match"
                ELSE @]
          /\ UNCHANGED <<run, base, derived, compared>>
      BY <1>4 DEF Stack, StackOf
    <2>2. SavedHosts' = SavedHosts
      BY <2>1 DEF SavedHosts
    <2> HIDE DEF hosts
    <2>3. base # NoBase => hosts = Matches(base, run.groups)
      BY DEF hosts
    <2>4. ChecksStand'
      BY <1>0, <2>1, <2>2, <2>3 DEF ChecksStand
    <2>5. compared' = NotCompared
      BY <1>0, <2>1 DEF ComparedLate
    <2>6. ComparedLate'
      BY <2>5 DEF ComparedLate
    <2> QED BY <2>4, <2>5, <2>6, KeptJustified DEF ReportInv
  <1>5. CASE Compare
    <2>1. /\ at = "compare" /\ at' \in {"compare", "crashed"}
          /\ UNCHANGED <<run, base, derived, checks>>
      BY <1>5 DEF Compare
    <2>2. ChecksStand' /\ ComparedLate'
      BY <1>0, <2>1, KeptStanding DEF ComparedLate
    <2>3. CASE UNCHANGED compared
      BY <1>0, <2>1, <2>2, <2>3, KeptJustified DEF ReportInv
    <2>4. ASSUME NEW p \in PhaseResults(Phases[index]), compared' = Comparison(p)
          PROVE  FractionJustified'
      <3> SUFFICES ASSUME compared'.fraction = "yes", compared'.name \notin Mdtests
                   PROVE  FractionJustified'
        BY DEF FractionJustified
      <3>1. /\ compared'.name = p.name /\ compared'.enabled = p.enabled
            /\ compared'.rate = p.rate /\ compared'.notes = p.notes
        BY <2>4 DEF Comparison
      <3>2. p.enabled = "yes" /\ derived # None /\ IorFraction(p)
        BY <2>4, <3>1 DEF Comparison
      <3>3. Corresponds /\ p.name \in Comparable /\ p.rate = "positive" /\ p.notes # "other"
            /\ run.rc = 0
        BY <3>2 DEF IorFraction
      <3> HIDE DEF Corresponds
      <3> QED BY <1>0, <2>1, <3>1, <3>2, <3>3, CorrespondingNodes DEF FractionJustified
    <2> QED BY <1>5, <2>2, <2>3, <2>4 DEF Compare, ReportInv
  <1>6. CASE ManifestFails \/ DeriveFails
    <2>1. at' = "crashed" /\ UNCHANGED <<run, base, derived, checks, compared>>
      BY <1>6 DEF ManifestFails, DeriveFails
    <2> QED BY <1>0, <2>1, KeptStanding, KeptJustified DEF ReportInv, ComparedLate
  <1>7. CASE StartPages \/ StartBaseline
    <2>1. at' = "draw" /\ checks' = NoChecks /\ derived' = None /\ compared' = NotCompared
      BY <1>7 DEF StartPages, StartBaseline, Lay
    <2>2. ChecksStand'
      BY <2>1 DEF ChecksStand, NoChecks
    <2> QED BY <2>1, <2>2, KeptJustified DEF ReportInv, ComparedLate
  <1>8. CASE Draw \/ Write
    <2>1. /\ at = "draw" /\ at' \in {"draw", "written"}
          /\ UNCHANGED <<run, base, derived, checks, compared>>
      BY <1>8 DEF Draw, Write
    <2> QED BY <1>0, <2>1, KeptStanding, KeptJustified DEF ReportInv, ComparedLate
  <1> QED BY <1>1, <1>2, <1>3, <1>4, <1>5, <1>6, <1>7, <1>8 DEF ReportNext

\* Minimum and maximum grow with both numbers.
LEMMA Bounded ==
  ASSUME NEW a \in Nat, NEW b \in Nat, NEW c \in Nat, NEW d \in Nat, a <= c, b <= d
  PROVE  /\ AtMost(a, b) \in Nat /\ AtLeast(a, b) \in Nat
         /\ AtMost(c, d) \in Nat /\ AtLeast(c, d) \in Nat
         /\ AtMost(a, b) <= AtMost(c, d)
         /\ AtLeast(a, b) <= AtLeast(c, d)
  BY DEF AtMost, AtLeast

\* More storage servers never have less bandwidth together (total in derive_role).
LEMMA TotalGrows ==
  ASSUME NEW S, IsFiniteSet(S), S \subseteq DOMAIN Disk, NEW T, T \subseteq S,
         NEW w \in Workloads
  PROVE  Total(T, w) \in Nat /\ Total(S, w) \in Nat /\ Total(T, w) <= Total(S, w)
  <1> DEFINE f == [n \in DOMAIN Disk |-> Disk[n][w]]
  <1>1. \A n \in S : f[n] \in Nat
    BY RateAssumption
  <1> HIDE DEF f
  <1>2. /\ SumFunctionOnSet(f, T) \in Nat
        /\ SumFunctionOnSet(f, S) \in Nat
        /\ SumFunctionOnSet(f, T) <= SumFunctionOnSet(f, S)
    BY <1>1, SumGrows
  <1> QED BY <1>2 DEF Total, f

\* More links never carry less together (network in derive_role).
LEMMA NetworkGrows ==
  ASSUME NEW Q, IsFiniteSet(Q), Q \subseteq DOMAIN Link, NEW P, P \subseteq Q,
         NEW s \in Sizes
  PROVE  Network(P, s) \in Nat /\ Network(Q, s) \in Nat /\ Network(P, s) <= Network(Q, s)
  <1> DEFINE f == [p \in DOMAIN Link |-> Link[p][s]]
  <1>1. \A n \in Q : f[n] \in Nat
    BY RateAssumption
  <1> HIDE DEF f
  <1>2. /\ SumFunctionOnSet(f, P) \in Nat
        /\ SumFunctionOnSet(f, Q) \in Nat
        /\ SumFunctionOnSet(f, P) <= SumFunctionOnSet(f, Q)
    BY <1>1, SumGrows
  <1> QED BY <1>2 DEF Network, f

\* A plane with fewer servers and links is not estimated higher (derive_role).
THEOREM RoleGrows ==
  ASSUME NEW c, IsFiniteSet(c), c \subseteq DOMAIN Disk,
         NEW S, NEW T, T \subseteq S,
         NEW Q, IsFiniteSet(Q), Q \subseteq DOMAIN Link, NEW P, P \subseteq Q,
         NEW u, NEW v,
         DeriveRole(T, P, u, c) # None, DeriveRole(S, Q, v, c) # None
  PROVE  /\ DeriveRole(T, P, u, c).bw <= DeriveRole(S, Q, v, c).bw
         /\ DeriveRole(T, P, u, c).iops <= DeriveRole(S, Q, v, c).iops
  <1>1. IsFiniteSet(S) /\ S \subseteq DOMAIN Disk
    <2>1. S \subseteq c
      BY DEF DeriveRole
    <2> QED BY <2>1, FS_Subset
  <1>2. \A w \in Workloads :
          Total(T, w) \in Nat /\ Total(S, w) \in Nat /\ Total(T, w) <= Total(S, w)
    BY <1>1, TotalGrows
  <1>3. \A s \in Sizes :
          Network(P, s) \in Nat /\ Network(Q, s) \in Nat /\ Network(P, s) <= Network(Q, s)
    BY NetworkGrows
  <1> DEFINE Bw(X, Y) == Ceiling(AtLeast(Total(X, "read"), Total(X, "write")),
                                 AtLeast(Network(Y, "4KiB"), Network(Y, "large")))
             Iops(X, Y) == Ceiling(AtLeast(Total(X, "randread"), Total(X, "randwrite")),
                                   Network(Y, "4KiB"))
  <1>4. /\ DeriveRole(T, P, u, c).bw = Bw(T, P) /\ DeriveRole(T, P, u, c).iops = Iops(T, P)
        /\ DeriveRole(S, Q, v, c).bw = Bw(S, Q) /\ DeriveRole(S, Q, v, c).iops = Iops(S, Q)
    BY DEF DeriveRole, Workloads
  <1>5. Bw(T, P) <= Bw(S, Q)
    BY <1>2, <1>3, Bounded DEF Ceiling, Workloads, Sizes
  <1>6. Iops(T, P) <= Iops(S, Q)
    BY <1>2, <1>3, Bounded DEF Ceiling, Workloads, Sizes
  <1> QED BY <1>4, <1>5, <1>6

\* What a plane of the restricted baseline is estimated from.
LEMMA ScopedPlane ==
  ASSUME base \in Baselines, derived = ScopedBaseline(base, run.groups).est, derived # None,
         NEW r \in {"ds", "mds"}
  PROVE  LET sel == Selected(base, run.groups)
             plane == IF r = "ds" THEN derived.data ELSE derived.metadata
             scoped == Restricted(base, sel)
         IN plane # None =>
              /\ sel[r] # {}
              /\ plane = DeriveRole(sel[r], scoped.pairs[r], scoped.unpaired[r], base.complete)
  <1> DEFINE sel == Selected(base, run.groups)
             scoped == Restricted(base, sel)
  <1>1. /\ scoped.groups = sel
        /\ scoped.complete = base.complete
    BY BaselinesAssumption DEF Restricted
  <1>2. derived = Derive(scoped)
    BY DEF ScopedBaseline
  <1> HIDE DEF sel, scoped
  <1>3. sel[r] # {} \/ r = "mds"
    BY <1>1, <1>2 DEF Derive, DeriveRole
  <1> QED BY <1>1, <1>2, <1>3 DEF Derive, sel, scoped

\* An estimate scoped to the run has the nodes and the links it should, and is no
\* higher than that of the whole baseline.
LEMMA ScopedSound ==
  ASSUME base \in Baselines, derived = ScopedBaseline(base, run.groups).est
  PROVE  ScopedEstimate
  <1> SUFFICES ASSUME derived # None, NEW r \in {"ds", "mds"},
                      (IF r = "ds" THEN derived.data ELSE derived.metadata) # None
               PROVE  LET plane == IF r = "ds" THEN derived.data ELSE derived.metadata
                          all == Derive(base)
                          whole == IF r = "ds" THEN all.data ELSE all.metadata
                          ends == {p[1] : p \in plane.pairs} \cup {p[2] : p \in plane.pairs}
                      IN /\ plane.servers \subseteq run.groups[r]
                         /\ ends \subseteq run.groups[r] \cup run.groups["clients"]
                         /\ ends \cup plane.unpaired =
                              (run.groups[r] \cap base.groups[r])
                              \cup (run.groups["clients"] \cap base.groups["clients"])
                         /\ ends \cap plane.unpaired = {}
                         /\ all # None => plane.bw <= whole.bw /\ plane.iops <= whole.iops
    BY Zenon DEF ScopedEstimate
  <1> DEFINE plane == IF r = "ds" THEN derived.data ELSE derived.metadata
             sel == Selected(base, run.groups)
             scoped == Restricted(base, sel)
             ends == {p[1] : p \in plane.pairs} \cup {p[2] : p \in plane.pairs}
  <1>1. /\ sel[r] # {}
        /\ plane = DeriveRole(sel[r], scoped.pairs[r], scoped.unpaired[r], base.complete)
    BY ScopedPlane
  <1>2. /\ plane.servers = sel[r] /\ plane.pairs = scoped.pairs[r]
        /\ plane.unpaired = scoped.unpaired[r]
    BY <1>1 DEF DeriveRole
  <1>3. /\ sel[r] = run.groups[r] \cap base.groups[r]
        /\ sel["clients"] = run.groups["clients"] \cap base.groups["clients"]
    BY DEF Selected, Roles
  <1>4. /\ scoped.pairs[r] = {p \in base.pairs[r] : Cross(p, sel["clients"], sel[r])}
        /\ scoped.unpaired[r] =
             (sel["clients"] \cup sel[r])
             \ ({p[1] : p \in scoped.pairs[r]} \cup {p[2] : p \in scoped.pairs[r]})
    BY BaselinesAssumption DEF Restricted
  <1>5. scoped.unpaired[r] = (sel["clients"] \cup sel[r]) \ ends
    BY <1>2, <1>4
  <1>6. ends \subseteq sel["clients"] \cup sel[r]
    BY <1>2, <1>4 DEF Cross
  <1>7. ASSUME Derive(base) # None
        PROVE  LET whole == IF r = "ds" THEN Derive(base).data ELSE Derive(base).metadata
               IN plane.bw <= whole.bw /\ plane.iops <= whole.iops
    <2> DEFINE whole == IF r = "ds" THEN Derive(base).data ELSE Derive(base).metadata
    <2>1. base.groups[r] # {} /\ sel[r] \subseteq base.groups[r]
      BY <1>1, <1>3
    <2>2. /\ whole # None
          /\ whole = DeriveRole(base.groups[r], base.pairs[r], base.unpaired[r], base.complete)
      BY <1>7, <2>1 DEF Derive
    <2>3. /\ IsFiniteSet(base.complete) /\ base.complete \subseteq DOMAIN Disk
          /\ IsFiniteSet(base.pairs[r]) /\ base.pairs[r] \subseteq DOMAIN Link
      BY BaselinesAssumption
    <2>4. scoped.pairs[r] \subseteq base.pairs[r]
      BY <1>4
    <2> HIDE DEF sel, scoped, plane, whole
    <2>5. plane # None
      BY DEF plane
    <2>6. plane.bw <= whole.bw /\ plane.iops <= whole.iops
      BY <1>1, <2>1, <2>2, <2>3, <2>4, <2>5, RoleGrows
    <2> QED BY <2>6 DEF whole
  <1> HIDE DEF sel, scoped
  <1>8. /\ plane.servers \subseteq run.groups[r]
        /\ ends \subseteq run.groups[r] \cup run.groups["clients"]
        /\ ends \cap plane.unpaired = {}
    BY <1>2, <1>3, <1>5, <1>6
  <1>9. ends \cup plane.unpaired = (run.groups[r] \cap base.groups[r])
                                   \cup (run.groups["clients"] \cap base.groups["clients"])
    BY <1>2, <1>3, <1>5, <1>6
  <1> QED BY <1>7, <1>8, <1>9

ScopedToRun == derived # None => base \in Baselines /\ derived = ScopedBaseline(base, run.groups).est
BaseKnown == base \in Baselines \cup {NoBase}

\* The estimate is replaced with the run and the baseline only.
LEMMA ScopedStep ==
  ASSUME ReportInv, ScopedToRun, BaseKnown, [ReportNext]_reportVars
  PROVE  ScopedToRun' /\ BaseKnown'
  <1>1. CASE UNCHANGED reportVars
    BY <1>1 DEF reportVars, ScopedToRun, BaseKnown
  <1>2. CASE Read \/ ReadBaseline
    <2>1. at = "read" /\ derived' = derived /\ base' \in Baselines \cup {NoBase}
      BY <1>2 DEF Read, ReadBaseline
    <2> QED BY <2>1 DEF ReportInv, ChecksStand, ScopedToRun, BaseKnown
  <1>3. CASE Scope
    <2>1. /\ UNCHANGED <<run, base>>
          /\ derived' = (IF base = NoBase THEN [at |-> "none", est |-> None]
                         ELSE ScopedBaseline(base, run.groups)).est
      BY <1>3 DEF Scope
    <2>2. base = NoBase => derived' = None
      BY <2>1
    <2>3. base # NoBase => derived' = ScopedBaseline(base, run.groups).est
      BY <2>1
    <2> QED BY <2>1, <2>2, <2>3 DEF ScopedToRun, BaseKnown
  <1>4. CASE Stack \/ Compare \/ ManifestFails \/ DeriveFails \/ Draw \/ Write
    <2>1. UNCHANGED <<run, base, derived>>
      BY <1>4 DEF Stack, Compare, ManifestFails, DeriveFails, Draw, Write
    <2> QED BY <2>1 DEF ScopedToRun, BaseKnown
  <1>5. CASE StartPages \/ StartBaseline
    BY <1>5 DEF StartPages, StartBaseline, Lay, ScopedToRun, BaseKnown
  <1> QED BY <1>1, <1>2, <1>3, <1>4, <1>5 DEF ReportNext

\* Whatever runs are saved, baselines exist and phases there are, no fraction of an
\* estimate is printed beside an IOR phase of a run that differs from the
\* baseline in a node, a kernel or a software stack, has failed, or has no rate.
THEOREM AlwaysJustified == ReportSpec => []FractionJustified
  <1>1. ReportInv => FractionJustified
    BY DEF ReportInv
  <1> QED BY <1>1, ReportInitial, ReportStep, PTL DEF ReportSpec

\* The estimate a run is compared with is of the nodes and links the run shares
\* with the baseline, all of them, and no higher than that of the whole baseline.
THEOREM AlwaysScoped == ReportSpec => []ScopedEstimate
  <1> DEFINE Inv == ReportInv /\ ScopedToRun /\ BaseKnown
  <1>1. ReportInit => Inv
    BY ReportInitial DEF ReportInit, ScopedToRun, BaseKnown
  <1>2. Inv /\ [ReportNext]_reportVars => Inv'
    BY ReportStep, ScopedStep
  <1>3. Inv => ScopedEstimate
    <2>1. derived = None => ScopedEstimate
      BY DEF ScopedEstimate
    <2> QED BY <2>1, ScopedSound DEF ScopedToRun
  <1> HIDE DEF Inv
  <1> QED BY <1>1, <1>2, <1>3, PTL DEF ReportSpec

-----------------------------------------------------------------------------
(* Phase 7: the pages of Report *)

\* The lines of a paragraph, as far as line n.
NextLine(p, size) ==
  LET from == Below(p.y, Margin) IN Placed(from - (size + 5), Lowest(p.low, from))
Lines(g, y, n, size) ==
  g = [k \in 0..n |-> IF k = 0 THEN Placed(y, Fresh) ELSE NextLine(g[k - 1], size)]

\* A paragraph ends where the last of its lines does.
LEMMA ParagraphIs ==
  ASSUME NEW y, NEW n, NEW size
  PROVE  LET g == CHOOSE g : Lines(g, y, n, size)
         IN  Paragraph(y, n, size) = Placed(g[n].y - 8, g[n].low)
  BY Zenon DEF Paragraph, Lines, NextLine

\* The positions of the lines exist: they are built a line at a time.
LEMMA LinesExist ==
  ASSUME NEW y, NEW size, NEW n \in Nat
  PROVE  \E g : Lines(g, y, n, size)
  <1> DEFINE Bad == {k \in Nat : ~ \E g : Lines(g, y, k, size)}
  <1>1. \E g : Lines(g, y, 0, size)
    <2>1. Lines([k \in 0..0 |-> Placed(y, Fresh)], y, 0, size)
      BY DEF Lines
    <2> QED BY <2>1
  <1>2. ASSUME NEW k \in Nat, NEW g, Lines(g, y, k, size)
        PROVE  \E h : Lines(h, y, k + 1, size)
    <2> DEFINE h == [i \in 0..(k + 1) |-> IF i = 0 THEN Placed(y, Fresh)
                                          ELSE NextLine(g[i - 1], size)]
    <2>1. \A i \in 0..k : h[i] = g[i]
      BY <1>2 DEF Lines
    <2>2. \A i \in 0..(k + 1) : i # 0 => h[i - 1] = g[i - 1]
      BY <2>1
    <2>3. h = [i \in 0..(k + 1) |-> IF i = 0 THEN Placed(y, Fresh)
                                    ELSE NextLine(h[i - 1], size)]
      BY <2>2
    <2> QED BY <2>3 DEF Lines
  <1>3. Bad = {}
    <2> SUFFICES ASSUME Bad # {} PROVE FALSE
      OBVIOUS
    <2>0. Bad \subseteq Nat
      OBVIOUS
    <2> HIDE DEF Bad
    <2>1. PICK m \in Bad : \A i \in Bad : m <= i
      BY <2>0, LeastNumber
    <2>2. m # 0
      BY <1>1, <2>1 DEF Bad
    <2>3. m \in Nat /\ m - 1 \in Nat /\ (m - 1) + 1 = m
      BY <2>0, <2>2
    <2>4. m - 1 \notin Bad
      BY <2>1, <2>3
    <2>5. PICK g : Lines(g, y, m - 1, size)
      BY <2>3, <2>4 DEF Bad
    <2>6. \E h : Lines(h, y, (m - 1) + 1, size)
      BY <1>2, <2>3, <2>5
    <2> QED BY <2>1, <2>3, <2>6 DEF Bad
  <1> QED BY <1>3

\* A position of the cursor with the lowest line above the margin.
Inside(p) == /\ p = Placed(p.y, p.low)
             /\ p.y \in Int /\ p.low \in Int /\ p.low >= Margin

\* A place is inside the margins when its lowest line is.
LEMMA PlacedInside ==
  ASSUME NEW y \in Int, NEW low \in Int, low >= Margin
  PROVE  Inside(Placed(y, low)) /\ Placed(y, low).y = y /\ Placed(y, low).low = low
  BY DEF Inside, Placed

\* However long it is, a paragraph stays above the margin: it looks for room before
\* each of its lines.  One of lines of 15 from the top gets 15 lower with each at most.
LEMMA ParagraphInside ==
  ASSUME NEW y \in Int, NEW n \in Nat, NEW size \in Nat
  PROVE  /\ Inside(Paragraph(y, n, size))
         /\ size = 10 => Paragraph(y, n, size).y >= y - 15 * n - 8
         /\ size = 9 /\ n = 1 /\ y >= Margin => Paragraph(y, n, size).y = y - 22
  <1> DEFINE g == CHOOSE h : Lines(h, y, n, size)
  <1>1. Lines(g, y, n, size)
    BY LinesExist
  <1>2. Paragraph(y, n, size) = Placed(g[n].y - 8, g[n].low)
    BY ParagraphIs
  <1> HIDE DEF g
  <1>3. g[0] = Placed(y, Fresh) /\ \A k \in 1..n : g[k] = NextLine(g[k - 1], size)
    BY <1>1 DEF Lines
  <1> DEFINE Good(k) == Inside(g[k]) /\ (size = 10 => g[k].y >= y - 15 * k)
             Bad == {k \in 0..n : ~ Good(k)}
  <1>4. Good(0)
    BY <1>3, PlacedInside DEF Fresh, Margin
  <1>5. ASSUME NEW k \in 1..n, Good(k - 1) PROVE Good(k)
    <2>1. /\ g[k - 1].y \in Int /\ g[k - 1].low \in Int /\ g[k - 1].low >= Margin
          /\ size = 10 => g[k - 1].y >= y - 15 * (k - 1)
      BY <1>5 DEF Inside
    <2> DEFINE from == Below(g[k - 1].y, Margin)
    <2>2. from \in Int /\ from >= Margin /\ from >= g[k - 1].y
      BY <2>1 DEF Below, Fresh, Margin
    <2>3. Lowest(g[k - 1].low, from) \in Int /\ Lowest(g[k - 1].low, from) >= Margin
      BY <2>1, <2>2 DEF Lowest
    <2>4. g[k] = Placed(from - (size + 5), Lowest(g[k - 1].low, from))
      BY <1>3 DEF NextLine
    <2> HIDE DEF from
    <2>5. Inside(g[k]) /\ g[k].y = from - (size + 5)
      BY <2>2, <2>3, <2>4, PlacedInside
    <2> QED BY <2>1, <2>2, <2>5
  <1> HIDE DEF Good
  <1>6. Bad = {}
    <2> SUFFICES ASSUME Bad # {} PROVE FALSE
      OBVIOUS
    <2>0. Bad \subseteq Nat
      OBVIOUS
    <2> HIDE DEF Bad
    <2>1. PICK m \in Bad : \A i \in Bad : m <= i
      BY <2>0, LeastNumber
    <2>2. m \in 0..n /\ ~ Good(m) /\ m # 0
      BY <1>4, <2>1 DEF Bad
    <2>3. m \in 1..n /\ m - 1 \in 0..n /\ m - 1 \notin Bad
      BY <2>1, <2>2
    <2> QED BY <1>5, <2>2, <2>3 DEF Bad
  <1>7. Good(n)
    BY <1>6
  <1>8. g[n].y \in Int /\ g[n].low \in Int /\ g[n].low >= Margin
        /\ (size = 10 => g[n].y >= y - 15 * n)
    BY <1>7 DEF Good, Inside
  <1>9. /\ Inside(Paragraph(y, n, size))
        /\ Paragraph(y, n, size).y = g[n].y - 8
    BY <1>2, <1>8, PlacedInside
  <1>10. ASSUME size = 9, n = 1, y >= Margin PROVE g[n].y = y - 14
    <2>1. g[1] = NextLine(Placed(y, Fresh), 9)
      BY <1>3, <1>10
    <2>2. Below(y, Margin) = y
      BY <1>10 DEF Below, Margin
    <2> QED BY <1>10, <2>1, <2>2 DEF NextLine, Placed
  <1> QED BY <1>8, <1>9, <1>10

\* The texts and the numbers of nodes that a page has room for: 45 lines of a value,
\* 5 lines of a minimum and a maximum, the bars of 32 nodes below a text.
Fits ==
  /\ \A n \in KvLines : n <= 45
  /\ \A w \in WrapLines : w <= 5
  /\ MaxServers <= 32

Blocks ==
  {b \in [op : {"page", "para", "kv", "kv90", "fixed", "skip", "heading", "bars", "phase",
                "rank", "traffic"}, size : Nat] : b.op = "fixed" => b.size >= Margin}

\* A row with at most 45 lines is moved to a page that has room for it.
LEMMA KvInside ==
  ASSUME Fits, NEW y \in Int, NEW n \in KvLines
  PROVE  Inside(Kv(y, n))
  <1>1. n \in Nat /\ n >= 1 /\ n <= 45
    BY LayoutAssumption DEF Fits
  <1> DEFINE from == IF y - 14 * n < Margin THEN Fresh ELSE y
  <1>2. from \in Int /\ from - 14 * (n - 1) >= Margin
    BY <1>1 DEF Fresh, Margin
  <1>3. Kv(y, n) = Placed(from - 14 * n - 8, from - 14 * (n - 1))
    BY DEF Kv
  <1> HIDE DEF from
  <1> QED BY <1>1, <1>2, <1>3, PlacedInside

\* A storage block of at most 32 servers is.
LEMMA BarsInside ==
  ASSUME Fits, NEW y \in Int, NEW w \in WrapLines, NEW n \in 1..32
  PROVE  Inside(Bars(y, w, n))
  <1>1. w \in Nat /\ w >= 1 /\ w <= 5
    BY LayoutAssumption DEF Fits
  <1> DEFINE from == IF y - (88 + 16 * n) < Margin THEN Fresh ELSE y
             first == from - 19 - 16 - 12 * w - 5
  <1>2. first \in Int /\ first - 16 * (n - 1) >= Margin
    BY <1>1 DEF Fresh, Margin
  <1>3. Bars(y, w, n) = Placed(first - 16 * n - 18, first - 16 * (n - 1))
    BY DEF Bars
  <1> HIDE DEF first
  <1> QED BY <1>1, <1>2, <1>3, PlacedInside

\* The traffic of a role of at most 32 servers is.
LEMMA TrafficInside ==
  ASSUME NEW y \in Int, NEW n \in 1..32
  PROVE  Inside(Traffic(y, n))
  <1> DEFINE from == Below(y, 150 + n * 18)
             text == Paragraph(from, 1, 9)
  <1>1. from \in Int /\ from >= Margin /\ (from >= 150 + n * 18 \/ from = Fresh)
    BY DEF Below, Fresh, Margin
  <1>2. Inside(text) /\ text.y = from - 22
    BY <1>1, ParagraphInside
  <1>3. Traffic(y, n) = Placed(text.y - 19 * n - 20, Lowest(text.low, text.y - 19 * (n - 1)))
    BY DEF Traffic
  <1> HIDE DEF from, text
  <1>4. text.y \in Int /\ text.low \in Int /\ text.low >= Margin
    BY <1>2 DEF Inside
  <1>5. text.y - 19 * (n - 1) >= Margin
    BY <1>1, <1>2 DEF Fresh, Margin
  <1>6. Lowest(text.low, text.y - 19 * (n - 1)) \in Int
        /\ Lowest(text.low, text.y - 19 * (n - 1)) >= Margin
    BY <1>4, <1>5 DEF Lowest
  <1> QED BY <1>3, <1>4, <1>6, PlacedInside

\* The rank statistics of a phase are, with texts of at most 5 lines.
LEMMA RankInside ==
  ASSUME NEW y \in Int, NEW w \in WrapLines
  PROVE  Inside(RankBlock(y, w))
  <1> DEFINE from == Below(y, 145)
             mean == Paragraph(from - 21, 1, 9)
             ends == Paragraph(mean.y, w, 9)
  <1>1. from \in Int /\ from >= Margin
    BY DEF Below, Fresh, Margin
  <1>2. Inside(mean)
    BY <1>1, ParagraphInside
  <1>3. mean.y \in Int /\ mean.low \in Int /\ mean.low >= Margin
    BY <1>2 DEF Inside
  <1>4. Inside(ends)
    BY <1>3, ParagraphInside, LayoutAssumption
  <1>5. RankBlock(y, w) = Placed(ends.y, Lowest(from, Lowest(mean.low, ends.low)))
    BY DEF RankBlock
  <1> HIDE DEF from, mean, ends
  <1>6. ends.y \in Int /\ ends.low \in Int /\ ends.low >= Margin
    BY <1>4 DEF Inside
  <1>7. Lowest(from, Lowest(mean.low, ends.low)) \in Int
        /\ Lowest(from, Lowest(mean.low, ends.low)) >= Margin
    BY <1>1, <1>3, <1>6 DEF Lowest
  <1> QED BY <1>5, <1>6, <1>7, PlacedInside

\* A block draws above the margin from wherever the block before it has left the
\* cursor; only a heading relies on where that is.
LEMMA BlockInside ==
  ASSUME Fits, NEW b \in Blocks, NEW y \in Int, b.op = "heading" => y >= Margin,
         NEW n \in {1, MaxServers}, NEW p \in Placements(b, y, n)
  PROVE  Inside(p)
  <1>0. n \in 1..32
    BY LayoutAssumption DEF Fits
  <1>1. CASE b.op = "page"
    BY <1>1, PlacedInside DEF Placements, Fresh, Margin
  <1>2. CASE b.op = "para"
    BY <1>2, ParagraphInside, LayoutAssumption DEF Placements, Blocks
  <1>3. CASE b.op = "kv"
    BY <1>3, KvInside DEF Placements
  <1>4. CASE b.op = "kv90"
    <2>1. Below(y, 90) \in Int
      BY DEF Below, Fresh
    <2> QED BY <1>4, <2>1, KvInside DEF Placements
  <1>5. CASE b.op = "fixed"
    BY <1>5, PlacedInside DEF Placements, Blocks
  <1>6. CASE b.op = "skip"
    <2>1. b.size \in Nat /\ y - b.size \in Int /\ Fresh \in Int /\ Fresh >= Margin
      BY DEF Blocks, Fresh, Margin
    <2>2. p = Placed(y - b.size, Fresh)
      BY <1>6 DEF Placements
    <2> QED BY <2>1, <2>2, PlacedInside
  <1>7. CASE b.op = "heading"
    <2>1. b.size \in Nat /\ y - b.size \in Int /\ y >= Margin
      BY <1>7 DEF Blocks
    <2>2. p = Placed(y - b.size, y)
      BY <1>7 DEF Placements
    <2> QED BY <2>1, <2>2, PlacedInside
  <1>8. CASE b.op = "bars"
    BY <1>8, <1>0, BarsInside DEF Placements
  <1>9. CASE b.op = "phase"
    <2>1. Below(y, 95) \in Int /\ Below(y, 95) >= Margin
      BY DEF Below, Fresh, Margin
    <2> QED BY <1>9, <2>1, PlacedInside DEF Placements, PhaseRow
  <1>10. CASE b.op = "rank"
    BY <1>10, RankInside DEF Placements
  <1>11. CASE b.op = "traffic"
    BY <1>11, <1>0, TrafficInside DEF Placements
  <1> QED BY <1>1, <1>2, <1>3, <1>4, <1>5, <1>6, <1>7, <1>8, <1>9, <1>10, <1>11 DEF Blocks

Plain == {b \in Blocks : b.op # "heading"}
GoodScript(s) ==
  /\ s \in Seq(Blocks)
  /\ \A k \in 1..Len(s) : s[k].op = "heading" =>
       k >= 3 /\ s[k - 2] = Page /\ s[k - 1] = Para(10)

\* The blocks that may be drawn anywhere.
LEMMA PlainBlocks ==
  /\ Page \in Plain /\ Row \in Plain
  /\ \A n \in Nat : Para(n) \in Plain /\ Skip(n) \in Plain
  /\ \A n \in Nat : n >= Margin => Fixed(n) \in Plain
  /\ \A o \in {"kv90", "bars", "phase", "rank", "traffic"} : Block(o) \in Plain
  BY DEF Plain, Blocks, Page, Row, Para, Skip, Fixed, Block, Margin

\* Repeating and choosing plain blocks gives plain blocks.
LEMMA PlainParts ==
  /\ \A n \in Nat : \A b \in Plain : Times(n, b) \in Seq(Plain)
  /\ \A n \in Nat : \A s \in Seq(Plain) : Repeated(n, s) \in Seq(Plain)
  /\ \A c \in BOOLEAN : \A s \in Seq(Plain) : If(c, s) \in Seq(Plain)
  /\ \A s, t \in Seq(Plain) : s \o t \in Seq(Plain)
  <1>1. ASSUME NEW n \in Nat, NEW b \in Plain PROVE Times(n, b) \in Seq(Plain)
    BY DEF Times
  <1>2. ASSUME NEW n \in Nat, NEW s \in Seq(Plain) PROVE Repeated(n, s) \in Seq(Plain)
    <2> DEFINE m == n * Len(s)
    <2>1. m \in Nat
      OBVIOUS
    <2>2. \A k \in 1..m : ((k - 1) % Len(s)) + 1 \in 1..Len(s)
      <3> TAKE k \in 1..m
      <3>1. Len(s) \in Nat /\ Len(s) # 0
        OBVIOUS
      <3> QED BY <3>1
    <2> HIDE DEF m
    <2>3. \A k \in 1..m : s[((k - 1) % Len(s)) + 1] \in Plain
      BY <2>2
    <2>4. [k \in 1..m |-> s[((k - 1) % Len(s)) + 1]] \in Seq(Plain)
      BY <2>1, <2>3
    <2> QED BY <2>4 DEF Repeated, m
  <1>3. \A c \in BOOLEAN : \A s \in Seq(Plain) : If(c, s) \in Seq(Plain)
    BY DEF If
  <1> QED BY <1>1, <1>2, <1>3

\* Scripts are put together from plain blocks, and headings that follow a title.
LEMMA GoodParts ==
  /\ \A s \in Seq(Plain) : GoodScript(s)
  /\ \A s, t : GoodScript(s) /\ t \in Seq(Plain) => GoodScript(s \o t)
  /\ \A s : GoodScript(s) => GoodScript(s \o <<Page, Para(10), Heading(22)>>)
  <1>1. Plain \subseteq Blocks
    BY DEF Plain
  <1>2. ASSUME NEW s \in Seq(Plain) PROVE GoodScript(s)
    <2>1. s \in Seq(Blocks) /\ \A k \in 1..Len(s) : s[k] \in Plain
      BY <1>1
    <2> QED BY <2>1 DEF GoodScript, Plain
  <1>3. ASSUME NEW s, NEW t, GoodScript(s), t \in Seq(Plain) PROVE GoodScript(s \o t)
    <2>1. s \in Seq(Blocks) /\ t \in Seq(Blocks) /\ s \o t \in Seq(Blocks)
      BY <1>1, <1>3 DEF GoodScript
    <2>2. \A k \in 1..Len(s) : (s \o t)[k] = s[k]
      BY <2>1
    <2>3. \A k \in 1..Len(s \o t) : k > Len(s) => (s \o t)[k] \in Plain
      BY <1>3, <2>1
    <2>4. ASSUME NEW k \in 1..Len(s \o t), (s \o t)[k].op = "heading"
          PROVE  k >= 3 /\ (s \o t)[k - 2] = Page /\ (s \o t)[k - 1] = Para(10)
      <3>1. k \in 1..Len(s)
        BY <2>1, <2>3, <2>4 DEF Plain
      <3>2. k >= 3 /\ s[k - 2] = Page /\ s[k - 1] = Para(10)
        BY <1>3, <2>2, <2>4, <3>1 DEF GoodScript
      <3> QED BY <2>1, <2>2, <3>1, <3>2
    <2> QED BY <2>1, <2>4 DEF GoodScript
  <1>4. ASSUME NEW s, GoodScript(s) PROVE GoodScript(s \o <<Page, Para(10), Heading(22)>>)
    <2> DEFINE t == <<Page, Para(10), Heading(22)>>
    <2>0. Page \in Blocks /\ Para(10) \in Blocks /\ Heading(22) \in Blocks
          /\ Page.op # "heading" /\ Para(10).op # "heading"
      BY DEF Page, Para, Heading, Blocks
    <2>1. s \in Seq(Blocks) /\ t \in Seq(Blocks) /\ s \o t \in Seq(Blocks) /\ Len(t) = 3
          /\ Len(s) \in Nat /\ Len(s \o t) = Len(s) + 3
          /\ t[1] = Page /\ t[2] = Para(10) /\ t[3] = Heading(22)
      BY <1>4, <2>0 DEF GoodScript
    <2> HIDE DEF t
    <2>2. \A k \in 1..Len(s) : (s \o t)[k] = s[k]
      BY <2>1
    <2>3. /\ (s \o t)[Len(s) + 1] = Page /\ (s \o t)[Len(s) + 2] = Para(10)
      BY <2>1
    <2>4. ASSUME NEW k \in 1..Len(s \o t), (s \o t)[k].op = "heading"
          PROVE  k >= 3 /\ (s \o t)[k - 2] = Page /\ (s \o t)[k - 1] = Para(10)
      <3>1. CASE k \in 1..Len(s)
        <4>1. k >= 3 /\ s[k - 2] = Page /\ s[k - 1] = Para(10)
          BY <1>4, <2>2, <2>4, <3>1 DEF GoodScript
        <4> QED BY <2>1, <2>2, <3>1, <4>1
      <3>2. CASE k > Len(s)
        <4>1. k = Len(s) + 3
          BY <2>0, <2>1, <2>3, <2>4, <3>2
        <4>2. k - 2 = Len(s) + 1 /\ k - 1 = Len(s) + 2 /\ k >= 3
          BY <2>1, <4>1
        <4> QED BY <2>3, <4>2
      <3> QED BY <2>1, <3>1, <3>2
    <2> QED BY <2>1, <2>4 DEF GoodScript, t
  <1> QED BY <1>2, <1>3, <1>4

\* The scripts of both reports are so put together.
LEMMA ScriptsGood ==
  /\ \A split \in BOOLEAN : GoodScript(BaselineScript(split))
  /\ \A type : \A split, estimated \in BOOLEAN : \A phases, ranks \in Nat :
       GoodScript(Io500Script(type, split, estimated, phases, ranks))
  <1>0. /\ Page \in Plain /\ Row \in Plain
        /\ Para(8) \in Plain /\ Para(9) \in Plain /\ Para(10) \in Plain
        /\ Para(11) \in Plain /\ Para(12) \in Plain
        /\ Skip(10) \in Plain /\ Skip(12) \in Plain
        /\ Fixed(58) \in Plain /\ Fixed(81) \in Plain
        /\ Block("kv90") \in Plain /\ Block("bars") \in Plain /\ Block("phase") \in Plain
        /\ Block("rank") \in Plain /\ Block("traffic") \in Plain
    <2>1. /\ Page \in Plain /\ Row \in Plain
          /\ Para(8) \in Plain /\ Para(9) \in Plain /\ Para(10) \in Plain
          /\ Para(11) \in Plain /\ Para(12) \in Plain
          /\ Skip(10) \in Plain /\ Skip(12) \in Plain
      BY PlainBlocks
    <2>2. Fixed(58) \in Plain /\ Fixed(81) \in Plain
      BY PlainBlocks DEF Margin
    <2>3. /\ Block("kv90") \in Plain /\ Block("bars") \in Plain /\ Block("phase") \in Plain
          /\ Block("rank") \in Plain /\ Block("traffic") \in Plain
      BY PlainBlocks
    <2> QED BY <2>1, <2>2, <2>3
  <1>1. ASSUME NEW split \in BOOLEAN PROVE BaselineScript(split) \in Seq(Plain)
    <2> DEFINE a == <<Page, Para(12), Para(9), Fixed(58), Page>>
               b == <<Row, Page, Para(10), Row, Row, Row, Skip(12), Row, Row, Row, Skip(10),
                      Para(12), Row, Row, Para(9), Para(9)>>
               c == <<Page>> \o Times(4, Block("bars")) \o <<Para(9)>>
               d == <<Page, Row, Row, Row, Row, Para(9), Row, Para(9), Para(12)>>
               e == <<Para(9), Page, Para(10)>> \o Times(16, Row) \o <<Para(9), Page>>
               f == <<Para(11), Row, Para(9), Row, Para(9)>>
    <2>1. a \in Seq(Plain)
      BY <1>0
    <2>2. b \in Seq(Plain)
      BY <1>0
    <2>3. c \in Seq(Plain)
      <3>1. <<Page>> \in Seq(Plain) /\ <<Para(9)>> \in Seq(Plain)
        BY <1>0
      <3>2. Times(4, Block("bars")) \in Seq(Plain)
        BY <1>0, PlainParts
      <3> QED BY <3>1, <3>2
    <2>4. d \in Seq(Plain)
      BY <1>0
    <2>5. e \in Seq(Plain)
      <3>1. <<Para(9), Page, Para(10)>> \in Seq(Plain) /\ <<Para(9), Page>> \in Seq(Plain)
        BY <1>0
      <3>2. Times(16, Row) \in Seq(Plain)
        BY <1>0, PlainParts
      <3> QED BY <3>1, <3>2
    <2>6. f \in Seq(Plain)
      BY <1>0
    <2>7. BaselineScript(split) =
            a \o Times(16, Block("kv90")) \o b \o Repeated(2, c) \o d \o Times(9, Para(9))
            \o If(split, e \o Repeated(4, f))
      BY Zenon DEF BaselineScript
    <2> HIDE DEF a, b, c, d, e, f
    <2>8. /\ Times(16, Block("kv90")) \in Seq(Plain) /\ Repeated(2, c) \in Seq(Plain)
          /\ Times(9, Para(9)) \in Seq(Plain) /\ Repeated(4, f) \in Seq(Plain)
      BY <1>0, <2>3, <2>6, PlainParts
    <2>9. If(split, e \o Repeated(4, f)) \in Seq(Plain)
      BY <2>5, <2>8, PlainParts
    <2> QED BY <2>1, <2>2, <2>4, <2>7, <2>8, <2>9
  <1>2. ASSUME NEW type, NEW split \in BOOLEAN, NEW estimated \in BOOLEAN,
               NEW phases \in Nat, NEW ranks \in Nat
        PROVE  GoodScript(Io500Script(type, split, estimated, phases, ranks))
    <2> DEFINE a == <<Page, Para(12), Para(9), Fixed(81), Page>>
               b == If(type = "pnfs", Times(10, Row) \o <<Para(9)>>)
               c == <<Page, Para(10), Heading(22)>>
               d == <<Skip(12), Para(9), Row, Row, Row, Para(9), Para(9)>>
               e == <<Page, Para(8), Row, Row, Row>>
               f == If(estimated, Times(5, Row))
               g == If(estimated /\ split, <<Row, Row, Para(9)>>)
               h == <<Row, Row, Block("traffic")>>
               i == <<Para(9), Row, Para(9), Page>>
               j == If(type = "daos", Times(2, Row) \o Repeated(3, <<Para(12), Row, Row, Row>>))
               k == <<Para(9), Para(12), Para(9), Para(9)>>
               l == <<Para(9), Para(12)>>
               m == <<Para(10), Para(9)>>
               o == <<Page, Para(10)>>
               p == <<Para(8)>>
    <2>1. /\ a \in Seq(Plain) /\ d \in Seq(Plain) /\ e \in Seq(Plain) /\ h \in Seq(Plain)
          /\ i \in Seq(Plain) /\ k \in Seq(Plain) /\ l \in Seq(Plain) /\ m \in Seq(Plain)
          /\ o \in Seq(Plain) /\ p \in Seq(Plain)
      <3>1. a \in Seq(Plain) /\ d \in Seq(Plain)
        BY <1>0
      <3>2. e \in Seq(Plain) /\ h \in Seq(Plain) /\ i \in Seq(Plain)
        BY <1>0
      <3>3. k \in Seq(Plain) /\ l \in Seq(Plain) /\ m \in Seq(Plain)
        BY <1>0
      <3>4. o \in Seq(Plain) /\ p \in Seq(Plain)
        BY <1>0
      <3> QED BY <3>1, <3>2, <3>3, <3>4
    <2>2. b \in Seq(Plain)
      <3>1. Times(10, Row) \in Seq(Plain) /\ <<Para(9)>> \in Seq(Plain)
        BY <1>0, PlainParts
      <3>2. Times(10, Row) \o <<Para(9)>> \in Seq(Plain)
        BY <3>1
      <3> QED BY <3>2, PlainParts
    <2>3. f \in Seq(Plain)
      <3>1. Times(5, Row) \in Seq(Plain)
        BY <1>0, PlainParts
      <3> QED BY <3>1, PlainParts
    <2>4. g \in Seq(Plain)
      <3>1. <<Row, Row, Para(9)>> \in Seq(Plain)
        BY <1>0
      <3> QED BY <3>1, PlainParts
    <2>5. j \in Seq(Plain)
      <3>1. <<Para(12), Row, Row, Row>> \in Seq(Plain) /\ Times(2, Row) \in Seq(Plain)
        BY <1>0, PlainParts
      <3>2. Repeated(3, <<Para(12), Row, Row, Row>>) \in Seq(Plain)
        BY <3>1, PlainParts
      <3>3. Times(2, Row) \o Repeated(3, <<Para(12), Row, Row, Row>>) \in Seq(Plain)
        BY <3>1, <3>2
      <3> QED BY <3>3, PlainParts
    <2>6. Io500Script(type, split, estimated, phases, ranks) =
            a \o Times(13, Row) \o b \o p \o c \o Times(phases, Block("phase")) \o d \o e
            \o f \o g \o l \o Times(phases \div 3, Row) \o m \o o
            \o Times(ranks, Block("rank")) \o o \o Repeated(3, h) \o i \o j \o k
      BY Zenon DEF Io500Script
    <2> HIDE DEF a, b, d, e, f, g, h, i, j, k, l, m, o, p
    <2>7. phases \div 3 \in Nat
      OBVIOUS
    <2>8. /\ Times(13, Row) \in Seq(Plain) /\ Times(phases, Block("phase")) \in Seq(Plain)
          /\ Times(phases \div 3, Row) \in Seq(Plain) /\ Times(ranks, Block("rank")) \in Seq(Plain)
          /\ Repeated(3, h) \in Seq(Plain)
      BY <1>0, <2>1, <2>7, PlainParts
    <2>9. GoodScript(a \o Times(13, Row) \o b \o p)
      BY <2>1, <2>2, <2>8, GoodParts
    <2>10. GoodScript(a \o Times(13, Row) \o b \o p \o c)
      BY <2>9, GoodParts
    <2> HIDE DEF c
    <2>11. GoodScript(a \o Times(13, Row) \o b \o p \o c \o Times(phases, Block("phase"))
                      \o d \o e \o f \o g)
      BY <2>1, <2>3, <2>4, <2>8, <2>10, GoodParts
    <2>12. GoodScript(a \o Times(13, Row) \o b \o p \o c \o Times(phases, Block("phase"))
                      \o d \o e \o f \o g \o l \o Times(phases \div 3, Row) \o m \o o
                      \o Times(ranks, Block("rank")) \o o)
      BY <2>1, <2>8, <2>11, GoodParts
    <2>13. GoodScript(a \o Times(13, Row) \o b \o p \o c \o Times(phases, Block("phase"))
                      \o d \o e \o f \o g \o l \o Times(phases \div 3, Row) \o m \o o
                      \o Times(ranks, Block("rank")) \o o \o Repeated(3, h) \o i \o j \o k)
      BY <2>1, <2>5, <2>8, <2>12, GoodParts
    <2> QED BY <2>6, <2>13
  <1> QED BY <1>1, <1>2, GoodParts

\* Where the cursor is when a heading is next.
OnPage ==
  /\ cursor \in Int /\ drawn \in Int /\ drawn >= Margin
  /\ index \in Nat \ {0}
  /\ at = "draw" =>
       /\ GoodScript(script)
       /\ \A k \in 1..Len(script) : k = index - 1 /\ script[k] = Page => cursor = Fresh
       /\ \A k \in 1..Len(script) :
            k = index - 1 /\ k > 1 /\ script[k - 1] = Page /\ script[k] = Para(10) =>
              cursor >= Margin

\* Every step of the reports keeps the position on the page.
LEMMA OnPageStep ==
  ASSUME Fits, OnPage, [ReportNext]_reportVars
  PROVE  OnPage'
  <1>1. CASE UNCHANGED reportVars
    BY <1>1 DEF reportVars, OnPage
  <1>2. CASE Read \/ ReadBaseline \/ Scope \/ Stack \/ Compare \/ ManifestFails \/ DeriveFails
    <2>1. /\ UNCHANGED <<cursor, drawn, script>>
          /\ index' = index \/ index' = index + 1
          /\ at' # "draw"
      BY <1>2 DEF Read, ReadBaseline, Scope, Stack, Compare, ManifestFails, DeriveFails
    <2> QED BY <2>1 DEF OnPage
  <1>3. CASE StartPages \/ StartBaseline
    <2>1. UNCHANGED <<cursor, drawn>> /\ index' = 1
      BY <1>3 DEF StartPages, StartBaseline, Lay
    <2>2. GoodScript(script')
      <3>1. CASE StartBaseline
        BY <3>1, ScriptsGood DEF StartBaseline, Lay
      <3>2. CASE StartPages
        <4> DEFINE some == {k \in 1..Len(Phases) : Phases[k] \in Mdtests}
        <4>1. Len(Phases) \in Nat
          BY PhasesAssumption
        <4>2. Cardinality(some) \in Nat
          <5>1. IsFiniteSet(1..Len(Phases))
            BY <4>1, FS_Interval
          <5>2. IsFiniteSet(some)
            BY <5>1, FS_Subset
          <5> QED BY <5>2, FS_CardinalityType
        <4>3. script' = Io500Script(run.kind, HasMds, derived # None, Len(Phases), Cardinality(some))
          BY <3>2 DEF StartPages, Lay
        <4> HIDE DEF some
        <4>4. HasMds \in BOOLEAN /\ (derived # None) \in BOOLEAN
          BY DEF HasMds
        <4> QED BY <4>1, <4>2, <4>3, <4>4, ScriptsGood
      <3> QED BY <1>3, <3>1, <3>2
    <2> QED BY <2>1, <2>2 DEF OnPage
  <1>4. CASE Draw
    <2>1. /\ at = "draw" /\ at' = at /\ script' = script /\ index' = index + 1
          /\ index \in 1..Len(script)
      BY <1>4 DEF Draw, OnPage, GoodScript
    <2>0. PICK n \in {1, MaxServers} :
            \E p \in Placements(script[index], cursor, n) : cursor' = p.y /\ drawn' = p.low
      BY <1>4 DEF Draw
    <2>2. PICK p \in Placements(script[index], cursor, n) : cursor' = p.y /\ drawn' = p.low
      BY <2>0
    <2>3. script[index] \in Blocks /\ script \in Seq(Blocks)
      BY <2>1 DEF OnPage, GoodScript
    <2>4. script[index].op = "heading" => cursor >= Margin
      <3> SUFFICES ASSUME script[index].op = "heading" PROVE cursor >= Margin
        OBVIOUS
      <3>1. index >= 3 /\ script[index - 2] = Page /\ script[index - 1] = Para(10)
        BY <2>1 DEF OnPage, GoodScript
      <3>2. index - 1 \in 1..Len(script) /\ index - 1 > 1 /\ (index - 1) - 1 = index - 2
        BY <2>1, <2>3, <3>1
      <3> QED BY <2>1, <3>1, <3>2 DEF OnPage
    <2>5. Inside(p)
      BY <2>2, <2>3, <2>4, BlockInside DEF OnPage
    <2>6. cursor' \in Int /\ drawn' \in Int /\ drawn' >= Margin
      BY <2>2, <2>5 DEF Inside
    <2>7. script[index] = Page => cursor' = Fresh
      BY <2>2 DEF Placements, Page, Placed
    <2>8. ASSUME index > 1, script[index - 1] = Page, script[index] = Para(10)
          PROVE  cursor' >= Margin
      <3>1. cursor = Fresh
        BY <2>1, <2>3, <2>8 DEF OnPage
      <3>2. PICK w \in WrapLines : p = Paragraph(Fresh, w, 10)
        BY <2>2, <2>8, <3>1 DEF Placements, Para
      <3>3. w \in Nat /\ w <= 5
        BY LayoutAssumption DEF Fits
      <3>4. Paragraph(Fresh, w, 10).y >= Fresh - 15 * w - 8
        BY <3>3, ParagraphInside DEF Fresh
      <3> QED BY <2>2, <2>6, <3>2, <3>3, <3>4 DEF Fresh, Margin
    <2>9. index' - 1 = index
      BY <2>1
    <2> QED BY <2>1, <2>3, <2>6, <2>7, <2>8, <2>9 DEF OnPage
  <1>5. CASE Write
    BY <1>5 DEF Write, OnPage, Fresh, Margin
  <1> QED BY <1>1, <1>2, <1>3, <1>4, <1>5 DEF ReportNext

\* With values of at most 45 lines, texts of at most 5 and roles of at most 32
\* servers, nothing is drawn below the margin in either report, whatever the
\* number of phases (the guards of report_pages, pages and class Pages).  A value of
\* 46 lines and the traffic of 33 servers overflow even a fresh page, a text of 6 lines
\* one whose rest the guard of its block has just accepted.
THEOREM AlwaysInside == Fits => (ReportSpec => []InsideMargins)
  <1> SUFFICES ASSUME Fits PROVE ReportSpec => []InsideMargins
    OBVIOUS
  <1>1. ReportInit => OnPage
    BY DEF ReportInit, OnPage, Fresh, Margin
  <1>2. OnPage => InsideMargins
    BY DEF OnPage, InsideMargins
  <1>3. OnPage /\ [ReportNext]_reportVars => OnPage'
    BY OnPageStep
  <1> QED BY <1>1, <1>2, <1>3, PTL DEF ReportSpec
=============================================================================

------------------------------ MODULE Baseline ------------------------------
(***************************************************************************)
(* The performance system: phase 6 (playbooks/performance/test.yaml and    *)
(* files/measure.py) overwrites the raw SSDs of every storage server with  *)
(* FIO, measures the links with OSU, and saves one manifest per run below  *)
(* a results root that all experiments share; phase 7 (report.yaml,        *)
(* files/report.py) selects one manifest, renders it and adds the derived  *)
(* values to it.                                                           *)
(*                                                                         *)
(* Phase 6 runs on allocated nodes, so one play at a time is modelled; the *)
(* phase 7 of another experiment may run beside it on the controller.      *)
(* Either may be interrupted at any point.  The FIO jobs are detached      *)
(* (async, poll 0): an interrupted play leaves them running.               *)
(***************************************************************************)
EXTENDS Naturals, Sequences, FiniteSets

CONSTANTS
  Nodes,        \* the physical nodes
  Experiments,  \* the artifact directories, each with its own image_dir
  Inventories,  \* the inventories an experiment may hold
  Ds, Mds, Clients, \* the groups of an inventory: sequences of nodes
  Claimable,    \* the nodes whose SSDs may be used by something else
  MaxRuns       \* bound: the number of phase 6 runs

\* test.yaml:12-15, asserted before anything else: both roles are present, no
\* client is a server and no metadata server has another role.
ASSUME TopologyAssumption ==
  /\ Ds \in [Inventories -> Seq(Nodes)]
  /\ Mds \in [Inventories -> Seq(Nodes)]
  /\ Clients \in [Inventories -> Seq(Nodes)]
  /\ \A i \in Inventories :
       /\ Len(Ds[i]) > 0
       /\ Len(Clients[i]) > 0
       /\ \A a \in 1..Len(Clients[i]), b \in 1..Len(Ds[i]) : Clients[i][a] # Ds[i][b]
       /\ \A a \in 1..Len(Clients[i]), b \in 1..Len(Mds[i]) : Clients[i][a] # Mds[i][b]
\* No node is listed twice in a group (an Ansible group has distinct hosts).
ASSUME DistinctAssumption ==
  \A i \in Inventories :
     /\ \A a, b \in 1..Len(Ds[i]) : Ds[i][a] = Ds[i][b] => a = b
     /\ \A a, b \in 1..Len(Mds[i]) : Mds[i][a] = Mds[i][b] => a = b
     /\ \A a, b \in 1..Len(Clients[i]) : Clients[i][a] = Clients[i][b] => a = b
ASSUME BoundAssumption == MaxRuns \in Nat \ {0} /\ Claimable \subseteq Nodes

VARIABLES
  inv,       \* the inventory of each experiment
  device,    \* what the SSDs of a node hold: "raw" or "claimed"
  nextRun,   \* the run directories allocated so far
  play,      \* the phase 6 play: its experiment, run and current task
  jobs,      \* the detached FIO jobs that run on a node, by run
  fio,       \* the nodes whose FIO results the play has
  osu,       \* the node pairs with an OSU job in progress
  manifest,  \* the manifest of each run
  pointer,   \* the run performance-manifest-path.txt names, 0 without the file
  published, \* history: the runs an experiment has published
  phase7     \* the report in progress

vars == <<inv, device, nextRun, play, jobs, fio, osu, manifest, pointer, published, phase7>>

Runs == 1..MaxRuns
Storage(i) == {Ds[i][k] : k \in 1..Len(Ds[i])} \cup {Mds[i][k] : k \in 1..Len(Mds[i])}
Absent == [state |-> "absent", inv |-> "none", fio |-> {}, pairs |-> {}, derived |-> "no"]
Idle == [at |-> "idle", exp |-> "none", inv |-> "none", run |-> 0, plane |-> 0, link |-> 0]
NoReport == [at |-> "idle", exp |-> "none", inv |-> "none", run |-> 0, data |-> Absent]

-----------------------------------------------------------------------------
(***************************************************************************)
(* measure.py                                                              *)
(***************************************************************************)

\* check_devices: no DAOS service, whole disks without children, mounts,
\* signatures or swap; "claimed" stands for any of them.
CheckDevices(n) == device[n] = "raw"

\* Mutant: only the data servers check their devices before the first write.
CheckedDs(i) == {Ds[i][k] : k \in 1..Len(Ds[i])}

\* The hosts of the preflight's device check: 'ds' or 'mds' in group_names.
Checked(i) == Storage(i)

\* The two network sweeps: clients with data servers, then, when there are
\* metadata servers, clients with those (measure_network).
Planes(i) == IF Len(Mds[i]) > 0 THEN <<Ds[i], Mds[i]>> ELSE <<Ds[i]>>

\* itertools.product(clients, servers) + combinations(servers, 2), in order.
Links(i, servers) ==
  LET c == Clients[i]
      s == Len(servers)
      cross == [k \in 1..(Len(c) * s) |->
                  <<c[((k - 1) \div s) + 1], servers[((k - 1) % s) + 1]>>]
      inner(a) == [k \in 1..(s - a) |-> <<servers[a], servers[a + k]>>]
      flat[a \in 1..s] == IF a = s THEN <<>> ELSE inner(a) \o flat[a + 1]
  IN cross \o flat[1]

\* Mutant: every client and server pair is launched at once.
ZipAll(i, servers) ==
  {<<Clients[i][k], servers[j]>> : k \in 1..Len(Clients[i]), j \in 1..Len(servers)}

\* zip(clients, servers): the pairs launched together.
ZipPairs(i, servers) ==
  {<<Clients[i][k], servers[k]>> :
     k \in {j \in 1..Len(Clients[i]) : j <= Len(servers)}}

-----------------------------------------------------------------------------
(***************************************************************************)
(* Phase 6                                                                 *)
(***************************************************************************)

At(task) == [play EXCEPT !.at = task]

\* Mutant: a play that ended stays in the state "failed".
OverFailed == play' = [Idle EXCEPT !.at = "failed"] /\ osu' = {} /\ fio' = {}

\* The play is over, with or without a result; detached FIO jobs live on.
Over == play' = Idle /\ osu' = {} /\ fio' = {}

files == <<manifest, pointer, published>>

\* The first play: every server checks its devices (any_errors_fatal), then a
\* run directory is allocated.
Preflight(e) ==
  /\ play.at = "idle"
  /\ phase7.exp # e \/ phase7.at \in {"idle", "done", "failed"}
  /\ nextRun < MaxRuns
  /\ \A n \in Checked(inv[e]) : CheckDevices(n)
  /\ nextRun' = nextRun + 1
  /\ play' = [Idle EXCEPT !.at = "launch", !.exp = e, !.inv = inv[e], !.run = nextRun + 1]
  /\ UNCHANGED <<inv, device, jobs, fio, osu, files, phase7>>

\* Launch raw-device FIO on every storage server: measure_fio checks the
\* devices of its node again, the job that finds them in use has failed.
Launch ==
  /\ play.at = "launch"
  /\ jobs' = [n \in Nodes |-> IF n \in Storage(play.inv) /\ CheckDevices(n)
                              THEN jobs[n] \cup {play.run} ELSE jobs[n]]
  /\ play' = At("fio")
  /\ UNCHANGED <<inv, device, nextRun, fio, osu, files, phase7>>

\* A job has done its four workloads, one after the other.
FioDone(n, r) ==
  /\ r \in jobs[n]
  /\ jobs' = [jobs EXCEPT ![n] = @ \ {r}]
  /\ fio' = IF r = play.run THEN fio \cup {n} ELSE fio
  /\ UNCHANGED <<inv, device, nextRun, play, osu, files, phase7>>

\* A workload fails or exceeds its time.
FioFails(n, r) ==
  /\ r \in jobs[n]
  /\ jobs' = [jobs EXCEPT ![n] = @ \ {r}]
  /\ UNCHANGED <<inv, device, nextRun, play, fio, osu, files, phase7>>

\* Wait for FIO measurements: every job of the run has ended.
Waited == \A n \in Storage(play.inv) : play.run \notin jobs[n]

Wait ==
  /\ play.at = "fio"
  /\ Waited
  /\ fio = Storage(play.inv)
  /\ play' = [play EXCEPT !.at = "pairwise", !.plane = 1, !.link = 0]
  /\ UNCHANGED <<inv, device, nextRun, jobs, fio, osu, files, phase7>>

\* One job failed: any_errors_fatal ends the play.
WaitFails ==
  /\ play.at = "fio"
  /\ Waited
  /\ fio # Storage(play.inv)
  /\ Over
  /\ UNCHANGED <<inv, device, nextRun, jobs, files, phase7>>

Servers == Planes(play.inv)[play.plane]

\* measure_network_role: latency and bandwidth of one link after the other.
Pairwise ==
  /\ play.at = "pairwise"
  /\ osu = {}
  /\ play.link < Len(Links(play.inv, Servers))
  /\ osu' = {Links(play.inv, Servers)[play.link + 1]}
  /\ play' = [play EXCEPT !.link = @ + 1]
  /\ UNCHANGED <<inv, device, nextRun, jobs, fio, files, phase7>>

\* All links are measured: a thread per client/server pair.
Concurrent ==
  /\ play.at = "pairwise"
  /\ osu = {}
  /\ play.link = Len(Links(play.inv, Servers))
  /\ osu' = ZipPairs(play.inv, Servers)
  /\ play' = At("concurrent")
  /\ UNCHANGED <<inv, device, nextRun, jobs, fio, files, phase7>>

OsuDone(p) ==
  /\ p \in osu
  /\ osu' = osu \ {p}
  /\ UNCHANGED <<inv, device, nextRun, play, jobs, fio, files, phase7>>

\* All threads have ended: the metadata plane follows, or the manifest.
Joined ==
  /\ play.at = "concurrent"
  /\ osu = {}
  /\ play' = IF play.plane < Len(Planes(play.inv))
             THEN [play EXCEPT !.at = "pairwise", !.plane = @ + 1, !.link = 0]
             ELSE At("manifest")
  /\ UNCHANGED <<inv, device, nextRun, jobs, fio, osu, files, phase7>>

\* A failed OSU job raises: the only host of this play has failed, and the
\* playbook ends.
OsuFails ==
  /\ osu # {}
  /\ Over
  /\ UNCHANGED <<inv, device, nextRun, jobs, files, phase7>>

\* write_text of manifest.json: the file is opened empty, then written.
OpenManifest ==
  /\ play.at = "manifest"
  /\ manifest' = [manifest EXCEPT ![play.run] = [Absent EXCEPT !.state = "partial"]]
  /\ play' = At("writing")
  /\ UNCHANGED <<inv, device, nextRun, jobs, fio, osu, pointer, published, phase7>>

WriteManifest ==
  /\ play.at = "writing"
  /\ manifest' = [manifest EXCEPT ![play.run] =
                    [state |-> "complete", inv |-> play.inv, fio |-> fio,
                     pairs |-> ZipPairs(play.inv, Ds[play.inv]), derived |-> "no"]]
  /\ play' = At("publish")
  /\ UNCHANGED <<inv, device, nextRun, jobs, fio, osu, pointer, published, phase7>>

\* The copy module replaces the pointer file; the play then removes its
\* scratch files and ends.
Publish ==
  /\ play.at = "publish"
  /\ pointer' = [pointer EXCEPT ![play.exp] = play.run]
  /\ published' = [published EXCEPT ![play.exp] = @ \cup {play.run}]
  /\ Over
  /\ UNCHANGED <<inv, device, nextRun, jobs, manifest, phase7>>

\* The user interrupts make, or a node becomes unreachable.
Interrupt ==
  /\ play.at # "idle"
  /\ Over
  /\ UNCHANGED <<inv, device, nextRun, jobs, files, phase7>>

-----------------------------------------------------------------------------
(***************************************************************************)
(* Phase 7                                                                 *)
(***************************************************************************)

phase6 == <<device, nextRun, play, jobs, fio, osu>>

\* The candidate the pointer names is a file.
PointerUsable(e) == pointer[e] # 0 /\ manifest[pointer[e]].state # "absent"

Matching(e) == {r \in Runs : manifest[r].state = "complete" /\ manifest[r].inv = inv[e]}

\* json.loads raises on a manifest that is not written yet.
Unreadable == {r \in Runs : manifest[r].state = "partial"}

\* Mutant: the run of the pointer is used whatever its groups are.
SelectPointed(e) ==
  IF PointerUsable(e) THEN pointer[e]
  ELSE IF Unreadable # {} \/ Matching(e) = {} THEN 0
  ELSE CHOOSE r \in Matching(e) : \A s \in Matching(e) : s <= r

\* select_manifest: the pointer's manifest when its groups are the
\* inventory's, else the newest of all those in the root whose groups are.
\* The result is 0 when it raises.
SelectManifest(e) ==
  IF PointerUsable(e) /\ manifest[pointer[e]].state = "partial" THEN 0
  ELSE IF PointerUsable(e) /\ manifest[pointer[e]].inv = inv[e] THEN pointer[e]
  ELSE IF Unreadable # {} \/ Matching(e) = {} THEN 0
  ELSE CHOOSE r \in Matching(e) : \A s \in Matching(e) : s <= r

Select(e) ==
  /\ phase7.at \in {"idle", "done", "failed"}
  /\ play.exp # e
  /\ LET r == SelectManifest(e)
     IN phase7' = IF r = 0
                  THEN [NoReport EXCEPT !.at = "failed", !.exp = e]
                  ELSE [NoReport EXCEPT !.at = "render", !.exp = e, !.inv = inv[e], !.run = r]
  /\ UNCHANGED <<inv, phase6, files>>

\* generate: the manifest is read, the estimates are derived from it, the
\* topology and the pages are rendered, and the PDF is written.
Render ==
  /\ phase7.at = "render"
  /\ phase7' = [phase7 EXCEPT !.at = "save", !.data = manifest[phase7.run]]
  /\ UNCHANGED <<inv, phase6, files>>

\* Mutant: the manifest is opened for writing in place.
SaveInPlace ==
  /\ phase7.at = "save"
  /\ manifest' = [manifest EXCEPT ![phase7.run] = [Absent EXCEPT !.state = "partial"]]
  /\ phase7' = [phase7 EXCEPT !.at = "done", !.data = Absent]
  /\ UNCHANGED <<inv, phase6, pointer, published>>

\* atomic_json: the derived values are added to what was read, and the
\* manifest is replaced by a file that is already complete.
Save ==
  /\ phase7.at = "save"
  /\ manifest' = [manifest EXCEPT ![phase7.run] = [phase7.data EXCEPT !.derived = "yes"]]
  /\ phase7' = [phase7 EXCEPT !.at = "done", !.data = Absent]
  /\ UNCHANGED <<inv, phase6, pointer, published>>

\* A missing tool, a failing dot or ps2pdf, or an interrupt: the temporary
\* file of atomic_json does not match the name select_manifest looks for.
ReportFails ==
  /\ phase7.at \in {"render", "save"}
  /\ phase7' = [NoReport EXCEPT !.at = "failed", !.exp = phase7.exp]
  /\ UNCHANGED <<inv, phase6, files>>

-----------------------------------------------------------------------------
(***************************************************************************)
(* The environment                                                         *)
(***************************************************************************)

\* The inventory of an artifact directory is edited (a directory inventory
\* keeps its hash) while none of its phases runs.
Edit(e) ==
  /\ play.exp # e
  /\ phase7.at \in {"idle", "done", "failed"}
  /\ \E i \in Inventories : inv' = [inv EXCEPT ![e] = i]
  /\ phase7' = NoReport
  /\ UNCHANGED <<phase6, files>>

\* Something else formats, mounts or releases the SSDs of a node between two
\* plays; the nodes of a play are allocated to it.
Claim(n) ==
  /\ play.at = "idle"
  /\ device' = [device EXCEPT ![n] = IF @ = "raw" THEN "claimed" ELSE "raw"]
  /\ UNCHANGED <<inv, nextRun, play, jobs, fio, osu, files, phase7>>

Init ==
  /\ inv \in [Experiments -> Inventories]
  /\ device = [n \in Nodes |-> "raw"]
  /\ nextRun = 0
  /\ play = Idle
  /\ jobs = [n \in Nodes |-> {}]
  /\ fio = {}
  /\ osu = {}
  /\ manifest = [r \in Runs |-> Absent]
  /\ pointer = [e \in Experiments |-> 0]
  /\ published = [e \in Experiments |-> {}]
  /\ phase7 = NoReport

Phase6Step ==
  \/ \E e \in Experiments : Preflight(e)
  \/ Launch
  \/ \E n \in Nodes, r \in Runs : FioDone(n, r) \/ FioFails(n, r)
  \/ Wait
  \/ WaitFails
  \/ Pairwise
  \/ Concurrent
  \/ \E p \in osu : OsuDone(p)
  \/ Joined
  \/ OsuFails
  \/ OpenManifest
  \/ WriteManifest
  \/ Publish
  \/ Interrupt

Phase7Step ==
  \/ \E e \in Experiments : Select(e)
  \/ Render
  \/ Save
  \/ ReportFails

Next ==
  \/ Phase6Step
  \/ Phase7Step
  \/ \E e \in Experiments : Edit(e)
  \/ \E n \in Claimable : Claim(n)

Spec == Init /\ [][Next]_vars

-----------------------------------------------------------------------------
(***************************************************************************)
(* Properties                                                              *)
(***************************************************************************)

Manifest ==
  [state : {"absent", "partial", "complete"}, inv : Inventories \cup {"none"},
   fio : SUBSET Nodes, pairs : SUBSET (Nodes \X Nodes), derived : {"no", "yes"}]

\* The types of the state (test.yaml, measure.py and report.py).
TypeOK ==
  /\ inv \in [Experiments -> Inventories]
  /\ device \in [Nodes -> {"raw", "claimed"}]
  /\ nextRun \in 0..MaxRuns
  /\ play \in [at : {"idle", "launch", "fio", "pairwise", "concurrent", "manifest",
                     "writing", "publish"},
               exp : Experiments \cup {"none"}, inv : Inventories \cup {"none"},
               run : 0..MaxRuns, plane : 0..2, link : Nat]
  /\ jobs \in [Nodes -> SUBSET Runs]
  /\ fio \subseteq Nodes
  /\ osu \subseteq Nodes \X Nodes
  /\ manifest \in [Runs -> Manifest]
  /\ pointer \in [Experiments -> 0..MaxRuns]
  /\ published \in [Experiments -> SUBSET Runs]
  /\ phase7 \in [at : {"idle", "render", "save", "done", "failed"},
                 exp : Experiments \cup {"none"}, inv : Inventories \cup {"none"},
                 run : 0..MaxRuns, data : Manifest]

\* No server of a run is written to while the SSDs of any server of that run
\* are in use: a mounted, formatted or DAOS-owned disk anywhere stops the run
\* before the first write (test.yaml:25-30, measure.py:24-50).
AllRawBeforeWrites ==
  (play.at # "idle" /\ \E n \in Nodes : play.run \in jobs[n]) =>
    \A n \in Storage(play.inv) : device[n] = "raw"

\* The measurements of a run do not disturb each other: the OSU jobs that run
\* at the same time share no node, and none runs before the run's FIO jobs
\* have ended everywhere (test.yaml:98-105, measure.py:113-125).
MeasuredAlone ==
  /\ \A p, q \in osu : p # q => {p[1], p[2]} \cap {q[1], q[2]} = {}
  /\ osu # {} => \A n \in Nodes : play.run \notin jobs[n]

\* A report shows a complete baseline of the inventory, with FIO results of
\* every storage server, and never one older than a run that this experiment
\* has published for it (test.yaml:210-217, report.py:161-177).
ReportsLast ==
  phase7.at \in {"render", "save"} =>
    LET m == manifest[phase7.run]
    IN /\ m.state = "complete"
       /\ m.inv = phase7.inv
       /\ m.fio = Storage(phase7.inv)
       /\ \A r \in published[phase7.exp] : manifest[r].inv = phase7.inv => r <= phase7.run

\* Whatever is interrupted, a report never damages a baseline: the samples of
\* a complete manifest stay as they are (report.py:317-320, atomic_json).
SamplesKept ==
  [][\A r \in Runs : manifest[r].state = "complete" =>
       /\ manifest'[r].state = "complete"
       /\ manifest'[r].inv = manifest[r].inv
       /\ manifest'[r].fio = manifest[r].fio
       /\ manifest'[r].pairs = manifest[r].pairs]_vars

=============================================================================

# TLA+ models of TASSI

TASSI builds storage clusters (Lustre, BeeGFS, pNFS, DAOS) on real or virtual
machines, benchmarks them and reports.  It is mostly Ansible, driven by a
generated Makefile.  There is no server to reason about: what has to be right is
what is *left behind* - files, images, disks, services - when runs fail
part-way, are repeated, edited, cleaned, or overlap.  That is what these models
are about.

## The system

| component | state it keeps | operations | interacts through |
|---|---|---|---|
| `bootstrap.sh`, `playbooks/bootstrap` | an artifact directory per inventory content: Makefile, inventories, tofu workspace | bootstrap | the Makefile's mtime against the inventory's |
| phase workflow (`Makefile.j2`) | one status file per phase | `make phaseN`, `make phaseN-clean`, edits, `FORCE=1` | status file mtimes; the phases' infrastructure, named after the tag |
| `tools/xem_alloc` | a state file per experiment; the testbed's nodes | alloc, remove, list | files in the user's home directory, shared by all its processes; `makebed`, `node_list` |
| phase 0, preparation | packages on physical hosts | install | - |
| phase 1, gold images | libvirt domains, disks, qcow2 files | create, makeclean | hosts in parallel; later phases clone the files |
| phase 2, networks | wireguard interfaces, keys, addresses, routes | create, makeclean | peers read each other's keys |
| phase 3, virtual cluster | VMs (tofu) or mvpnet processes | apply, destroy; launch, kill | polling for addresses, counting log lines |
| phase 4, network test | result files | measure | - |
| phase 5, file systems | formatted devices, services, mounts, fingerprints | configure, makeclean | servers, clients and management node in lock step |
| phase 6, performance baseline (`playbooks/performance`) | SSDs that are overwritten, detached FIO jobs, run directories with manifests, a pointer per experiment | check, fio, network, manifest | one results root for all experiments |
| phase 6, IO500 | result directories, counters | run | the file system of phase 5 |
| phase 7, reports | PDF, derived values in the manifests | select, generate | read phase 6's results and a saved baseline |
| phase 8, compatibility capture | `compatibility.yaml` | capture | read-modify-write of one file |
| `tools/create_config_inventory.py`, `configs/xem/generate_*.py` | none | names, addresses, files of configurations | - |
| sweeps (`configs/xem/run_*.sh`, `get_results.py`) | none of their own | clean, bootstrap, make, for many configurations | status files and deployments of all configurations; `pnfs-lab.env` |

Hard behaviours: a run stopped between any two tasks; tasks that fail on some
hosts only; hosts that work through their lists in parallel (`strategy: free`);
registered results (`changed`) lost with a failed run while the files they speak
of remain; decisions from file existence and mtimes; concurrent processes on one
directory.  `PROJECT.json` lists the hazards, each with its line.

What makes each component correct, in one sentence each:

- workflow: a phase is skipped only when what it stands for is in place and was
  built on what is now below it;
- xem_alloc: nodes that are held are on record, and one experiment has one owner;
- phase 1: a successful run leaves every image, no later run spoils one, and
  repeating the run gets there;
- phase 5: a successful run leaves what the inventory asks for whatever happened
  before; no run destroys or reshapes storage that holds data;
- phases 2 and 3: a rerun converges to one consistent mesh / the wanted VMs;
- phase 6: nothing is written before every server has agreed, nothing measures
  another measurement, and a manifest that exists stays;
- phase 7: a report shows the experiment's own last baseline, and a percentage only
  where the run and the baseline correspond;
- sweeps: a benchmark runs on its own configuration's deployment, and a sweep that
  ends well has measured everything;
- phase 8: no record is lost;
- bootstrap: what a make reads comes from one bootstrap and from the present inventory.

## Modules

| module | models | kind |
|---|---|---|
| `PhaseChain` | what the status files promise: per configuration, a completed prefix of the phases that grows and shrinks at its end | abstract specification |
| `Workflow` | `Makefile.j2` run by one user, inventories edited, several configurations of one tag | state machine, refines `PhaseChain` |
| `WorkflowProofs` | theorems about `Workflow` | proofs |
| `XemAlloc` | `tools/xem_alloc`, several processes of one user (the state files are in `Path.home()`) | state machine |
| `XemAllocProofs` | theorems about `XemAlloc` | proofs |
| `GoldImages` | phase 1 with VMs | state machine with fairness |
| `GoldProofs` | theorems about `GoldImages` | proofs |
| `DaosConfig` | phase 5 of DAOS | state machine |
| `DaosProofs` | theorems about `DaosConfig` | proofs |
| `LustreConfig` | phase 5 of Lustre | state machine with fairness |
| `LustreProofs` | theorems about `LustreConfig` | proofs |
| `Baseline` | phases 6 and 7 of the performance system | state machine |
| `PhaseProofs` | theorems about `Baseline`, `Mvpnet` and `Report` | proofs |
| `Estimates` | the arithmetic of both reports, and the part of a baseline that covers a run | operators |
| `Pages` | the vertical layout of both reports | operators |
| `Report` | phase 7: what is compared, and what is drawn, on `Estimates` and `Pages` | state machine |
| `EnvTopology` | `update_env_topology.py`, a file as a sequence of lines | operators |
| `Inventory` | the generators of inventories and configurations | operators |
| `Sweep` | sweeps and their configurations' phases 5 to 7, on `EnvTopology` | state machine |
| `SweepProofs` | theorems about `Sweep`, `EnvTopology` and `Inventory` | proofs |
| `Bootstrap` | `bootstrap.sh`, `bootstrap.yaml` and the Makefile's self-check | state machine |
| `BootstrapProofs` | theorems about `Bootstrap` | proofs |
| `Mvpnet` | phase 3 with mvpnet | state machine with fairness |
| `Capture` | phase 8 | state machine |
| `MCWorkflow`, `MCXemAlloc`, `MCDaos`, `MCLustre`, `MCBaseline`, `MCReport`, `MCSweep`, `MCMvpnet`, `MCCapture` | values of constants for TLC | model checking |

Operators named "Mutant" in a comment are variants of the definition that
follows them, with a plausible bug; no specification uses them.  They serve to
see that the properties notice.

### Workflow

`status[c][k]` is the mtime of configuration `c`'s `status.phase<k>` (0: absent)
and `boot[c]` that of its Makefile; `gen[k]` is the creation of phase `k` that is
in place, `on[k]` the creation of phase `k-1` it was made on, `by[k]` the
configuration that made it: infrastructure is shared by configurations of one
tag, status files are not.  `clock` hands out mtimes.  `StartMake` is the
parse-time check, `SkipPhase`/`StartRecipe` are make's decision, `FinishRecipe`
is `touch $@`, `CleanPhase` a clean recipe with its `rm -f`.  `FailRecipe`,
`FailClean` and `Interrupt` are the ways of stopping.  `cut` remembers the phases
whose clean was cut short: their infrastructure is gone and their status file is
not, which the code does not notice.

Two mtimes are never equal in the model.  Sources read by a recipe are read when
it starts.

### XemAlloc

A process is one command line.  Its program counter stops wherever another
process can make a difference: between listing the directory and reading each
file, before the hard link, around `makebed`, before each unlink.  `sfile[e]`
holds *who* linked the state file of `e`, which the code does not know.
`makebed` creates an experiment that does not exist, or fails.

### GoldImages

Hosts go through their lists with `work` and `hpc`; `down` are those on which a
task has failed.  The disk of a VM is `blank` (no system), `bare`, `half` or
`full` of software, and a qcow2 file has the content of the disk it was converted
from, or is `torn`.  Under the free strategy `any_errors_fatal` has no effect:
the next play starts unless every host of a play has failed.  `Kill` cuts short
whatever is running.

### DaosConfig

The plays are linear and `any_errors_fatal`: `pc` is the next task, done on a set
of servers `S`; the run goes on only when `S` is all of them.  `yml`, `saved`
(the fingerprint), `ram`, `running`, `mapped` and `bound` are what the tasks leave
on the servers, `changed` what is lost with the run.  Sizes are numbers so that
headroom, capacity and shrinking can be compared, and `Memory` is what
`ansible_memtotal_mb` finds on each server.  `Guard` is the check against the
fingerprint and the assertion on the memory, which a run must pass whether or not its
configuration has changed.  The network and agent plays do nothing that the properties
speak of; that they may fail is in `Abort`.  The `ds` group and the NVMe devices are
constant, the part of the pool on NVMe is left out (a creation that its devices refuse is a
failed task), and the settings that the other two assertions check, which depend on
nothing but the inventory, are taken to be in order.

### LustreConfig

A task is `Task(here, S, able, all, next)`: for the hosts `all`, possible on those
in `able`, done on `S`; the run goes on when `S` is all of them.  Targets, pools
and mount points are named `<<group, index>>`, the index being the place of the
server in the inventory; `inv` is edited between runs, among the inventories the
configuration lists: its metadata and object servers in their order, its clients and
whether there is failover.  A run acts on the hosts its inventory names; one that was
dropped keeps its mounts and its pool, and finds them when it is taken back, as a server
or as a client.  Hosts are numbers in the order of their names, so that
`Sorted` is the code's `sort`.  In `Destroy` and `Prepare` the element 0 stands for
what is not a target's: the MGS pool, the preparations.

The tasks before the unmounting (modules, LNet) and the starting of services only
matter by failing.  A failed `mkfs.lustre` leaves an unformatted target, since
reruns always reformat.

### Baseline

`play` is the phase 6 playbook: its experiment, its run and the task it is at;
`jobs[n]` are the FIO jobs on node `n`, by run, because a job started with `poll: 0`
outlives an interrupted play; `osu` are the node pairs with an OSU job.  `manifest`,
`pointer` and `phase7` are what the two phases share on the controller, where phase
7 of one experiment may run beside phase 6 of another.  A manifest is `partial`
between the `open` and the end of `write_text`.  `device[n]` is `claimed` when
anything that `check_devices` looks for is found.  `published` is history.

Phase 6 runs on allocated nodes, so there is one at a time and nothing else takes
their disks meanwhile; between runs anything may.  Rates are not in this module.

### Report

`Read` takes any of the saved runs and baselines the configuration lists; `Scope`,
`Stack` and `Compare` are `build_manifest`, phase by phase, where a phase's result is
any of disabled, without a rate, zero, positive, with or without error notes.  A node
is its FQDN.  `crashed` are the exceptions the code raises.  Afterwards the report is
drawn: a report is a sequence of blocks (`Io500Script`, `BaselineScript`), and the
cursor moves by the code's constants; how many lines a text takes is any of a set.
The texts themselves, the horizontal positions and the charts are not modelled.
`Report` and `Mvpnet` prefix the names of their specifications (`ReportSpec`,
`MvpSpec`), since one module proves theorems about them and `Baseline`.

`Estimates` keeps sums, minima and maxima of natural numbers, which is what
restricting a baseline can get wrong; means and deviations are left out.

### Sweep

`by`, `at`, `todo` and `failed` are the driver that runs: the scaling sweep,
`get_results.py --run-missing`, or a user.  Drivers follow each other in any order
and may be interrupted anywhere.  `level[k]` is the last status file of configuration
`k` (5 to 7, or 0), `deployed[d]` what really is on the hosts `d`, `generated` the
configuration of `/tmp/inventory`, which the cleaning playbook goes by whoever calls
it.  The scripts of one update of `pnfs-lab.env` interleave (`pc`, `text`), each with a
read, a truncation and a write.  A line of that file is a record, so that the managed
block and the user's lines can be told apart.

### Bootstrap

`Workflow` takes bootstrap for one step; this module takes it apart.  `pc` follows
`bootstrap.sh` and the playbook it starts: the inventory is *parsed* (`parsed`) when
ansible-playbook starts, *hashed* (`dir`) after the preparation of the cluster, and the
files are generated one by one in the order of `Plan`, the Makefile before all others.
A generated file remembers the content it was rendered from and the bootstrap that
wrote it; `Fail` stops the script anywhere.  `last` is what the recipes of the last make
that passed the check have read.  An inventory that is a directory has one artifact
directory (`Shared`) whatever it holds, and an mtime that an edit may or may not move.
`torn` marks a Makefile whose inventory was edited while the bootstrap ran.

### Mvpnet

The three plays are `Stat` to `MakeDirs`, `Build` (hosts at their own pace, `todo`,
`down`) and `Launch` to `Seen`; `Fail` is a failed task or an interrupt at any of them.
Background jobs live on without the play: `shell` (loading modules), `up`, `dying` (the
signal of `kill` is under way, which nobody waits for), `crashed`.  The pid file `pid`
and the log `log` lie in the work directory, whose removal takes both; a job that still
writes then (`attached`) writes where nobody looks.  A file set of a VM is `iso` and
`disks`, on the host that the inventory gives it; the rank that starts it runs where
mpirun's placement by slots puts it (`HostOfRank`, external), and that the two agree is
part of what `Converges` checks.  A VM cannot run twice: its port is taken.

### Capture

`Check`, `Read` and `Write` are the three accesses to `compatibility.yaml`; `base` is
what a workflow has read, `matrix` the file.  A record is the number of its capture.
`newest` is history.  Captures that do not overlap lose nothing, so the only run is the
one that shows what two that do overlap lose.

## Runs

| run | configuration | shows |
|---|---|---|
| `workflow_shared` | 2 configurations, 2 phases, 5 writes after the first | `TypeOK`, `BuiltInOrder`, `SoundStatus`, refinement `ChainRefined` |
| `workflow_edit` | the same, 1 configuration | violation of `EditsRebuild` |
| `xem_race` | 3 processes, 2 experiments, with and without metadata servers | `TypeOK`, `OwnRecord`, `NoOrphanBed` |
| `gold_runs` | 3 VMs, 2 hosts, 3 faults, 1 makeclean | `TypeOK`, `CreatedImages`, `EachOnce`, `ImagesKept`, liveness `Converges` |
| `daos_runs` | 2 servers of different memory, 3 sizes (one fits one server only), 2 topologies, 2 capacities, 2 edits, 2 faults, 1 makeclean | `TypeOK`, `MappedBeforeBound`, `ReadyAfterSuccess`, `ConfigInForce`, `CleanRecovers` |
| `lustre_runs` | 6 hosts, up to 4 servers and 2 clients, 7 inventories, 2 edits, 1 fault, 1 makeclean | `TypeOK`, `ReadyAfterSuccess`, `ClientsFirst`, liveness `Converges` |
| `baseline_runs` | 5 nodes, 2 experiments, 2 inventories (one without a metadata server), 2 runs | `TypeOK`, `AllRawBeforeWrites`, `MeasuredAlone`, `ReportsLast`, `SamplesKept` |
| `report_runs` | 7 nodes, 3 baselines, 7 sets of groups, 2 sets of kernels, 3 of packages, 7 phases | `FractionJustified`, `ScopedEstimate`, `InsideMargins` |
| `sweep_runs` | 2 + 2 + 1 configurations on 3 sets of hosts, 2 MDS hosts, 3 drivers | `TypeOK`, `OwnDeployment`, `SweepComplete`, `Recoverable`; three assumptions on `Inventory` |
| `bootstrap_runs` | 2 contents, 2 edits, 2 bootstraps, all networks, file or directory | `TypeOK`, `Repaired`, `CheckSuffices` |
| `mvpnet_runs` | 2 VMs on 2 hosts in 3 placements, 3 jobs, 2 faults, 1 clean | `MvpTypeOK`, `Tracked`, `CreatedRuns`, liveness `Converges` |
| `capture_lost` | 3 workflows, 2 keys, 4 captures | violation of `EntriesPreserved` |

Bounds, and why they are enough:

- *Workflow*: 6 mtimes allow bootstrap, both phases, an edit of a source and the
  rebuild it needs; or the bootstrap and first phase of both configurations with
  an edit of the inventory between.  Each mutant is found within them.  Two phases
  are one pair; longer chains, more configurations and more writes are covered by
  the proofs, which do not bound anything.
- *XemAlloc*: the harmful interleavings need an alloc that fails, a remove and a
  second alloc.  Processes are as many as the bound: nothing else is bounded.
- *GoldImages*: 3 VMs on 2 hosts do not divide evenly.  3 faults let a host fail,
  its rerun fail, and a VM fail.  Other numbers of VMs and hosts are covered by
  the proofs.
- *DaosConfig*: two servers are enough for "done on some servers only"; two edits
  allow a change and taking it back; sizes and capacities include a pool that fits
  only a larger RAM disk, and a RAM disk that only one server has the memory for.
- *LustreConfig*: the inventories swap the two object servers, make the second
  metadata server the first, drop servers and leave one without a partner; two edits
  drop a server with its target and take it back at another place, or a client with the
  file system mounted and take it back.  Clients are kept, added, exchanged, and in one
  inventory a host that was a server.  One fault lets
  any task of a run or a clean fail on any part of the servers; wrong inventories and
  pools in the way stop runs besides.
- *Baseline*: two runs are an old and a new manifest, or a run with the orphan jobs
  of another; two inventories let the pointer name a run of other nodes; the larger
  one has two servers for two clients and a second plane.
- *Report*: the groups of a run are those of the baseline, a part of it, one with a
  strange node, and two with a metadata server that the baseline knows as a data
  server.  Every result of every phase is tried.  Texts take 1, 2 or 12 lines, 32
  nodes are the largest group of the repository's configurations.
- *Sweep*: what can go wrong needs an interrupted driver that leaves a deployment,
  another one that leaves a second, and a sweep after them: three drivers.
- *Bootstrap*: a bootstrap that is cut short after an earlier one, with an edit before,
  between or during, and an edit that is taken back.
- *Mvpnet*: three jobs are the mpirun in the pid file, one that is dying and one whose
  lines are in the log.  The placements have one VM a host, two VMs after a host with
  none, and two in an order of their own.  Two faults let an interrupted run be followed
  by one that fails on a host.
- *Capture*: two workflows of one key and one of another overlap, four captures write.

Deadlock is checked except where the system stops: the workflow when the bound on
writes is used up, xem_alloc when every process has ended, a report when it is
written, the sweep when the bound on drivers is used up, bootstrap and capture when
theirs are.

Fairness is assumed in `gold_runs`, `lustre_runs` and `mvpnet_runs` (`FairSpec`): every
task ends (Ansible's waits have timeouts), and the user repeats the run until it
succeeds.  In `mvpnet_runs` every background job goes on too, being a process of its own,
and the user does not start a run while the job of an interrupted one loads modules
(`Settled`; see the known limits).  A wait for the VMs
ends early only if no rank can start any more and no mpirun is dying: anything else
within its ten minutes is a fault.
`Converges` excludes what the code has no way out of: a domain that stays without a
system in `GoldImages`; in `LustreConfig` an inventory that cannot be configured, or
servers with pools under the name of another place.  Faults end because they are
bounded.

## What the violations say

- `workflow_edit`: an edit made while a recipe runs is lost, because the status
  file is touched at the end.
- `capture_lost`: the second of two overlapping captures drops the first's record.

More divergences met while modelling are not runs of their own: they are
excluded by an explicit premise of a property that holds otherwise, and noted at
their hazard.  A clean cut short leaves a status file (`cut` in `SoundStatus`); a
run that stops between rendering and restarting leaves a server on its old
configuration (`faults = 0` in `ConfigInForce`), or on a small RAM disk that the
documented way out does not grow (`CleanRecovers`); a torn image, or a domain left
without a system, stays (`CreatedImages`, `Converges`); Lustre servers are paired wrongly, or
their MGS looked for in the wrong place, when the inventory is not in name order
(`Settled` in `LustreConfig`), and servers that change places block every
later run (`Settled`); a client that was dropped from the inventory is not unmounted
before the pools are destroyed (`ClientsFirst` speaks of the clients of the inventory).

## Proofs

All theorems hold for every value of the constants that satisfies the named
assumption of the module.

`WorkflowProofs` (assumes `WorkflowAssumption`).  `StatusPrefix` is not inductive:
while a make walks the phases, one must know that what lies below (creating) or
above (cleaning) its position is settled.  The invariant adds the position
against the status files, that mtimes do not exceed the clock, that `gen` and
`status` agree outside the exceptions, and, for `BuiltInOrder`, that an attested
phase whose status file is newer than the one before stands on its present
creation.  `ImplementsChain` maps each step to `Complete`, `Undo` or a stutter.

`XemAllocProofs` proves `OwnRecord` and `NoOrphanBed`, `NoStaleRecord` (a failed alloc leaves
no record of its own) and `BedLayout` (an experiment has the roles it asked for) for any number of processes.
The inductive invariant says for each place of a process what the state file of
its experiment can be.  `LayoutPartition` states that the roles' ranges are
disjoint and of the requested sizes for every size.

`DaosProofs` (assumes `DaosAssumption`).  `ReadyAfterSuccess` needs to know at each
task what the tasks before it have established in this run on all servers:
`Rendered`, `Serving` and `Passed` are predicates of `pc`; `SavedTopology` ties the
fingerprint to the file.

`GoldProofs` (assumes `GoldAssumption`).  `SlicePartition` states that
`distribute_vms_to_hosts.yaml` puts each VM in the slice of exactly one host, for
any numbers; the proof does the arithmetic of the division with remainder.
`EachOnce` follows from it and from what the runs keep of the lists.  For
`CreatedImages` the invariant says what the hosts that have not failed have done
for the VMs they have dealt with: `Installing`, `Equipped` and `Saving`, one for
each play; `Machines` (a VM with an image is never on) is what keeps later
runs and guests from touching the disk of an image, `ImagesKept`.

`DaosProofs` goes on with what holds while nothing has failed (`Intact`, for
`ConfigInForce` and `CleanRecovers`): running servers have their files but between
rendering and stopping (`Forced`), RAM disks of a formatted system are mounted, and
the pool has room under every size that the guard may let pass (`Roomy`).
`CleanRecovers` names every reason to refuse a run after such a makeclean: the pool
leaves no headroom, a server has too little memory, or the topology has changed.
`RAMAlwaysLeft` needs no such premise: what servers run with and have mounted was rendered
by runs that the guard let pass (`Fitting`), and a server's memory does not change.

`LustreProofs` (assumes `LustreAssumption`).  What the finished tasks of a run have
established is said of `pc`: `Unmounted`, `Named` (no task after the creation of the
pools is reached unless every server has the pool of its present name) and
`Registered`; `Held` ties mounts to pools.  They speak of the hosts the inventory names,
which no step of a run changes: `Unmounted` of its clients, others may have the file
system mounted.  `NameInjective` makes targets differ.
`TypeOK` says that the fail node and the MGS hosts of a formatted target exist
(`Formats`): the places that the pairing asks for are places of `Sorted`, because a run
whose groups are odd ends before it formats.  That every place is that of one host is
proved by counting those before it (`Places`, `SortedType`).
`PairsAreMutual` is the pairing itself, with the premises the code leaves to the user:
an inventory in the order of its names.

`PhaseProofs` has three parts.  For `Baseline` it assumes `TopologyAssumption`,
`DistinctAssumption` and `BoundAssumption`.  `ZipApart` is why concurrent pairs share no
node: `zip` uses each member of a group once and no client is a server.  `LastRun` (by well-founded
induction on finite sets) gives the newest manifest that `max` takes.  `Playing`,
`Jobs` and `Manifests` say what is true of the run of a play, `Pointed` that a pointer
names the last run published, and `Reported` what a report may rely on while phase 6
goes on beside it.  For `TypeOK` the links of both sweeps are unfolded (`LinksAre`,
`PlaneType`): `itertools.product` and the flattened rounds hold only members of the
groups.

For `Mvpnet` (`MvpnetAssumption`) the invariant `MvpIInv` follows the jobs: one lives at
a time (`OneLive`), a run meets none that still loads modules and after its kill none that
runs (`Quiet`, from which `Tracked`), the wipe leaves nothing a job could be taken for
(`Cleared`), so while a run waits the log has the lines of its own job only (`Mine`), and
an end that is well has counted those (`Created`, from which `CreatedRuns`).  The assumption that
an inventory has a VM is needed: with none, the wait for the ranks is over before any
mpirun is started, and `CreatedRuns` is false.

For `Report` (`PhasesAssumption`, `BaselinesAssumption`, `RateAssumption`,
`LayoutAssumption`), `FractionJustified` follows from what `checks` knew when the phase
was compared.  `ScopedEstimate` compares two sums over sets of links and two minima
(`RoleGrows`): that a subset has no larger sum is proved from a smallest set for which
it would fail (`LeastSet`).  `InsideMargins` is proved under `Fits`: no number of
phases overflows a page, since each block either fits below its guard or starts a page;
a value of 46 lines, a wrapped text of 6 or 33 servers would.

`SweepProofs` (assumes `SweepAssumption`, `FiniteAssumption`, `FileAssumption`).  `Owned`: with no status file of phase 5
the sweep deploys before it measures; `Left`: without a failure, what is not measured
is still on the list; `Backed`: a host is only past the backup task when a whole
backup exists.  For `TypeOK` the fold over the lines of a file is unfolded step by step
(`Steps`, `CleanedType`); the same steps give `OneBlock`, that a second update replaces
the block of the first.  `GeneratedDiffer` is about `Inventory`: a name is a role and a
number, the number of a VM in a mixed inventory is its row times the VMs of its role in
a row plus its place, and such pairs determine the row and the place (`RowAndPlace`).
The printed form of names and addresses (`%03d`, dotted quads) is not in it.

`BootstrapProofs` (assumes `BootstrapAssumption`).  A bootstrap is known by its number:
`Numbered` says that nothing in the artifact directories is its own before it writes
the Makefile, so a file with the Makefile's number is from the same content
(`SameContent`) although failed bootstraps leave files of several.  `Fresh` and
`Progress` follow the running one; `CheckTells` is what the Makefile's mtime is worth:
a Makefile newer than the inventory is from its present content unless the edit came
before it was written.  `Repaired` needs the first four, `CheckSuffices` the last and
`SameContent`.

Sums, minima and folds are recursive definitions, about which the prover knows nothing.
What is needed of them is proved from the least number, or the smallest set, at which it
would fail (`LeastNumber` and `LeastSet`, by `WellFoundedInduction`).

Proved and not the subject of a run of their own: `StatusPrefix` (which `ChainRefined`
repeats) and `OutdatedBlocked` of `Workflow`, `NoStaleRecord` and `BedLayout` of
`XemAlloc`, `TopologyKept` and `RAMLeft` of `DaosConfig`, `MountsUnique` and the pairing of
`LustreConfig`, `RoleGrows` of `Estimates`, `OneBlock` of `EnvTopology`, and
`GeneratedDiffer` of `Inventory`, which TLC evaluates for the arguments `MCSweep` names.

Every invariant and action property that a passing run checks is proved.  Only
model-checked: liveness (`Converges` of `GoldImages`, `LustreConfig` and `Mvpnet`), which
the prover does not treat; `Capture`, whose one property is violated; and the order of
the lists that `get_results.py` sorts, of which only the type is proved.

## Known limits of the code that the properties leave open

- The jobs of an earlier, interrupted phase 6 may disturb a later one
  (`MeasuredAlone` speaks of the run's own).
- `get_results.py` does not look for other deployments, and does not clean after a
  failure: only the sweep's benchmarks are covered by `OwnDeployment`.
- After concurrent updates of `pnfs-lab.env` its own lines may only be in the backup,
  even if every host succeeded (`Recoverable`).
- `bootstrap.yaml` parses the inventory long before it writes the Makefile whose mtime
  vouches for it, and a directory's mtime does not see edits of its files: an outdated
  Makefile may pass the check (`torn` and `isdir` in `CheckSuffices`).
- After a failed bootstrap a make by hand may read files of two bootstraps (`Whole`).
- `xem_alloc list` keeps the last digit of a node number: it shows at most ten nodes of
  a role (`Counted`).
- A VM whose software failed is saved as an image when another VM succeeds, and its
  image is kept by every rerun (`EndSoftware`, `EndSave`).
- DAOS: the check against shrinking compares with the last *success*; after an
  unsuccessful run has grown the RAM disk, taking the edit back shrinks it under the
  pool (`Allowed`, `Remount`).
- mvpnet: a clean that looks for the pid file while the background job of an interrupted
  create loads modules, and removes the directory after the job has written the file,
  leaves an mpirun that no later run sees (`Settled` in `Mvpnet`).
- mvpnet: the inventory is the same throughout (`place`).  An edit that makes another host
  the launcher leaves the old one's mpirun, pid file and work directory where no later run
  looks for them.
- A Lustre server that is dropped from the inventory keeps its target mounted and its
  pool; put back at another place, it makes every run fail at `zpool create`, and as a
  client it may keep LNet from being stopped (`Settled`).
- A Lustre client that is dropped from the inventory is never unmounted, neither by a run
  nor by a clean: the pools are destroyed while it has the file system mounted.
- DAOS: an edit of the `ds` group is not modelled.
- The percentages of mdtest phases do not depend on the checks, which are printed
  beside them; a metadata server that only matches as a data server ends the report
  with a `KeyError`; the traffic of a group of more than 32 servers does not fit on
  a page, nor does a value of more than 45 lines (`Fits` in `PhaseProofs`).
- A uniform inventory uses the addresses from `start + 1` on, a mixed one from
  `start` on: two that are used together need a gap, as in the tool's examples.

## Plan

Done: the workflow, bootstrap, xem_alloc, phase 1, mvpnet, DAOS, Lustre; the
performance system, the reports, the sweeps and generators; the capture.  What would
come next:

1. The names and addresses that `bootstrap.yaml` derives.
2. An abstract specification of a phase that is configured and cleaned, which
   `DaosConfig`, `LustreConfig` and `Mvpnet` implement.

## Not modelled

Phase 2: whether a tunnel of an earlier run counts as a conflict hangs on the output of
`ip` on the hosts and the filters that parse it, which the repository does not fix, and
a guess at it would be the model's and not the code's; the rest are idempotent commands.
Phase 3 with tofu, phase 4 (measures, keeps nothing), and also: playbook tasks that
install packages (idempotent, external), drawing, texts and
horizontal layout of reports and graphs, statistics (means, deviations), tofu's own
state, the pNFS laboratory's own scripts, BeeGFS (restarted from templates on every
run, no decision depends on an earlier one), the counters around IO500 (linear tasks),
`configs/` (data), `doc/` (text, archives of mailing lists, and the scripts and
notebooks that analyse them, which are no part of the system).  The pieces of the
plan above are not modelled; `PROJECT.json` says so component by component.

------------------------------- MODULE Mvpnet -------------------------------
(***************************************************************************)
(* Phase 3 with mvpnet: a cluster of VMs that are ranks of one mpirun,     *)
(* started in the background on the launcher, the first physical host.     *)
(* What a later run knows of an earlier one is its pid file, which lies in *)
(* the work directory with the log that is searched for ranks that run.    *)
(*                                                                         *)
(* The plays stop at the first failed task; the one that builds the files  *)
(* of the VMs does not, its hosts working freely.  The job that starts     *)
(* mpirun is asynchronous (poll: 0): it loads modules first, and goes on   *)
(* when the play is interrupted.                                           *)
(***************************************************************************)
EXTENDS Integers, FiniteSets, Sequences, SequencesExt

CONSTANTS
    VMNames,        \* names of VMs
    VMLists,     \* inventories: for each host, in order, the VMs it lists
    Jobs,           \* names of the background jobs that may exist at one time
    MaxFaults,      \* bound on failures and interrupts of a behaviour
    MaxCleans       \* bound on the runs with --tags makeclean

ASSUME MvpnetAssumption ==
    /\ IsFiniteSet(VMNames)
    /\ VMLists \subseteq Seq(Seq(VMNames))
    \* With no VM the wait for the ranks is over before mpirun is started.
    /\ \A p \in VMLists : /\ IsInjective(FlattenSeq(p))
                           /\ \E h \in DOMAIN p : p[h] # << >>
    /\ MaxFaults \in Nat
    /\ MaxCleans \in Nat

VARIABLES
    place,      \* the inventory, one of VMLists
    proc,       \* proc[j]: what job j is
    up,         \* up[j]: the VMs that run under j
    work,       \* the launcher's work directory exists
    pid,        \* the pid file in it: at most one job
    attached,   \* jobs whose output goes to the log in it
    log,        \* the "=> RUN" lines of that log: <<job, VM>>
    iso,        \* VMs whose cloud-init image exists
    disks,      \* VMs whose data disks exist
    pc,         \* the task the running play is at
    op,         \* "create" or "clean"
    todo,       \* todo[h]: the VMs host h has yet to build
    down,       \* hosts that have failed
    me,         \* the job this run has started
    last,       \* the outcome of the last run
    faults, cleans

background == <<proc, up, attached, log>>
outputs    == <<work, pid, iso, disks>>
playing    == <<pc, op, todo, down, me, last>>
mvpVars    == <<place, background, outputs, playing, faults, cleans>>

-------------------------------------------------------------------------------
(* Placement of the VMs.                                                   *)

PhysicalHosts == DOMAIN place
VMs == UNION {Range(place[h]) : h \in PhysicalHosts}
HostOf(v) == CHOOSE h \in PhysicalHosts : v \in Range(place[h])

\* Mutant of VMOfRank: the flags of the ranks in the reverse order.
ReverseRank(r) == Reverse(FlattenSeq(place))[r + 1]

\* mpi_rank counts the VMs host by host (all.j2); "-c rank:<vm>.iso" follows it.
VMOfRank(r) == FlattenSeq(place)[r + 1]
RankOf(v) == CHOOSE r \in 0 .. Len(FlattenSeq(place)) - 1 : VMOfRank(r) = v

\* mpirun fills the slots of the hosts in the order of the hostfile.
SlotsBefore(h) == Len(FlattenSeq(SubSeq(place, 1, h)))
HostOfRank(r) == CHOOSE h \in PhysicalHosts : SlotsBefore(h-1) <= r /\ r < SlotsBefore(h)

-------------------------------------------------------------------------------
Nobody == {}

MvpInit ==
    /\ place \in VMLists
    /\ proc = [j \in Jobs |-> "none"]
    /\ up = [j \in Jobs |-> Nobody]
    /\ work = FALSE
    /\ pid = Nobody
    /\ attached = Nobody
    /\ log = {}
    /\ iso = {}
    /\ disks = {}
    /\ pc = "idle"
    /\ op = "create"
    /\ todo = [h \in PhysicalHosts |-> << >>]
    /\ down = {}
    /\ me = Nobody
    /\ last = "none"
    /\ faults = 0
    /\ cleans = 0

Fault == faults < MaxFaults /\ faults' = faults + 1
Goto(p) == pc' = p /\ UNCHANGED <<op, todo, down, me, last>>
EndRun(outcome) == pc' = "idle" /\ last' = outcome /\ UNCHANGED <<op, todo, down, me>>

\* An assumption on the user, who waits until the job of an interrupted run has loaded
\* its modules: before that there is no pid file, and nothing to see it by.
Settled == \A j \in Jobs : proc[j] # "shell"

Start(o) ==
    /\ pc = "idle"
    /\ Settled
    /\ IF o = "clean" THEN cleans < MaxCleans /\ cleans' = cleans + 1
                      ELSE UNCHANGED cleans
    /\ pc' = "stat"
    /\ op' = o
    /\ todo' = place
    /\ down' = {}
    /\ me' = Nobody
    /\ last' = "running"
    /\ UNCHANGED <<place, background, outputs, faults>>

\* A task fails, or the user interrupts: the plays end, the jobs do not.
Fail ==
    /\ pc # "idle"
    /\ Fault
    /\ EndRun("failed")
    /\ UNCHANGED <<place, background, outputs, cleans>>

-------------------------------------------------------------------------------
(* First play: nothing of an earlier run is left.                          *)

\* Mutant of Stat: the pid file is looked for elsewhere.
StatNothing ==
    /\ pc = "stat"
    /\ pc' = "wipe"
    /\ UNCHANGED <<place, background, outputs, op, todo, down, me, last, faults, cleans>>

Stat ==
    /\ pc = "stat"
    /\ pc' = IF pid # Nobody THEN "kill" ELSE "wipe"
    /\ UNCHANGED <<place, background, outputs, op, todo, down, me, last, faults, cleans>>

\* kill $(cat pid_file) || true: a signal, which nobody waits for.
Kill ==
    /\ pc = "kill"
    /\ proc' = [j \in Jobs |-> IF j \in pid /\ proc[j] = "up" THEN "dying" ELSE proc[j]]
    /\ Goto("unlink")
    /\ UNCHANGED <<place, up, attached, log, outputs, faults, cleans>>

RemovePid ==
    /\ pc = "unlink"
    /\ pid' = Nobody
    /\ Goto("wipe")
    /\ UNCHANGED <<place, background, work, iso, disks, faults, cleans>>

\* A task done on the hosts S: the play goes on when these are all hosts.
Proceed(S, next) ==
    IF S = PhysicalHosts THEN Goto(next) /\ UNCHANGED faults ELSE Fault /\ EndRun("failed")

On(S) == {v \in VMs : HostOf(v) \in S}

\* Mutant of Wipe: the log is kept outside the work directory.
WipeKeepsLog ==
    /\ pc = "wipe"
    /\ \E S \in SUBSET PhysicalHosts :
         /\ Proceed(S, "disks")
         /\ iso' = iso \ On(S)
         /\ IF 1 \in S THEN work' = FALSE /\ pid' = Nobody ELSE UNCHANGED <<work, pid>>
    /\ UNCHANGED <<place, background, disks, cleans>>

\* Mutant of Wipe: the jobs open the log by its name for every line.
WipeKeepsWriters ==
    /\ pc = "wipe"
    /\ \E S \in SUBSET PhysicalHosts :
         /\ Proceed(S, "disks")
         /\ iso' = iso \ On(S)
         /\ IF 1 \in S THEN work' = FALSE /\ pid' = Nobody /\ log' = {}
            ELSE UNCHANGED <<work, pid, log>>
    /\ UNCHANGED <<place, proc, up, attached, disks, cleans>>

\* "Remove mvpnet_workdir": on the launcher, with the log and what is left of the
\* pid file; a process that writes to the log writes to a file without a name.
Wipe ==
    /\ pc = "wipe"
    /\ \E S \in SUBSET PhysicalHosts :
         /\ Proceed(S, "disks")
         /\ iso' = iso \ On(S)
         /\ IF 1 \in S
            THEN work' = FALSE /\ pid' = Nobody /\ attached' = Nobody /\ log' = {}
            ELSE UNCHANGED <<work, pid, attached, log>>
    /\ UNCHANGED <<place, proc, up, disks, cleans>>

\* "Remove per-VM HDD image directory"; with makeclean that is all.
WipeDisks ==
    /\ pc = "disks"
    /\ \E S \in SUBSET PhysicalHosts :
         /\ disks' = disks \ On(S)
         /\ IF S = PhysicalHosts /\ op = "clean"
            THEN EndRun("cleaned") /\ UNCHANGED faults
            ELSE Proceed(S, "mkdir")
    /\ UNCHANGED <<place, background, work, pid, iso, cleans>>

MakeDirs ==
    /\ pc = "mkdir"
    /\ work' = TRUE
    /\ Goto("build")
    /\ UNCHANGED <<place, background, pid, iso, disks, faults, cleans>>

-------------------------------------------------------------------------------
(* Second play: the hosts build the files of their VMs, each at its pace.  *)

Building(h) == pc = "build" /\ h \notin down /\ todo[h] # << >>

Build(h) ==
    /\ Building(h)
    /\ disks' = disks \cup {Head(todo[h])}
    /\ iso' = iso \cup {Head(todo[h])}
    /\ todo' = [todo EXCEPT ![h] = Tail(@)]
    /\ UNCHANGED <<place, background, work, pid, pc, op, down, me, last, faults, cleans>>

BuildFails(h) ==
    /\ Building(h)
    /\ Fault
    /\ \/ UNCHANGED disks
       \/ disks' = disks \cup {Head(todo[h])}
    /\ down' = down \cup {h}
    /\ UNCHANGED <<place, background, work, pid, iso, pc, op, todo, me, last, cleans>>

\* A run goes on with the hosts that have not failed, if there is one.
EndBuild ==
    /\ pc = "build"
    /\ \A h \in PhysicalHosts : ~Building(h)
    /\ IF down = PhysicalHosts THEN EndRun("failed") ELSE Goto("launch")
    /\ UNCHANGED <<place, background, outputs, faults, cleans>>

-------------------------------------------------------------------------------
(* Third play: mpirun in the background, until the log has a line a VM.    *)

Unused(j) == proc[j] = "none" /\ \A x \in log : x[1] # j

StartMvpnet(j) ==
    /\ pc = "launch"
    /\ Unused(j)
    /\ proc' = [proc EXCEPT ![j] = "shell"]
    /\ me' = {j}
    /\ pc' = "wait"
    /\ UNCHANGED <<place, up, attached, log, outputs, op, todo, down, last,
                   faults, cleans>>

\* "-ge num_vms" lines are in the log; failed hosts end the run with an error.
Seen ==
    /\ pc = "wait"
    /\ Cardinality(log) >= Cardinality(VMs)
    /\ EndRun(IF down = {} THEN "created" ELSE "failed")
    /\ UNCHANGED <<place, background, outputs, faults, cleans>>

\* Someone else's VM of this name has the port.
Taken(j, v) == \E k \in Jobs \ {j} : v \in up[k]

\* The rank of v finds v's files on the host it runs on.
HasFiles(v) == v \in iso \cap disks /\ HostOfRank(RankOf(v)) = HostOf(v)
CanRun(j, v) == proc[j] = "up" /\ v \notin up[j] /\ HasFiles(v) /\ ~Taken(j, v)

\* The 120 retries are over: nothing has moved for long, or it was slow, a fault.
Stuck == /\ \A j \in Jobs : proc[j] # "dying"
         /\ \A j \in me : proc[j] # "shell" /\ ~\E v \in VMs : CanRun(j, v)
TimeOut ==
    /\ pc = "wait"
    /\ Cardinality(log) < Cardinality(VMs)
    /\ (Stuck /\ UNCHANGED faults) \/ Fault
    /\ EndRun("failed")
    /\ UNCHANGED <<place, background, outputs, cleans>>

-------------------------------------------------------------------------------
(* The background jobs.                                                    *)

\* The modules are loaded: mpirun appends to the log, its pid is written.  Without
\* a work directory neither is possible.
ShellDone(j) ==
    /\ proc[j] = "shell"
    /\ proc' = [proc EXCEPT ![j] = IF work THEN "up" ELSE "none"]
    /\ attached' = IF work THEN attached \cup {j} ELSE attached
    /\ pid' = IF work THEN {j} ELSE pid
    /\ UNCHANGED <<place, up, log, work, iso, disks, playing, faults, cleans>>

RankRuns(j, v) ==
    /\ CanRun(j, v)
    /\ up' = [up EXCEPT ![j] = @ \cup {v}]
    /\ log' = IF j \in attached THEN log \cup {<<j, v>>} ELSE log
    /\ UNCHANGED <<place, proc, attached, outputs, playing, faults, cleans>>

\* A rank without its files, or any fault, ends the whole mpirun.
Crash(j) ==
    /\ proc[j] = "up"
    /\ \/ (\E v \in VMs \ up[j] : ~HasFiles(v)) /\ UNCHANGED faults
       \/ Fault
    /\ proc' = [proc EXCEPT ![j] = "crashed"]
    /\ up' = [up EXCEPT ![j] = Nobody]
    /\ UNCHANGED <<place, attached, log, outputs, playing, cleans>>

\* The signal takes effect; the pid of a crashed job is free again.
Die(j) ==
    /\ \/ proc[j] = "dying"
       \/ proc[j] = "crashed" /\ j \notin pid
    /\ proc' = [proc EXCEPT ![j] = "none"]
    /\ up' = [up EXCEPT ![j] = Nobody]
    /\ attached' = attached \ {j}
    /\ UNCHANGED <<place, log, outputs, playing, faults, cleans>>

PlayStep ==
    \/ Stat \/ Kill \/ RemovePid \/ Wipe \/ WipeDisks \/ MakeDirs
    \/ \E h \in PhysicalHosts : Build(h)
    \/ EndBuild
    \/ \E j \in Jobs : StartMvpnet(j)
    \/ Seen \/ TimeOut

JobStep(j) == ShellDone(j) \/ Crash(j) \/ Die(j) \/ \E v \in VMs : RankRuns(j, v)

MvpNext ==
    \/ \E o \in {"create", "clean"} : Start(o)
    \/ Fail
    \/ PlayStep
    \/ \E h \in PhysicalHosts : BuildFails(h)
    \/ \E j \in Jobs : JobStep(j)

MvpSpec == MvpInit /\ [][MvpNext]_mvpVars

\* The playbook and every job go on, and the user repeats a run that failed.
Fairness ==
    /\ WF_mvpVars(PlayStep)
    /\ \A j \in Jobs : WF_mvpVars(JobStep(j))
    /\ WF_mvpVars(last # "created" /\ Start("create"))

FairSpec == MvpSpec /\ Fairness

-------------------------------------------------------------------------------
(* Properties.                                                             *)

\* The variables have their types.
MvpTypeOK ==
    /\ place \in VMLists
    /\ proc \in [Jobs -> {"none", "shell", "up", "dying", "crashed"}]
    /\ up \in [Jobs -> SUBSET VMs]
    /\ work \in BOOLEAN
    /\ pid = Nobody \/ \E j \in Jobs : pid = {j}
    /\ attached \subseteq Jobs
    /\ log \subseteq Jobs \X VMs
    /\ (~work => pid = Nobody /\ attached = Nobody /\ log = {})
    /\ iso \subseteq VMs
    /\ disks \subseteq VMs
    /\ pc \in {"idle", "stat", "kill", "unlink", "wipe", "disks", "mkdir", "build",
               "launch", "wait"}
    /\ op \in {"create", "clean"}
    /\ down \subseteq PhysicalHosts
    /\ me \subseteq Jobs
    /\ last \in {"none", "running", "created", "cleaned", "failed"}

\* An mpirun that has not been told to stop is the one in the pid file: no run
\* loses sight of the VMs of an earlier one, and two never compete for the ports.
Tracked == \A j \in Jobs : proc[j] = "up" => pid = {j}

\* A run that ends well has started every VM, under one mpirun, which only a crash
\* can end: no line of an earlier run's log, or of another mpirun, is counted.
CreatedRuns ==
    last = "created" =>
        \E j \in Jobs : \/ proc[j] = "up" /\ up[j] = VMs
                        \/ proc[j] = "crashed"

\* Repeating the phase gets there, whatever was interrupted or failed before, and as
\* often as it is repeated: every rank is placed on the host that has its files, no
\* port is held forever.
Converges == []<>(last = "created")

-------------------------------------------------------------------------------
(* What keeps one run's mpirun apart from another's: the inductive invariant.  *)

\* The inventory lists VMs, and what a host has yet to build is among them.
WellPlaced ==
    /\ place \in VMLists
    /\ place \in Seq(Seq(VMNames))
    /\ \E h \in PhysicalHosts : place[h] # << >>
    /\ IsFiniteSet(VMNames)
    /\ todo \in [PhysicalHosts -> Seq(VMs)]

Live(j) == proc[j] \in {"shell", "up"}

OneLive == \A j, k \in Jobs : Live(j) /\ Live(k) => j = k

\* A run meets no job that still loads its modules, and after its kill none that runs.
Quiet ==
    /\ pc \in {"stat", "kill"} => \A j \in Jobs : proc[j] # "shell"
    /\ pc \in {"unlink", "wipe", "disks", "mkdir", "build", "launch"} =>
         \A j \in Jobs : ~Live(j)

\* Once the work directory is wiped nothing is left that a job could be taken for.
Cleared ==
    pc \in {"disks", "mkdir", "build", "launch"} =>
        pid = Nobody /\ attached = Nobody /\ log = {}

\* While a run waits, the log has the lines of its own job only, and the pid file
\* names that job from its first line on.
Mine ==
    pc = "wait" =>
        \E j \in Jobs :
            /\ me = {j}
            /\ \A k \in Jobs : Live(k) => k = j
            /\ proc[j] # "dying"
            /\ attached \subseteq {j}
            /\ log \subseteq {j} \X VMs
            /\ proc[j] = "crashed" => pid = {j}
            /\ log # {} => /\ pid = {j}
                          /\ \/ proc[j] = "crashed"
                             \/ /\ proc[j] = "up"
                                /\ \A v \in VMs : <<j, v>> \in log => v \in up[j]

\* After a run that ended well the pid file names its job, and no other will write it.
Created ==
    last = "created" =>
        /\ pc = "idle"
        /\ Settled
        /\ \E j \in Jobs : /\ pid = {j}
                           /\ proc[j] = "crashed" \/ (proc[j] = "up" /\ up[j] = VMs)

MvpIInv ==
    /\ MvpTypeOK /\ WellPlaced
    /\ OneLive /\ Quiet /\ Tracked /\ Cleared
    /\ Mine /\ Created

===============================================================================

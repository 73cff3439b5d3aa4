------------------------------- MODULE Workflow -------------------------------
(***************************************************************************)
(* The phase workflow that bootstrap.sh generates: a Makefile whose phases *)
(* are status files, run by one user at a time.  A phase is completed when *)
(* its recipe has succeeded and its status file has been touched; it is    *)
(* run again when its status file is missing or older than the status file *)
(* of the phase before it or than one of its sources.                      *)
(*                                                                         *)
(* Several configurations may share one UNIQUE_TAG: each has its own       *)
(* artifact directory (Makefile and status files, named after the hash of  *)
(* the configuration), while the gold images, networks and VMs are named   *)
(* after the tag alone and so are shared.                                  *)
(*                                                                         *)
(* A file's mtime is the value of a clock that moves on every write, so    *)
(* two files written by different steps never have the same mtime.         *)
(***************************************************************************)
EXTENDS Integers, Sequences

CONSTANTS
    Configs,        \* contents the inventory file can have, one UNIQUE_TAG
    Last,           \* the last phase (8 in Makefile.j2)
    SourcePhases,   \* phases with a 'sources' list (7 and 8)
    CleanPhases,    \* phases whose clean command removes infrastructure
    MaxClock        \* bound on the writes a behaviour performs

ASSUME WorkflowAssumption ==
    /\ Last \in Nat
    /\ SourcePhases \subseteq 0 .. Last
    /\ CleanPhases \subseteq 0 .. Last
    /\ MaxClock \in Nat

Phase == 0 .. Last

VARIABLES
    clock,      \* the last mtime handed out
    current,    \* the content of the inventory file
    inv,        \* mtime of the inventory file
    boot,       \* boot[c]: mtime of c's Makefile, 0 before the first bootstrap
    status,     \* status[c][k]: mtime of c's status.phase<k>, 0 if absent
    src,        \* src[k]: mtime of the newest of phase k's sources
    gen,        \* gen[k]: the completed creation of phase k in place, 0 if none
    on,         \* on[k]: the creation of phase k-1 that gen[k] was made on
    by,         \* by[k]: the configuration that last created or cleaned phase k
    read,       \* phases whose last recipe read the present sources
    cut,        \* phases whose clean command was stopped or failed part-way
    pc,         \* what the running make does
    who,        \* the configuration whose Makefile it runs
    forced,     \* its FORCE: 1 when run with FORCE=1, else 0
    goals,      \* the command-line goals left, the head being pursued
    at,         \* the phase the head goal has reached
    late,       \* phases whose sources were edited since the last make started
    made        \* the last phase the last make brought up to date, or -1

files == <<current, inv, boot, status, src>>
infra == <<gen, on, by, read, cut>>
run   == <<pc, who, forced, goals, at, late, made>>
vars  == <<clock, files, infra, run>>

Goal == [op : {"create", "clean"}, phase : Phase]

\* The command lines considered: "make phaseN", "make phaseN-clean", and the
\* documented "make phaseN-clean phaseM".  "all" is phase7, "clean" phase0-clean.
Commands ==
    {<<g>> : g \in Goal} \cup
    {<<[op |-> "clean", phase |-> n], [op |-> "create", phase |-> m]>> : n, m \in Phase}

\* Mutant of FirstPhase: a status file with no prerequisite.
CreateAlone(g) == IF g.op = "create" THEN g.phase ELSE Last

\* The first phase make visits for a goal, and whether it has visited them all.
FirstPhase(g) == IF g.op = "create" THEN 0 ELSE Last
Reached(g, k) == IF g.op = "create" THEN k > g.phase ELSE k < g.phase

-------------------------------------------------------------------------------
Init ==
    /\ clock = 1
    /\ current \in Configs
    /\ inv = 1
    /\ boot = [c \in Configs |-> 0]
    /\ status = [c \in Configs |-> [k \in Phase |-> 0]]
    /\ src = [k \in Phase |-> 0]
    /\ gen = [k \in Phase |-> 0]
    /\ on = [k \in Phase |-> 0]
    /\ by = [k \in Phase |-> current]
    /\ read = {}
    /\ cut = {}
    /\ pc = "idle"
    /\ who = current
    /\ forced = 0
    /\ goals = << >>
    /\ at = 0
    /\ late = {}
    /\ made = -1

-------------------------------------------------------------------------------
(* The user, outside make.                                                 *)

Tick == clock < MaxClock /\ clock' = clock + 1

EditInventory(c) ==
    /\ Tick
    /\ c # current
    /\ current' = c
    /\ inv' = clock'
    /\ UNCHANGED <<boot, status, src, infra, run>>

\* bootstrap.sh renders the Makefile of the inventory's present content; its
\* header carries the date, so its mtime always moves.  Status files stay.
Bootstrap ==
    /\ Tick
    /\ boot' = [boot EXCEPT ![current] = clock']
    /\ UNCHANGED <<current, inv, status, src, infra, run>>

EditSource(k) ==
    /\ Tick
    /\ k \in SourcePhases
    /\ src' = [src EXCEPT ![k] = clock']
    /\ read' = read \ {k}
    /\ late' = late \cup {k}
    /\ UNCHANGED <<current, inv, boot, status, gen, on, by, cut,
                   pc, who, forced, goals, at, made>>

-------------------------------------------------------------------------------
(* One make invocation.                                                    *)

\* Parsing c's Makefile fails when it is older than the inventory, unless FORCE.
StartMake(c, cmd, force) ==
    /\ pc = "idle"
    /\ boot[c] # 0
    /\ force = 1 \/ boot[c] > inv
    /\ pc' = "goal"
    /\ who' = c
    /\ forced' = force
    /\ goals' = cmd
    /\ at' = FirstPhase(Head(cmd))
    /\ late' = {}
    /\ made' = -1
    /\ UNCHANGED <<clock, files, infra>>

\* Mutant of OutOfDate: the status file of the phase before is an order-only
\* prerequisite.
OrderOnly(c, k) == status[c][k] = 0 \/ src[k] > status[c][k]

\* make's test of a status file: missing, or older than one of its prerequisites.
OutOfDate(c, k) ==
    \/ status[c][k] = 0
    \/ k > 0 /\ status[c][k-1] > status[c][k]
    \/ src[k] > status[c][k]

Pursuing(op) == pc = "goal" /\ Head(goals).op = op /\ ~Reached(Head(goals), at)

SkipPhase ==
    /\ Pursuing("create")
    /\ ~OutOfDate(who, at)
    /\ at' = at + 1
    /\ UNCHANGED <<clock, files, infra, pc, who, forced, goals, late, made>>

\* Nothing complete is left of phase k's infrastructure.
Vacate(k) ==
    /\ gen' = [gen EXCEPT ![k] = 0]
    /\ on' = [on EXCEPT ![k] = 0]
    /\ by' = [by EXCEPT ![k] = who]

\* The recipe starts: it reads the sources and starts replacing what is there.
StartRecipe ==
    /\ Pursuing("create")
    /\ OutOfDate(who, at)
    /\ pc' = "recipe"
    /\ Vacate(at)
    /\ read' = read \cup {at}
    /\ UNCHANGED <<clock, files, cut, who, forced, goals, at, late, made>>

\* The creation command succeeded: "touch $@".
FinishRecipe ==
    /\ pc = "recipe"
    /\ Tick
    /\ status' = [status EXCEPT ![who][at] = clock']
    /\ gen' = [gen EXCEPT ![at] = clock']
    /\ on' = [on EXCEPT ![at] = IF at > 0 THEN gen[at-1] ELSE 0]
    /\ cut' = cut \ {at}
    /\ pc' = "goal"
    /\ at' = at + 1
    /\ UNCHANGED <<current, inv, boot, src, by, read,
                   who, forced, goals, late, made>>

\* make ends; the status of the last one is remembered in made.
Stop ==
    /\ pc' = "idle"
    /\ goals' = << >>
    /\ at' = 0
    /\ forced' = 0

\* Mutant of FailRecipe: the exit status of tee (VERBOSE=1, no pipefail).
FailUnseen ==
    /\ pc = "recipe"
    /\ Tick
    /\ status' = [status EXCEPT ![who][at] = clock']
    /\ pc' = "goal"
    /\ at' = at + 1
    /\ UNCHANGED <<current, inv, boot, src, infra, who, forced, goals, late, made>>

\* The creation command failed, or make was interrupted: make stops, and
\* nothing is touched.
FailRecipe ==
    /\ pc = "recipe"
    /\ Stop
    /\ UNCHANGED <<clock, files, infra, who, late, made>>

\* The clean command succeeded and the status file is removed.
CleanPhase ==
    /\ Pursuing("clean")
    /\ status' = [status EXCEPT ![who][at] = 0]
    /\ \/ at \in CleanPhases /\ Vacate(at) /\ cut' = cut \ {at}
       \/ at \notin CleanPhases /\ UNCHANGED <<gen, on, by, cut>>
    /\ at' = at - 1
    /\ UNCHANGED <<clock, current, inv, boot, src, read,
                   pc, who, forced, goals, late, made>>

\* The clean command failed or was stopped part-way: make stops before "rm -f".
FailClean ==
    /\ Pursuing("clean")
    /\ at \in CleanPhases
    /\ Vacate(at)
    /\ cut' = cut \cup {at}
    /\ Stop
    /\ UNCHANGED <<clock, files, read, who, late, made>>

\* make is interrupted, or a command fails before it has changed anything.
Interrupt ==
    /\ pc = "goal"
    /\ Stop
    /\ UNCHANGED <<clock, files, infra, who, late, made>>

\* A goal is reached: go on with the next one, or exit with success.
NextGoal ==
    /\ pc = "goal"
    /\ Reached(Head(goals), at)
    /\ Len(goals) > 1
    /\ goals' = Tail(goals)
    /\ at' = FirstPhase(goals[2])
    /\ UNCHANGED <<clock, files, infra, pc, who, forced, late, made>>

\* Mutant of FinishMake: the phase after the last one is counted too.
FinishOneMore ==
    /\ pc = "goal"
    /\ Reached(Head(goals), at)
    /\ Len(goals) = 1
    /\ Stop
    /\ made' = IF Head(goals).op = "create" THEN at ELSE -1
    /\ UNCHANGED <<clock, files, infra, who, late>>

FinishMake ==
    /\ pc = "goal"
    /\ Reached(Head(goals), at)
    /\ Len(goals) = 1
    /\ Stop
    /\ made' = IF Head(goals).op = "create" THEN Head(goals).phase ELSE -1
    /\ UNCHANGED <<clock, files, infra, who, late>>

MakeStep ==
    \/ SkipPhase \/ StartRecipe \/ FinishRecipe \/ FailRecipe
    \/ CleanPhase \/ FailClean \/ Interrupt \/ NextGoal \/ FinishMake

Next ==
    \/ \E c \in Configs : EditInventory(c)
    \/ Bootstrap
    \/ \E k \in Phase : EditSource(k)
    \/ \E c \in Configs, cmd \in Commands, force \in {0, 1} : StartMake(c, cmd, force)
    \/ MakeStep

Spec == Init /\ [][Next]_vars

-------------------------------------------------------------------------------
(* Properties.                                                             *)

TypeOK ==
    /\ clock \in Nat
    /\ current \in Configs
    /\ inv \in Nat
    /\ boot \in [Configs -> Nat]
    /\ status \in [Configs -> [Phase -> Nat]]
    /\ src \in [Phase -> Nat]
    /\ gen \in [Phase -> Nat]
    /\ on \in [Phase -> Nat]
    /\ by \in [Phase -> Configs]
    /\ read \subseteq Phase
    /\ cut \subseteq Phase
    /\ pc \in {"idle", "goal", "recipe"}
    /\ who \in Configs
    /\ forced \in {0, 1}
    /\ goals \in Seq(Goal)
    /\ at \in -1 .. Last + 1
    /\ late \subseteq Phase
    /\ made \in -1 .. Last

\* The infrastructure of phase k is the one c's status file was touched for.
Attested(c, k) == status[c][k] # 0 /\ gen[k] = status[c][k]

\* A status file never exists without the status files of the phases before it,
\* whatever fails and wherever make is stopped: creation walks up the phases,
\* the clean targets of Makefile.j2 walk down them.
StatusPrefix ==
    \A c \in Configs, j, k \in Phase : j < k /\ status[c][k] # 0 => status[c][j] # 0

\* When a make has succeeded, every phase it covers whose infrastructure is
\* still the attested one was created on the attested creation of the phase
\* before it: comparing mtimes is enough to rebuild whatever was built on
\* something since replaced.
BuiltInOrder ==
    \A k \in 1 .. made :
        Attested(who, k-1) /\ Attested(who, k) => on[k] = gen[k-1]

\* A phase that make takes for up to date is really in place, unless a clean
\* command was stopped part-way or another configuration with the same tag
\* replaced or removed it.  A failed or interrupted recipe never leaves a
\* status file that hides the failure.
SoundStatus ==
    \A c \in Configs, k \in Phase :
        /\ ~OutOfDate(c, k)
        /\ by[k] = c
        /\ k \notin cut
        => Attested(c, k)

\* Without FORCE, a make only ever starts on the Makefile generated for the
\* present content of the inventory, although all it compares is two mtimes.
OutdatedBlocked ==
    [][pc = "idle" /\ pc' = "goal" => forced' = 1 \/ who' = current]_vars

\* README: editing the report playbook or its template makes phase7 rebuild.
\* A make started after an edit succeeds only with a recipe that read it.
EditsRebuild ==
    pc = "idle" =>
        (SourcePhases \cap 0 .. made) \ late \subseteq read

\* Each configuration's status files evolve as PhaseChain says, whatever the
\* other configurations' makes do and wherever a make stops.
Completed == [c \in Configs |-> {k \in Phase : status[c][k] # 0}]
Chain == INSTANCE PhaseChain WITH completed <- Completed
ChainRefined == Chain!Spec
===============================================================================

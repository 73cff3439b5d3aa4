-------------------------------- MODULE Sweep --------------------------------
(***************************************************************************)
(* Many configurations, one after the other: the scaling sweep             *)
(* (configs/xem/run_pnfs_io500_scaling.sh), the search for missing results *)
(* (configs/xem/pnfs_scaling/get_results.py --run-missing) and a user who  *)
(* runs a configuration of configure_pnfs_all.yaml by hand.  Each drives   *)
(* phases 5 to 7 of the configurations' Makefiles; phases 0 to 4 of these  *)
(* physical hosts belong to bootstrapping here.  One of them runs at a     *)
(* time and any of them may be interrupted.                                *)
(*                                                                         *)
(* The file that configure_pnfs_all.yaml edits on every MDS host is one    *)
(* file of a shared file system.                                           *)
(***************************************************************************)
EXTENDS EnvTopology, Integers, FiniteSets

CONSTANTS
    Listed,     \* the configurations of the sweep, in the order of the script
    Searched,   \* those that get_results.py looks for
    ByHand,     \* one whose playbook is configure_pnfs_all.yaml
    Domain,     \* Domain[k]: the hosts that configuration k deploys on
    Mds,        \* the MDS hosts of ByHand
    UserFile,   \* pnfs-lab.env as its owner wrote it
    MaxStarts   \* bound on the drivers started

Configs == {Listed[i] : i \in DOMAIN Listed} \cup Searched \cup {ByHand}
Domains == {Domain[k] : k \in Configs}

ASSUME SweepAssumption == MaxStarts \in Nat /\ Configs \subseteq DOMAIN Domain
\* The list of the script and the files of a directory.
ASSUME FiniteAssumption == Listed \in Seq(Configs) /\ IsFiniteSet(Configs)
\* A text file, with or without managed blocks of earlier runs.
ASSUME FileAssumption ==
  UserFile \in Seq([kind : {"user", "anchor", "begin", "variables", "end"},
                    of : Nat \X Nat \X Nat])

VARIABLES
    by,         \* the driver that runs, or ran last
    at,         \* what it does
    todo,       \* its configurations left, the head being run
    failed,     \* whether it has noted a failure: it then ends with exit 1
    starts,     \* the drivers started
    level,      \* level[k]: the last phase with a status file; 0 for 4 and less
    deployed,   \* deployed[d]: the configuration wholly deployed on d's hosts
    generated,  \* the configuration that /tmp/inventory was generated for
    scored,     \* configurations with a saved result_summary.txt with a SCORE
    measured,   \* those this driver tested on a deployment of their own
    env,        \* the lines of pnfs-lab.env
    backup,     \* the best of its dated backups
    pc,         \* pc[m]: where update_env_topology.py is on MDS host m
    text        \* text[m]: what it is going to write

driver == <<by, at, todo, failed, starts>>
lab    == <<level, deployed, generated, scored, measured>>
file   == <<env, backup, pc, text>>
vars   == <<driver, lab, file>>

Config == Head(todo)
Active == {k \in Configs : level[k] >= 5}

-----------------------------------------------------------------------------
(* get_results.py *)

\* sort_key: the largest smallest count first, then the largest largest count;
\* balanced before fewer clients, before fewer MDS, before fewer DS.
Low(k) == Min({k[1], k[2], k[3]})
High(k) == Max({k[1], k[2], k[3]})
Kind(k) ==
  CASE k[3] = Low(k) /\ k[3] < Max({k[1], k[2]}) -> 0
    [] k[1] = Low(k) /\ k[1] < Max({k[2], k[3]}) -> 1
    [] k[2] = Low(k) /\ k[2] < Max({k[1], k[3]}) -> 2
    [] OTHER -> -1

SortedBefore(a, b) ==
  \/ Low(a) > Low(b)
  \/ Low(a) = Low(b) /\ High(a) > High(b)
  \/ Low(a) = Low(b) /\ High(a) = High(b) /\ Kind(a) < Kind(b)

\* configs.sort: equal keys stay in the order of the directory.
Sorted(S) ==
  {s \in SetToSeqs(S) : \A i, j \in 1..Len(s) : SortedBefore(s[i], s[j]) => i < j}

Lists(who) ==
  CASE who = "scaling" -> {Listed}
    [] who = "missing" -> Sorted(Searched)
    [] OTHER -> {<<ByHand>>}

-----------------------------------------------------------------------------
Init ==
    /\ by = "user" /\ at = "ended" /\ todo = <<>> /\ failed = "yes" /\ starts = 0
    /\ level = [k \in Configs |-> 0]
    /\ deployed = [d \in Domains |-> NoConfig]
    /\ generated = NoConfig /\ scored = {} /\ measured = {}
    /\ env = UserFile /\ backup = "none"
    /\ pc = [m \in Mds |-> "idle"] /\ text = [m \in Mds |-> <<>>]

Start(who) ==
    /\ at = "ended" /\ starts < MaxStarts
    /\ starts' = starts + 1
    /\ by' = who /\ at' = "visit" /\ failed' = "no" /\ measured' = {}
    /\ todo' \in Lists(who)
    /\ UNCHANGED <<level, deployed, generated, scored, file>>

Go(next) == at' = next /\ UNCHANGED <<by, todo, failed, starts>>
End(result) == at' = "ended" /\ failed' = result /\ todo' = <<>> /\ UNCHANGED <<by, starts>>

\* Mutant: a failed make is printed and not added to the failures.
Printed(step) == IF step = "make" THEN failed ELSE "yes"

\* failures+=: what the sweep ends with.
Noted(step) == "yes"

Skip(result) ==
    /\ at' = "visit" /\ todo' = Tail(todo) /\ failed' = result
    /\ UNCHANGED <<by, starts>>

\* Mutant: the status file of the phase after the one that succeeded.
TouchedNext(k, n) == [level EXCEPT ![k] = n + 1]

Touched(k, n) == [level EXCEPT ![k] = n]

\* phase5-clean of k: phases 8 to 6 first; configure_pnfs_monolithic.yaml resets
\* the lab of /tmp/inventory, whosever it is, and ignores an error of it.
CleanPhase5(k, ok) ==
    /\ level' = [level EXCEPT ![k] = IF ok THEN 0 ELSE 5]
    /\ LET d == IF k = ByHand THEN Domain[k]
                ELSE IF generated = NoConfig THEN Domain[k] ELSE Domain[generated]
       IN deployed' \in {deployed, [deployed EXCEPT ![d] = NoConfig]}
    /\ UNCHANGED <<generated, scored, measured, file>>

-----------------------------------------------------------------------------
(* run_pnfs_io500_scaling.sh *)

\* Mutant: the first active deployment is cleaned, however many there are.
AnyNumber(active) == TRUE

\* cleanup_active_deployment refuses several active deployments.
SafeToClean(active) == Cardinality(active) <= 1

\* cleanup_active_deployment, before a configuration and after the last one.
SweepClean ==
    /\ by = "scaling" /\ at = "visit"
    /\ IF Active = {} THEN
         /\ UNCHANGED <<lab, file>>
         /\ IF todo = <<>> THEN End(failed) ELSE Go("bootstrap")
       ELSE IF SafeToClean(Active) THEN
         \E k \in Active, ok \in BOOLEAN :
            /\ CleanPhase5(k, ok)
            /\ IF ~ok THEN End("yes")
               ELSE IF todo = <<>> THEN End(failed) ELSE Go("bootstrap")
       ELSE End("yes") /\ UNCHANGED <<lab, file>>

\* find_successful_result: among all the results kept for a configuration.
Successful(k) == k \in scored

\* The loops of get_results.py and of the user: a result that exists is shown.
Visit ==
    /\ by # "scaling" /\ at = "visit"
    /\ IF todo = <<>> THEN End(failed)
       ELSE IF by = "missing" /\ Successful(Config) THEN Skip(failed)
       ELSE Go("bootstrap")
    /\ UNCHANGED <<lab, file>>

\* bootstrap.sh, the Makefile and make -t phase4 (or phases 0 to 4).
Bootstrap(ok) ==
    /\ at = "bootstrap"
    /\ IF ok THEN Go("make") ELSE Skip(Noted("bootstrap"))
    /\ UNCHANGED <<lab, file>>

\* make all: the first phase without a status file.
Make ==
    /\ at = "make"
    /\ Go(CASE level[Config] = 0 /\ Config = ByHand -> "backup"
            [] level[Config] = 0 /\ Config # ByHand -> "phase5"
            [] level[Config] = 5 -> "phase6"
            [] level[Config] = 6 -> "phase7"
            [] OTHER -> "made")
    /\ UNCHANGED <<lab, file>>

MakeFails == Skip(Noted("make"))

-----------------------------------------------------------------------------
(* configure_pnfs_all.yaml on the MDS hosts, and update_env_topology.py *)

\* Mutant: one backup file, written again by every run.
OneBackup(best, copy) == copy

\* The dated backups stay: a whole one is never lost.
Backups(best, copy) == IF best = "whole" THEN best ELSE copy

Whole(lines) == UserLines(lines) = UserLines(UserFile)

\* The copy task, on every host before any host goes on to the next task.
Backup ==
    /\ at = "backup"
    /\ Go("phase5")
    /\ backup' = Backups(backup, IF Whole(env) THEN "whole" ELSE "damaged")
    /\ pc' = [m \in Mds |-> "read"]
    /\ UNCHANGED <<lab, env, text>>

\* readlines, and the text of the new file.
ReadEnv(m) ==
    /\ at = "phase5" /\ pc[m] = "read"
    /\ pc' = [pc EXCEPT ![m] = "open"]
    /\ text' = [text EXCEPT ![m] = Updated(env, ByHand)]
    /\ UNCHANGED <<driver, lab, env, backup>>

\* open(env_file, "w") empties the file.
OpenEnv(m) ==
    /\ pc[m] = "open"
    /\ env' = <<>>
    /\ pc' = [pc EXCEPT ![m] = "write"]
    /\ UNCHANGED <<driver, lab, backup, text>>

WriteEnv(m) ==
    /\ pc[m] = "write"
    /\ env' = Overwritten(env, text[m])
    /\ pc' = [pc EXCEPT ![m] = "idle"]
    /\ text' = [text EXCEPT ![m] = <<>>]
    /\ UNCHANGED <<driver, lab, backup>>

-----------------------------------------------------------------------------
AllIdle == \A m \in Mds : pc[m] = "idle"

\* The rest of phase 5: the new deployment replaces what is on its hosts.
Deploy(ok) ==
    /\ at = "phase5" /\ AllIdle
    /\ IF ok THEN Go("phase6") /\ level' = Touched(Config, 5)
       ELSE MakeFails /\ UNCHANGED level
    /\ deployed' = [deployed EXCEPT ![Domain[Config]] = IF ok THEN Config ELSE NoConfig]
    /\ generated' \in IF Config = ByHand THEN {generated}
                      ELSE IF ok THEN {Config} ELSE {generated, Config}
    /\ UNCHANGED <<scored, measured, file>>

\* Phase 6, the IO500 run: the result it leaves behind is kept, also when a later task
\* of the test fails.
Test(ok) ==
    /\ at = "phase6"
    /\ IF ok THEN Go("phase7") /\ level' = Touched(Config, 6)
       ELSE MakeFails /\ UNCHANGED level
    /\ measured' = IF ok /\ deployed[Domain[Config]] = Config
                   THEN measured \cup {Config} ELSE measured
    /\ scored' \in IF ok THEN {scored \cup {Config}} ELSE {scored, scored \cup {Config}}
    /\ UNCHANGED <<deployed, generated, file>>

\* Phase 7, after which make all is done.
Report(ok) ==
    /\ at = "phase7"
    /\ IF ok THEN Go("made") /\ level' = Touched(Config, 7)
       ELSE MakeFails /\ UNCHANGED level
    /\ UNCHANGED <<deployed, generated, scored, measured, file>>

\* "all phase5-clean": make goes on to the second goal of get_results.py; the
\* others go on to their next configuration.
Made(ok) ==
    /\ at = "made"
    /\ IF by = "missing" THEN
         /\ CleanPhase5(Config, ok)
         /\ IF ok THEN Skip(failed) ELSE MakeFails
       ELSE ok /\ Skip(failed) /\ UNCHANGED <<lab, file>>

\* The driver and what it started are stopped.
Interrupt ==
    /\ at # "ended"
    /\ End("yes")
    /\ deployed' = IF at = "phase5"
                   THEN [deployed EXCEPT ![Domain[Config]] = NoConfig] ELSE deployed
    /\ pc' = [m \in Mds |-> "idle"] /\ text' = [m \in Mds |-> <<>>]
    /\ UNCHANGED <<level, generated, scored, measured, env, backup>>

Next ==
    \/ \E who \in {"scaling", "missing", "user"} : Start(who)
    \/ SweepClean \/ Visit \/ Make \/ Backup \/ Interrupt
    \/ \E ok \in BOOLEAN :
         Bootstrap(ok) \/ Deploy(ok) \/ Test(ok) \/ Report(ok) \/ Made(ok)
    \/ \E m \in Mds : ReadEnv(m) \/ OpenEnv(m) \/ WriteEnv(m)

Spec == Init /\ [][Next]_vars

-----------------------------------------------------------------------------
\* The state of the sweep, of the status files and of the shared file.
TypeOK ==
    /\ by \in {"scaling", "missing", "user"}
    /\ at \in {"ended", "visit", "bootstrap", "make", "backup", "phase5", "phase6", "phase7",
               "made"}
    /\ failed \in {"yes", "no"} /\ starts \in 0 .. MaxStarts
    /\ \A i \in DOMAIN todo : todo[i] \in Configs
    /\ at \notin {"ended", "visit"} => todo # <<>>
    /\ level \in [Configs -> {0, 5, 6, 7}]
    /\ deployed \in [Domains -> Configs \cup {NoConfig}]
    /\ generated \in Configs \cup {NoConfig}
    /\ scored \subseteq Configs /\ measured \subseteq Configs
    /\ backup \in {"none", "damaged", "whole"}
    /\ pc \in [Mds -> {"idle", "read", "open", "write"}]
    /\ \A m \in Mds : (pc[m] \in {"open", "write"}) = (text[m] # <<>>)

\* run_pnfs_io500_scaling.sh: whatever was left behind by interrupted sweeps, by
\* get_results.py (whose failed "all" leaves a status.phase5) and by hand, the
\* benchmark of a configuration of the sweep runs on a deployment of that
\* configuration and never, phase 5 being skipped, on somebody else's.
OwnDeployment ==
    by = "scaling" /\ at = "phase6" => deployed[Domain[Config]] = Config

\* The sweep says that it completed successfully only when it has measured every
\* configuration of its list, each on its own deployment, and has left no status
\* file behind that says that phase 5 is done.
SweepComplete ==
    by = "scaling" /\ at = "ended" /\ failed = "no" =>
        /\ \A i \in DOMAIN Listed : Listed[i] \in measured
        /\ Active = {}

\* configure_pnfs_all.yaml, "Create a backup copy": the MDS hosts empty and write
\* one shared file over each other, and a stop may come between, but the lines of
\* its owner are always in the file or in one of its backups.
Recoverable == Whole(env) \/ backup = "whole"
=============================================================================

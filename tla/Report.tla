-------------------------------- MODULE Report --------------------------------
(***************************************************************************)
(* Phase 7 of one experiment: the saved results of a run are read, the     *)
(* baseline is restricted to the nodes of the run, every IO500 phase is    *)
(* compared with the restricted estimate, and the report is drawn          *)
(* (build_manifest, pages and generate of                                  *)
(* shared/files/tessi_io500_report.py).  The report of the baseline itself *)
(* skips the comparison (derive, report_pages and generate of              *)
(* performance/files/report.py).                                           *)
(***************************************************************************)
EXTENDS Estimates, Pages

CONSTANTS
  SavedExperiments,  \* the saved runs of an experiment, and what its pointer names
  Baselines,  \* the baselines it may be compared with
  Phases      \* the names of the IO500 phases, in the order of result.txt

\* The IOR phases that a baseline workload corresponds to.
Comparable == {"ior-easy-read", "ior-easy-write", "ior-rnd4K-easy-read"}
Mdtests == {"mdtest-easy-write", "mdtest-easy-stat", "mdtest-easy-delete",
            "mdtest-hard-write", "mdtest-hard-stat", "mdtest-hard-read", "mdtest-hard-delete"}

ASSUME PhasesAssumption == Phases \in Seq(STRING) /\ Phases # <<>>

\* A manifest has its groups and samples; what it says was measured has rates.
ASSUME BaselinesAssumption ==
  \A b \in Baselines :
    /\ {"groups", "pairs", "unpaired"} \subseteq DOMAIN b
    /\ IsFiniteSet(b.complete) /\ b.complete \subseteq DOMAIN Disk
    /\ \A r \in {"ds", "mds"} : IsFiniteSet(b.pairs[r]) /\ b.pairs[r] \subseteq DOMAIN Link

VARIABLES
  at,        \* what the report does
  run,       \* the saved run, as build_manifest reads it
  base,      \* the baseline, NoBase without a --baseline argument
  derived,   \* the estimate scoped to the run
  checks,    \* the issues, and the software stack comparison
  index,     \* the next phase to compare, or the next block to draw
  compared,  \* the last comparison
  script,    \* the blocks of the report
  cursor,    \* the position on the page
  drawn      \* the lowest line the last block has drawn

reportVars == <<at, run, base, derived, checks, index, compared, script, cursor, drawn>>

NoBase == [exists |-> "no"]
NoRun == [kind |-> "none"]
NoChecks == [issues |-> "no", stack |-> "not recorded"]
NotCompared == [name |-> "none", fraction |-> "no", plane |-> "none",
                enabled |-> "no", rate |-> "none", notes |-> "none"]

ReportInit ==
  /\ at = "read"
  /\ run = NoRun
  /\ base = NoBase
  /\ derived = None
  /\ checks = NoChecks
  /\ index = 1
  /\ compared = NotCompared
  /\ script = <<>>
  /\ cursor = Fresh
  /\ drawn = Fresh

-----------------------------------------------------------------------------
(* build_manifest *)

\* select_run: the directory the pointer names when it is one of this experiment
\* with a result.txt, else the latest run with a [SCORE]; ValueError without one.
SelectRun(e) ==
  IF e.pointer # NoRun THEN {e.pointer}
  ELSE LET scored == {r \in e.results : r.scored = "yes"}
       IN {r \in scored : \A q \in scored : q.start <= r.start}

\* result.txt, config.ini, the facts and the baseline are read.
Read ==
  /\ at = "read"
  /\ \E e \in SavedExperiments : run' \in SelectRun(e)
  /\ base' \in Baselines \cup {NoBase}
  /\ at' = "scope"
  /\ UNCHANGED <<derived, checks, index, compared, script, cursor, drawn>>

\* The report of a baseline itself: its manifest is all it reads.
ReadBaseline ==
  /\ at = "read"
  /\ run' = [kind |-> "performance"]
  /\ base' \in Baselines
  /\ at' = "derive"
  /\ UNCHANGED <<derived, checks, index, compared, script, cursor, drawn>>

\* saved_hosts: the hosts of the three groups, with what their saved facts say of
\* the kernel.
SavedHosts == [n \in Hosts(run.groups) |-> run.kernel[n]]

\* scoped_baseline, and the saved facts of nodes that are in no group.
Scope ==
  /\ at = "scope"
  /\ LET scoped == IF base = NoBase THEN [at |-> "none", est |-> None]
                   ELSE ScopedBaseline(base, run.groups)
         issues == base # NoBase /\ Issues(base, run.groups, SavedHosts) # {}
     IN /\ derived' = scoped.est
        /\ checks' = [checks EXCEPT !.issues = IF issues \/ run.outside = "yes"
                                               THEN "yes" ELSE "no"]
        /\ at' = IF scoped.at = "crashed" THEN "crashed" ELSE "stack"
  /\ UNCHANGED <<run, base, index, compared, script, cursor, drawn>>

\* doca, mpi and ucx of a matched host, compared with its baseline's.
StackOf(n) == run.stack[n]

Stack ==
  /\ at = "stack"
  /\ LET hosts == IF base = NoBase THEN {} ELSE Matches(base, run.groups)
     IN checks' = [checks EXCEPT !.stack =
          IF \E n \in hosts : StackOf(n) = "other" THEN "mismatch"
          ELSE IF hosts # {} /\ \A n \in hosts : StackOf(n) = "same" THEN "match"
          ELSE @]
  /\ at' = "compare"
  /\ UNCHANGED <<run, base, derived, index, compared, script, cursor, drawn>>

\* numeric and phase_results: a phase is disabled, or has a score that may be
\* missing or zero, and error notes.
PhaseResults(name) ==
  {[name |-> name, enabled |-> "no", rate |-> "none", notes |-> "none"]}
  \cup [name : {name}, enabled : {"yes"}, rate : {"none", "zero", "positive"},
        notes : {"none", "short", "other"}]

HasMds == run.groups["mds"] # {}

\* Inventory, kernel and stack correspond.
Corresponds ==
  /\ checks.issues = "no"
  /\ checks.stack # "mismatch"
  /\ run.kind = "daos" => checks.stack = "match"

\* An IOR phase is compared with the data plane when everything corresponds
\* and the phase has completed, an error of a short stonewall apart.
IorFraction(p) ==
  /\ p.name \in Comparable
  /\ Corresponds
  /\ run.rc = 0
  /\ p.notes # "other"
  /\ p.rate = "positive"
  /\ (CASE p.name = "ior-easy-read" -> derived.data.readBw
        [] p.name = "ior-easy-write" -> derived.data.writeBw
        [] p.name = "ior-rnd4K-easy-read" -> derived.data.readIops) > 0

\* An mdtest phase is compared with the metadata plane of a split system,
\* whatever the checks say; they are printed beside it.
MdtestFraction(p) ==
  /\ p.rate # "none"
  /\ (IF HasMds THEN derived.metadata ELSE derived.data).iops > 0

Comparison(p) ==
  LET mdtest == p.enabled = "yes" /\ derived # None /\ p.name \in Mdtests
      ior == p.enabled = "yes" /\ derived # None /\ ~ mdtest /\ IorFraction(p)
  IN [name |-> p.name, enabled |-> p.enabled, rate |-> p.rate, notes |-> p.notes,
      plane |-> IF mdtest /\ HasMds THEN "metadata"
                ELSE IF mdtest \/ ior THEN "data" ELSE "none",
      fraction |-> IF (mdtest /\ MdtestFraction(p)) \/ ior THEN "yes" ELSE "no"]

\* derived['planes']['metadata'] of a baseline whose metadata servers match
\* in the data role only.
Crashes(p) ==
  /\ p.enabled = "yes" /\ derived # None /\ p.name \in Mdtests
  /\ HasMds /\ derived.metadata = None

Compare ==
  /\ at = "compare"
  /\ index <= Len(Phases)
  /\ \E p \in PhaseResults(Phases[index]) :
       IF Crashes(p)
       THEN at' = "crashed" /\ UNCHANGED <<index, compared>>
       ELSE compared' = Comparison(p) /\ index' = index + 1 /\ UNCHANGED at
  /\ UNCHANGED <<run, base, derived, checks, script, cursor, drawn>>

-----------------------------------------------------------------------------
(* pages and generate *)

\* The manifest is complete: what is drawn depends on the kind of system,
\* on its metadata servers and on the estimate.
Lay(blocks) ==
  /\ script' = blocks
  /\ at' = "draw"
  /\ index' = 1
  /\ run' = NoRun
  /\ base' = NoBase
  /\ derived' = None
  /\ checks' = NoChecks
  /\ compared' = NotCompared
  /\ UNCHANGED <<cursor, drawn>>

StartPages ==
  /\ at = "compare"
  /\ index > Len(Phases)
  /\ Lay(Io500Script(run.kind, HasMds, derived # None, Len(Phases),
                     Cardinality({k \in 1..Len(Phases) : Phases[k] \in Mdtests})))

\* The rest of build_manifest reads result_summary.txt, which a run that was
\* stopped, and that only the pointer can select, may not have.
ManifestFails ==
  /\ at = "compare"
  /\ index > Len(Phases)
  /\ run.scored = "no"
  /\ at' = "crashed"
  /\ UNCHANGED <<run, base, derived, checks, index, compared, script, cursor, drawn>>

\* report.py: the estimates of the whole baseline, then its pages.
StartBaseline ==
  /\ at = "derive"
  /\ Derive(base) # None
  /\ Lay(BaselineScript(base.groups["mds"] # {}))

\* Incomplete FIO or OSU samples raise ValueError.
DeriveFails ==
  /\ at = "derive"
  /\ Derive(base) = None
  /\ at' = "crashed"
  /\ UNCHANGED <<run, base, derived, checks, index, compared, script, cursor, drawn>>

\* One block after the other, for some lengths of its texts.
Draw ==
  /\ at = "draw"
  /\ index <= Len(script)
  /\ \E n \in {1, MaxServers} : \E p \in Placements(script[index], cursor, n) :
       cursor' = p.y /\ drawn' = p.low
  /\ index' = index + 1
  /\ UNCHANGED <<at, run, base, derived, checks, compared, script>>

\* The PDF and the manifest of the results are written.
Write ==
  /\ at = "draw"
  /\ index > Len(script)
  /\ at' = "written"
  /\ script' = <<>>
  /\ index' = 1
  /\ cursor' = Fresh
  /\ drawn' = Fresh
  /\ UNCHANGED <<run, base, derived, checks, compared>>

ReportNext ==
  \/ Read \/ ReadBaseline \/ Scope \/ Stack \/ Compare
  \/ ManifestFails \/ StartPages \/ StartBaseline \/ DeriveFails \/ Draw \/ Write

ReportSpec == ReportInit /\ [][ReportNext]_reportVars

-----------------------------------------------------------------------------
(* Properties *)

\* A fraction of the estimate is printed for an IOR phase only when every node
\* of the run is a node the baseline measured in the same role, with the same
\* kernel and no other software (for DAOS: with the same), MPI succeeded and
\* the phase has a rate and no unexplained error: no check is bypassed by a
\* baseline that covers only a part of the run or by a colocated node
\* (tessi_io500_report.py:152-194 and 235-275).
FractionJustified ==
  (compared.fraction = "yes" /\ compared.name \notin Mdtests) =>
    /\ base # NoBase
    /\ compared.name \in Comparable
    /\ compared.enabled = "yes" /\ compared.rate = "positive" /\ compared.notes # "other"
    /\ run.rc = 0
    /\ run.outside # "yes"
    /\ \A r \in Roles : \A n \in run.groups[r] :
         /\ n \in base.groups[r]
         /\ run.kernel[n] = base.kernel[n]
         /\ run.stack[n] # "other"
         /\ run.kind = "daos" => run.stack[n] = "same"

\* A scoped estimate counts the nodes of the run only, uses no link with a
\* node outside the run, leaves no selected node uncounted, and is never more
\* than the estimate of the whole baseline (scoped_baseline, derive_role).
ScopedEstimate ==
  derived # None =>
    \A r \in {"ds", "mds"} :
      LET plane == IF r = "ds" THEN derived.data ELSE derived.metadata
          all == Derive(base)
          whole == IF r = "ds" THEN all.data ELSE all.metadata
          ends == {p[1] : p \in plane.pairs} \cup {p[2] : p \in plane.pairs}
      IN plane # None =>
           /\ plane.servers \subseteq run.groups[r]
           /\ ends \subseteq run.groups[r] \cup run.groups["clients"]
           /\ ends \cup plane.unpaired =
                (run.groups[r] \cap base.groups[r])
                \cup (run.groups["clients"] \cap base.groups["clients"])
           /\ ends \cap plane.unpaired = {}
           /\ all # None => plane.bw <= whole.bw /\ plane.iops <= whole.iops

\* Nothing is drawn below the margin of a page, above which the footer is
\* safe, for the texts and numbers of servers that the constants allow: what is
\* kept together must fit on an empty page, as a group of 32 servers just does
\* (tessi_report_common.py:51-78, report.py:181-302, pages).
InsideMargins == drawn >= Margin
=============================================================================

----------------------------- MODULE SweepProofs -----------------------------
(* Theorems about Sweep, for any list of configurations, any set of those that *)
(* get_results.py looks for, and any number of MDS hosts; and about the        *)
(* inventories that Inventory generates, for any hosts and layouts.            *)
EXTENDS Sweep, Inventory, FiniteSetTheorems, SequenceTheorems, WellFoundedInduction, TLAPS

\* The lines of the owner are in a backup before a first host opens the file.
Backed == backup = "whole" \/ (Whole(env) /\ \A m \in Mds : pc[m] = "idle")

\* What the invariants of the sweep need of the types.
Types ==
  /\ level \in [Configs -> {0, 5, 6, 7}]
  /\ DOMAIN deployed = Domains
  /\ by = "scaling" => todo \in Seq(Configs)
  /\ by = "scaling" /\ at \notin {"ended", "visit"} => todo # <<>>

\* The sweep goes on when no phase 5 is recorded as done, so make runs phase 5 of
\* the configuration, and what phase 6 measures is what phase 5 has deployed.
Owned ==
  by = "scaling" =>
    /\ at \in {"bootstrap", "make", "backup", "phase5"} => Active = {}
    /\ at = "phase6" => deployed[Domain[Config]] = Config
    /\ at \in {"phase7", "made"} => Config \in measured

\* As long as no failure is noted, what is not measured is still to do.
Left ==
  by = "scaling" /\ failed = "no" =>
    /\ \A i \in DOMAIN Listed :
         Listed[i] \in measured \/ \E j \in DOMAIN todo : todo[j] = Listed[i]
    /\ at = "ended" => todo = <<>> /\ Active = {}

IInv == Types /\ Owned /\ Left

-----------------------------------------------------------------------------
(* The shared file.                                                        *)

\* Whatever is stopped and whoever writes over whom, the lines of the owner of
\* pnfs-lab.env are in the file or in a backup, for any number of MDS hosts
\* (configure_pnfs_all.yaml, "Create a backup copy").
THEOREM AlwaysRecoverable == Spec => []Recoverable
  <1>1. Init => Backed
    BY DEF Init, Backed, Whole
  <1>2. Backed /\ [Next]_vars => Backed'
    <2> SUFFICES ASSUME Backed, [Next]_vars PROVE Backed'
      OBVIOUS
    <2>1. CASE Backup
      BY <2>1 DEF Backed, Backup, Backups, Whole
    <2>2. CASE \E m \in Mds : ReadEnv(m) \/ OpenEnv(m) \/ WriteEnv(m)
      <3>1. PICK m \in Mds : ReadEnv(m) \/ OpenEnv(m) \/ WriteEnv(m)
        BY <2>2
      <3>2. pc[m] # "idle" /\ backup' = backup
        BY <3>1 DEF ReadEnv, OpenEnv, WriteEnv
      <3> QED BY <3>2 DEF Backed
    <2>3. CASE Interrupt
      BY <2>3 DEF Backed, Interrupt, Whole
    <2>4. CASE UNCHANGED file
      BY <2>4 DEF Backed, file, Whole
    <2>5. Backup \/ (\E m \in Mds : ReadEnv(m) \/ OpenEnv(m) \/ WriteEnv(m))
          \/ Interrupt \/ UNCHANGED file
      BY DEF Next, vars, Start, SweepClean, CleanPhase5, Visit, Make, Bootstrap, Deploy, Test,
             Report, Made
    <2> QED BY <2>1, <2>2, <2>3, <2>4, <2>5
  <1>3. Backed => Recoverable
    BY DEF Backed, Recoverable
  <1> QED BY <1>1, <1>2, <1>3, PTL DEF Spec

-----------------------------------------------------------------------------
(* The sweep.                                                              *)

\* Cleaning the only active deployment leaves none.
LEMMA CleanedLast ==
    ASSUME Types, NEW k \in Active, SafeToClean(Active), CleanPhase5(k, TRUE)
    PROVE  Active' = {}
  <1>1. IsFiniteSet(Active)
    <2>1. Active \subseteq Configs
      BY DEF Active
    <2> QED BY <2>1, FiniteAssumption, FS_Subset
  <1>2. Active = {k}
    <2>1. Cardinality(Active) \in Nat /\ Cardinality(Active) <= 1 /\ Cardinality(Active) # 0
      BY <1>1, FS_CardinalityType, FS_EmptySet DEF SafeToClean
    <2>2. Cardinality(Active) = 1
      BY <2>1
    <2> QED BY <1>1, <2>2, FS_Singleton
  <1>3. level' = [level EXCEPT ![k] = 0] /\ k \in Configs
    BY DEF CleanPhase5, Active
  <1> QED BY <1>2, <1>3 DEF Active, Types

\* The files of the lab keep their types, whatever becomes of a deployment.
LEMMA CleanTypes ==
    ASSUME Types, NEW k, NEW ok \in BOOLEAN, CleanPhase5(k, ok)
    PROVE  /\ level' \in [Configs -> {0, 5, 6, 7}]
           /\ DOMAIN deployed' = Domains
           /\ measured' = measured
  BY DEF Types, CleanPhase5

LEMMA InitInv == Init => IInv
  BY DEF Init, IInv, Types, Owned, Left

\* The next configuration is tried, or the sweep ends, when nothing is active.
LEMMA SweepCleanInv ==
    ASSUME IInv, SweepClean
    PROVE  IInv'
  <1> USE DEF IInv
  <1>1. /\ by = "scaling" /\ at = "visit" /\ by' = "scaling"
        /\ todo \in Seq(Configs)
    BY DEF SweepClean, End, Go, Types
  <1>2. /\ level' \in [Configs -> {0, 5, 6, 7}]
        /\ DOMAIN deployed' = Domains
        /\ measured' = measured
    BY CleanTypes DEF SweepClean, lab, Types
  <1>3. \/ at' = "ended" /\ failed' = "yes" /\ todo' = <<>>
        \/ at' = "ended" /\ failed' = failed /\ todo = <<>> /\ todo' = <<>> /\ Active' = {}
        \/ at' = "bootstrap" /\ failed' = failed /\ todo # <<>> /\ todo' = todo /\ Active' = {}
    <2>1. CASE Active = {}
      <3>1. Active' = Active
        BY <2>1 DEF SweepClean, lab, Active
      <3> QED BY <2>1, <3>1 DEF SweepClean, End, Go
    <2>2. CASE Active # {} /\ SafeToClean(Active)
      <3>1. PICK k \in Active, ok \in BOOLEAN :
               /\ CleanPhase5(k, ok)
               /\ IF ~ok THEN End("yes")
                  ELSE IF todo = <<>> THEN End(failed) ELSE Go("bootstrap")
        BY <2>2 DEF SweepClean
      <3>2. CASE ok
        <4>1. Active' = {}
          BY <2>2, <3>1, <3>2, CleanedLast
        <4> QED BY <3>1, <3>2, <4>1 DEF End, Go
      <3>3. CASE ~ok
        BY <3>1, <3>3 DEF End
      <3> QED BY <3>2, <3>3
    <2>3. CASE Active # {} /\ ~SafeToClean(Active)
      BY <2>3 DEF SweepClean, End
    <2> QED BY <2>1, <2>2, <2>3
  <1>4. Types'
    <2>1. todo' \in Seq(Configs)
      <3>1. <<>> \in Seq(Configs)
        OBVIOUS
      <3>2. todo' = <<>> \/ todo' = todo
        BY <1>3
      <3> QED BY <1>1, <3>1, <3>2
    <2>2. at' \notin {"ended", "visit"} => todo' # <<>>
      BY <1>3
    <2> QED BY <1>2, <2>1, <2>2 DEF Types
  <1>5. Owned'
    BY <1>3 DEF Owned
  <1>6. Left'
    BY <1>1, <1>2, <1>3 DEF Left
  <1> QED BY <1>4, <1>5, <1>6

\* A driver starts with its whole list.
LEMMA StartInv ==
    ASSUME IInv, NEW who \in {"scaling", "missing", "user"}, Start(who)
    PROVE  IInv'
  <1> USE DEF IInv, Start
  <1>1. by' = "scaling" => todo' = Listed
    BY DEF Lists
  <1>2. Types'
    BY <1>1, FiniteAssumption DEF Types
  <1>3. Owned'
    BY DEF Owned
  <1>4. Left'
    BY <1>1 DEF Left
  <1> QED BY <1>2, <1>3, <1>4

\* A step of the driver within a configuration, none of which changes the list.
LEMMA WithinInv ==
    ASSUME IInv, Visit \/ Make \/ Backup, by = "scaling"
    PROVE  IInv'
  <1> USE DEF IInv, Go, lab, file
  <1>1. /\ at \in {"make", "backup"} /\ UNCHANGED <<by, todo, failed, level, deployed, measured>>
        /\ at' \in {"backup", "phase5", "phase6", "phase7", "made"}
    BY DEF Visit, Make, Backup
  <1>2. Config \in Configs /\ Config' = Config
    BY <1>1 DEF Types, Config
  <1>3. Active' = Active /\ Active = {}
    BY <1>1 DEF Active, Owned
  <1>4. level[Config] = 0
    BY <1>2, <1>3 DEF Active, Types
  <1>5. at' \in {"backup", "phase5"}
    BY <1>4 DEF Make, Backup, Visit
  <1>6. Types'
    BY <1>1, <1>5 DEF Types
  <1>7. Owned'
    BY <1>3, <1>5 DEF Owned
  <1>8. Left'
    BY <1>1, <1>5 DEF Left
  <1> QED BY <1>6, <1>7, <1>8

\* A failure is noted before the next configuration; a measured one is dropped.
LEMMA SkipInv ==
    ASSUME IInv, by = "scaling", at \notin {"ended", "visit"}, NEW result, Skip(result),
           result = "no" => failed = "no" /\ Config \in measured',
           level' \in [Configs -> {0, 5, 6, 7}], DOMAIN deployed' = Domains,
           measured \subseteq measured'
    PROVE  IInv'
  <1> USE DEF IInv, Skip
  <1>1. todo \in Seq(Configs) /\ todo # <<>>
    BY DEF Types
  <1>2. Types'
    BY <1>1 DEF Types
  <1>3. Owned'
    BY DEF Owned
  <1>4. Left'
    <2> SUFFICES ASSUME failed' = "no", NEW i \in DOMAIN Listed, Listed[i] \notin measured'
                 PROVE  \E j \in DOMAIN todo' : todo'[j] = Listed[i]
      BY DEF Left
    <2>1. PICK j \in DOMAIN todo : todo[j] = Listed[i]
      BY DEF Left
    <2>2. todo[j] # todo[1]
      BY <2>1 DEF Config
    <2>3. j \in 1..Len(todo) /\ j # 1
      BY <1>1, <2>1, <2>2
    <2>4. todo' = Tail(todo) /\ j - 1 \in DOMAIN Tail(todo) /\ Tail(todo)[j - 1] = todo[j]
      BY <1>1, <2>3
    <2> QED BY <2>1, <2>4
  <1> QED BY <1>2, <1>3, <1>4

\* bootstrap.sh finds the lab as it is; its failure is noted.
LEMMA BootstrapInv ==
    ASSUME IInv, by = "scaling", NEW ok \in BOOLEAN, Bootstrap(ok)
    PROVE  IInv'
  <1>1. CASE ok
    <2>1. at = "bootstrap" /\ at' = "make" /\ UNCHANGED <<by, todo, failed, lab>>
      BY <1>1 DEF Bootstrap, Go
    <2>2. Active' = Active
      BY <2>1 DEF Active, lab
    <2> QED BY <2>1, <2>2 DEF IInv, Types, Owned, Left, lab
  <1>2. CASE ~ok
    BY <1>2, SkipInv DEF IInv, Bootstrap, Noted, Types, lab
  <1> QED BY <1>1, <1>2

\* Phase 5 leaves its own configuration on the hosts.
LEMMA DeployInv ==
    ASSUME IInv, by = "scaling", NEW ok \in BOOLEAN, Deploy(ok)
    PROVE  IInv'
  <1>1. /\ at = "phase5" /\ measured' = measured
        /\ Config \in Configs /\ Domain[Config] \in Domains
    BY DEF Deploy, IInv, Types, Config, Domains
  <1>2. level' \in [Configs -> {0, 5, 6, 7}] /\ DOMAIN deployed' = Domains
    BY DEF Deploy, Touched, IInv, Types
  <1>3. CASE ok
    <2>1. at' = "phase6" /\ UNCHANGED <<by, todo, failed>> /\ Config' = Config
      BY <1>3 DEF Deploy, Go, Config
    <2>2. deployed'[Domain[Config]] = Config
      BY <1>1, <1>3 DEF Deploy, IInv, Types
    <2> QED BY <1>1, <1>2, <2>1, <2>2 DEF IInv, Types, Owned, Left
  <1>4. CASE ~ok
    BY <1>1, <1>2, <1>4, SkipInv DEF Deploy, MakeFails, Noted
  <1> QED BY <1>3, <1>4

\* Phase 6 measures what phase 5 has deployed.
LEMMA TestInv ==
    ASSUME IInv, by = "scaling", NEW ok \in BOOLEAN, Test(ok)
    PROVE  IInv'
  <1>1. /\ at = "phase6" /\ measured \subseteq measured' /\ deployed' = deployed
        /\ deployed[Domain[Config]] = Config
    BY DEF Test, IInv, Owned
  <1>2. level' \in [Configs -> {0, 5, 6, 7}] /\ DOMAIN deployed' = Domains
    BY <1>1 DEF Test, Touched, IInv, Types
  <1>3. CASE ok
    <2>1. /\ at' = "phase7" /\ UNCHANGED <<by, todo, failed>> /\ Config' = Config
          /\ Config \in measured'
      BY <1>1, <1>3 DEF Test, Go, Config
    <2> QED BY <1>1, <1>2, <2>1 DEF IInv, Types, Owned, Left
  <1>4. CASE ~ok
    BY <1>1, <1>2, <1>4, SkipInv DEF Test, MakeFails, Noted
  <1> QED BY <1>3, <1>4

\* Phase 7 changes neither the deployment nor what was measured.
LEMMA ReportInv ==
    ASSUME IInv, by = "scaling", NEW ok \in BOOLEAN, Report(ok)
    PROVE  IInv'
  <1>1. /\ at = "phase7" /\ measured' = measured /\ deployed' = deployed
        /\ Config \in measured
    BY DEF Report, IInv, Owned
  <1>2. level' \in [Configs -> {0, 5, 6, 7}] /\ DOMAIN deployed' = Domains
    BY <1>1 DEF Report, Touched, IInv, Types
  <1>3. CASE ok
    <2>1. at' = "made" /\ UNCHANGED <<by, todo, failed>> /\ Config' = Config
      BY <1>3 DEF Report, Go, Config
    <2> QED BY <1>1, <1>2, <2>1 DEF IInv, Types, Owned, Left
  <1>4. CASE ~ok
    BY <1>1, <1>2, <1>4, SkipInv DEF Report, MakeFails, Noted
  <1> QED BY <1>3, <1>4

\* The configuration that was measured is dropped from the list.
LEMMA MadeInv ==
    ASSUME IInv, by = "scaling", NEW ok \in BOOLEAN, Made(ok)
    PROVE  IInv'
  <1>1. at = "made" /\ Skip(failed) /\ UNCHANGED lab
    BY DEF Made
  <1>2. Config \in measured
    BY <1>1 DEF IInv, Owned
  <1>3. Types
    BY DEF IInv
  <1> QED BY <1>1, <1>2, <1>3, SkipInv DEF Types, lab

\* An interrupted sweep has failed.
LEMMA InterruptInv ==
    ASSUME IInv, Interrupt
    PROVE  IInv'
  <1>1. DOMAIN deployed' = Domains
    BY DEF IInv, Types, Interrupt
  <1>2. /\ at' = "ended" /\ failed' = "yes" /\ todo' = <<>> /\ level' = level
        /\ <<>> \in Seq(Configs)
    BY DEF Interrupt, End
  <1> QED BY <1>1, <1>2 DEF IInv, Types, Owned, Left

\* The other drivers keep the types; the sweep does not run beside them.
LEMMA OthersInv ==
    ASSUME IInv, by # "scaling", NEW ok \in BOOLEAN,
           \/ Visit \/ Make \/ Backup
           \/ Bootstrap(ok) \/ Deploy(ok) \/ Test(ok) \/ Report(ok) \/ Made(ok)
    PROVE  IInv'
  <1>1. by' = by
    BY DEF Visit, Make, Backup, Bootstrap, Deploy, Test, Report, Made, Go, End, Skip, MakeFails
  <1>2. level' \in [Configs -> {0, 5, 6, 7}] /\ DOMAIN deployed' = Domains
    <2>1. Types
      BY DEF IInv
    <2>2. CASE Deploy(ok) \/ Test(ok) \/ Report(ok)
      BY <2>1, <2>2 DEF Types, Deploy, Test, Report, Touched
    <2>3. CASE Made(ok)
      BY <2>1, <2>3, CleanTypes DEF Types, Made, lab
    <2>4. CASE Visit \/ Make \/ Backup \/ Bootstrap(ok)
      BY <2>1, <2>4 DEF Types, Visit, Make, Backup, Bootstrap, lab
    <2> QED BY <2>2, <2>3, <2>4
  <1> QED BY <1>1, <1>2 DEF IInv, Types, Owned, Left

-----------------------------------------------------------------------------
(* The theorems.                                                           *)

LEMMA NextInv == IInv /\ [Next]_vars => IInv'
  <1> SUFFICES ASSUME IInv, [Next]_vars PROVE IInv'
    OBVIOUS
  <1>1. CASE \E who \in {"scaling", "missing", "user"} : Start(who)
    BY <1>1, StartInv
  <1>2. CASE SweepClean \/ Interrupt
    BY <1>2, SweepCleanInv, InterruptInv
  <1>3. CASE Visit \/ Make \/ Backup
    BY <1>3, WithinInv, OthersInv
  <1>4. CASE \E ok \in BOOLEAN :
               Bootstrap(ok) \/ Deploy(ok) \/ Test(ok) \/ Report(ok) \/ Made(ok)
    <2>1. PICK ok \in BOOLEAN :
               Bootstrap(ok) \/ Deploy(ok) \/ Test(ok) \/ Report(ok) \/ Made(ok)
      BY <1>4
    <2> QED BY <2>1, BootstrapInv, DeployInv, TestInv, ReportInv, MadeInv, OthersInv
  <1>5. CASE (\E m \in Mds : ReadEnv(m) \/ OpenEnv(m) \/ WriteEnv(m)) \/ UNCHANGED vars
    <2>1. UNCHANGED <<driver, lab>>
      BY <1>5 DEF ReadEnv, OpenEnv, WriteEnv, vars
    <2> QED BY <2>1 DEF IInv, Types, Owned, Left, Active, Config, driver, lab
  <1> QED BY <1>1, <1>2, <1>3, <1>4, <1>5 DEF Next

\* IInv holds in every reachable state.
LEMMA Always == Spec => []IInv
  <1> QED BY InitInv, NextInv, PTL DEF Spec

\* Whatever interrupted drivers have left, the sweep measures a configuration on
\* its own deployment only (run_pnfs_io500_scaling.sh, cleanup_active_deployment).
THEOREM AlwaysOwnDeployment == Spec => []OwnDeployment
  <1>1. IInv => OwnDeployment
    BY DEF IInv, Owned, OwnDeployment
  <1> QED BY <1>1, Always, PTL

\* A sweep that reports success has measured its whole list, however long, and has
\* left nothing active (run_pnfs_io500_scaling.sh, failures).
THEOREM AlwaysComplete == Spec => []SweepComplete
  <1>1. IInv => SweepComplete
    BY DEF IInv, Left, SweepComplete
  <1> QED BY <1>1, Always, PTL

-----------------------------------------------------------------------------
(* The types.                                                              *)

\* Natural numbers that are refuted have a least one: induction without a theorem for it.
LEMMA LeastNumber ==
  ASSUME NEW B, B \subseteq Nat, B # {}
  PROVE  \E n \in B : \A m \in B : n <= m
  <1>1. PICK n \in B : \A m \in B : <<m, n>> \notin OpToRel(<, Nat)
    BY NatLessThanWellFounded, WFMin
  <1>2. \A m \in B : ~ (m < n)
    BY <1>1 DEF OpToRel
  <1> QED BY <1>2

\* The state of the cleaning loop after the lines of each set of positions.
Steps(g, lines) ==
  g = [s \in SUBSET DOMAIN lines |->
         IF s = {} THEN [skip |-> "no", lines |-> <<>>]
         ELSE KeepLine(g[s \ {Max(s)}], lines[Max(s)])]

\* The cleaning loop's result is its state after all positions.
LEMMA CleanedIs ==
  ASSUME NEW lines
  PROVE  CleanedLines(lines) = (CHOOSE g : Steps(g, lines))[DOMAIN lines].lines
  BY Zenon DEF CleanedLines, FoldLeft, MapThenFoldSet, Steps

\* The last of some positions.
LEMMA LastPosition ==
  ASSUME NEW n \in Nat, NEW s \in SUBSET (1..n), s # {}
  PROVE  Max(s) \in s /\ \A x \in s : x <= Max(s)
  <1> DEFINE B == {n - x : x \in s}
  <1>0. \A x \in s : x \in Nat /\ n - x \in Nat
    OBVIOUS
  <1>1. B \subseteq Nat /\ B # {}
    BY <1>0
  <1>2. PICK b \in B : \A c \in B : b <= c
    BY <1>1, LeastNumber
  <1>3. PICK m \in s : b = n - m
    OBVIOUS
  <1>4. \A x \in s : n - m <= n - x
    BY <1>2, <1>3
  <1>5. \A x \in s : m >= x
    BY <1>0, <1>4
  <1> QED BY <1>0, <1>5 DEF Max

\* The states exist: they are built for one more position at a time.
LEMMA StepsExist ==
  ASSUME NEW lines, NEW n \in Nat, DOMAIN lines = 1..n
  PROVE  \E g : Steps(g, lines)
  <1> DEFINE S == 1..n
             After(g, s) == IF s = {} THEN [skip |-> "no", lines |-> <<>>]
                            ELSE KeepLine(g[s \ {Max(s)}], lines[Max(s)])
             Upto(k) == {s \in SUBSET S : Cardinality(s) <= k}
             Part(g, k) == g = [s \in Upto(k) |-> After(g, s)]
             Bad == {k \in Nat : ~ \E g : Part(g, k)}
  <1>0. IsFiniteSet(S) /\ Cardinality(S) \in Nat
    BY FS_Interval, FS_CardinalityType
  <1>1. \A s \in SUBSET S : IsFiniteSet(s) /\ Cardinality(s) \in Nat /\ Cardinality(s) <= Cardinality(S)
    BY <1>0, FS_Subset, FS_CardinalityType
  <1>2. \A s \in SUBSET S : s # {} =>
          /\ s \ {Max(s)} \in SUBSET S
          /\ Cardinality(s) # 0
          /\ Cardinality(s \ {Max(s)}) = Cardinality(s) - 1
    BY <1>1, LastPosition, FS_RemoveElement, FS_EmptySet
  <1>3. \E g : Part(g, 0)
    <2>1. Upto(0) = {s \in SUBSET S : s = {}}
      BY <1>1, <1>2, FS_EmptySet
    <2> HIDE DEF Upto
    <2>2. Part([s \in Upto(0) |-> [skip |-> "no", lines |-> <<>>]], 0)
      BY <2>1
    <2> QED BY <2>2
  <1>4. ASSUME NEW k \in Nat, NEW g, Part(g, k) PROVE \E h : Part(h, k + 1)
    <2> DEFINE h == [s \in Upto(k + 1) |-> After(g, s)]
    <2>1. \A s \in Upto(k) : s \in Upto(k + 1)
      BY <1>1
    <2>2. \A s \in Upto(k + 1) : s # {} => s \ {Max(s)} \in Upto(k)
      BY <1>1, <1>2
    <2> HIDE DEF Upto
    <2>3. \A t \in Upto(k) : h[t] = g[t]
      <3>1. \A t \in Upto(k) : g[t] = After(g, t)
        BY <1>4
      <3>2. \A t \in Upto(k) : h[t] = After(g, t)
        BY <2>1
      <3> QED BY <3>1, <3>2
    <2>4. \A s \in Upto(k + 1) : s # {} => h[s \ {Max(s)}] = g[s \ {Max(s)}]
      BY <2>2, <2>3
    <2> HIDE DEF h
    <2>5. \A s \in Upto(k + 1) : After(g, s) = After(h, s)
      BY <2>4
    <2>6. h = [s \in Upto(k + 1) |-> After(h, s)]
      BY <2>5 DEF h
    <2> QED BY <2>6
  <1> HIDE DEF Part
  <1>5. Bad = {}
    <2> SUFFICES ASSUME Bad # {} PROVE FALSE
      OBVIOUS
    <2>0. Bad \subseteq Nat
      OBVIOUS
    <2> HIDE DEF Bad
    <2>1. PICK m \in Bad : \A k \in Bad : m <= k
      BY <2>0, LeastNumber
    <2>2. m # 0
      BY <1>3, <2>1 DEF Bad
    <2>3. m \in Nat /\ m - 1 \in Nat /\ (m - 1) + 1 = m
      BY <2>0, <2>2
    <2>4. m - 1 \notin Bad
      BY <2>1, <2>3
    <2>5. PICK g : Part(g, m - 1)
      BY <2>3, <2>4 DEF Bad
    <2>6. \E h : Part(h, (m - 1) + 1)
      BY <1>4, <2>3, <2>5
    <2> QED BY <2>1, <2>3, <2>6 DEF Bad
  <1>6. PICK g : Part(g, Cardinality(S))
    BY <1>0, <1>5
  <1>7. Upto(Cardinality(S)) = SUBSET S
    BY <1>1
  <1> QED BY <1>6, <1>7 DEF Steps, Part

\* What no run of update_env_topology.py has written.
Unmanaged(T) == {line \in T : line.kind \notin {"begin", "end", "variables"}}

\* Cleaning leaves no managed line, wherever blocks begin and end (cleaned_lines of
\* update_env_topology.py).
LEMMA CleanedType ==
  ASSUME NEW T, NEW lines \in Seq(T)
  PROVE  CleanedLines(lines) \in Seq(Unmanaged(T))
  <1> DEFINE g == CHOOSE h : Steps(h, lines)
             n == Len(lines)
             Acc == [skip : {"no", "yes"}, lines : Seq(Unmanaged(T))]
             Bad == {k \in 0..n : g[1..k] \notin Acc}
  <1>0. n \in Nat /\ DOMAIN lines = 1..n
    OBVIOUS
  <1>1. Steps(g, lines)
    BY <1>0, StepsExist
  <1>2. CleanedLines(lines) = g[1..n].lines
    BY <1>0, CleanedIs
  <1> HIDE DEF g
  <1>3. g[1..0] \in Acc
    <2>1. 1..0 = {} /\ {} \in SUBSET DOMAIN lines
      OBVIOUS
    <2>2. g[{}] = [skip |-> "no", lines |-> <<>>]
      BY <1>1, <2>1 DEF Steps
    <2>3. [skip |-> "no", lines |-> <<>>] \in Acc
      OBVIOUS
    <2> HIDE DEF Acc
    <2>4. g[1..0] = g[{}]
      BY <2>1
    <2> QED BY <2>2, <2>3, <2>4
  <1>4. ASSUME NEW k \in 1..n, g[1..(k - 1)] \in Acc PROVE g[1..k] \in Acc
    <2>1. 1..k \in SUBSET (1..n) /\ k \in 1..k
      BY <1>0
    <2>2. Max(1..k) = k
      <3>1. Max(1..k) \in 1..k /\ \A x \in 1..k : x <= Max(1..k)
        BY <1>0, <2>1, LastPosition
      <3> QED BY <1>0, <2>1, <3>1
    <2>3. (1..k) \ {k} = 1..(k - 1)
      BY <1>0
    <2>4. g[1..k] = KeepLine(g[1..(k - 1)], lines[k])
      BY <1>0, <1>1, <2>1, <2>2, <2>3 DEF Steps
    <2>5. lines[k] \in T
      BY <1>0
    <2>6. ASSUME NEW acc \in Acc PROVE KeepLine(acc, lines[k]) \in Acc
      <3>1. lines[k] \in Unmanaged(T) => Append(acc.lines, lines[k]) \in Seq(Unmanaged(T))
        OBVIOUS
      <3>2. lines[k].kind \notin {"begin", "end", "variables"} => lines[k] \in Unmanaged(T)
        BY <2>5 DEF Unmanaged
      <3> QED BY <3>1, <3>2 DEF KeepLine
    <2> QED BY <1>4, <2>4, <2>6
  <1>5. Bad = {}
    <2> SUFFICES ASSUME Bad # {} PROVE FALSE
      OBVIOUS
    <2>0. Bad \subseteq Nat
      OBVIOUS
    <2> HIDE DEF Bad
    <2>1. PICK m \in Bad : \A i \in Bad : m <= i
      BY <2>0, LeastNumber
    <2>2. m \in 0..n /\ g[1..m] \notin Acc /\ m # 0
      BY <1>3, <2>1 DEF Bad
    <2>3. m \in 1..n /\ m - 1 \in 0..n /\ m - 1 \notin Bad
      BY <1>0, <2>1, <2>2
    <2> QED BY <1>4, <2>2, <2>3 DEF Bad
  <1>6. g[1..n] \in Acc
    BY <1>0, <1>5
  <1> QED BY <1>2, <1>6

\* The position of the new block.
Place(c) ==
  LET anchors == {i \in 1..Len(c) : c[i] = Anchor}
  IN IF anchors = {} THEN Len(c) ELSE CHOOSE i \in anchors : \A j \in anchors : i <= j

LEMMA PlaceType ==
  ASSUME NEW T, NEW c \in Seq(T)
  PROVE  Place(c) \in 0..Len(c)
  <1> DEFINE anchors == {i \in 1..Len(c) : c[i] = Anchor}
  <1>1. CASE anchors = {}
    BY <1>1 DEF Place
  <1>2. CASE anchors # {}
    <2>1. anchors \subseteq Nat
      OBVIOUS
    <2>2. \E i \in anchors : \A j \in anchors : i <= j
      BY <1>2, <2>1, LeastNumber
    <2>3. Place(c) \in anchors
      BY <1>2, <2>2 DEF Place
    <2> QED BY <2>3
  <1> QED BY <1>1, <1>2

\* The block of k, and nothing else, has been put between two lines of the cleaned text.
SplitAt(T, lines, k) ==
  \E a, b \in Seq(Unmanaged(T)) :
    /\ Updated(lines, k) = a \o NewBlock(k) \o b
    /\ a \o b = CleanedLines(lines)

\* However many managed blocks and single managed lines earlier or interrupted runs
\* have left in the file, the text that update_env_topology.py makes has the one new
\* block, and around it, in order, the lines that cleaning has kept.
THEOREM OneBlock ==
  ASSUME NEW T, NEW lines \in Seq(T), NEW k
  PROVE  SplitAt(T, lines, k)
  <1> DEFINE c == CleanedLines(lines)
             a == SubSeq(c, 1, Place(c))
             b == SubSeq(c, Place(c) + 1, Len(c))
  <1>1. c \in Seq(Unmanaged(T))
    BY CleanedType
  <1>2. Updated(lines, k) = a \o NewBlock(k) \o b
    BY DEF Updated, Place
  <1> HIDE DEF c
  <1>3. Place(c) \in 0..Len(c) /\ Len(c) \in Nat
    BY <1>1, PlaceType
  <1>4. a \in Seq(Unmanaged(T)) /\ b \in Seq(Unmanaged(T))
    BY <1>1, <1>3
  <1>5. a \o b = c
    <2>1. /\ 1 \in 1..(Len(c) + 1) /\ Place(c) \in (1 - 1)..Len(c)
          /\ Len(c) \in Place(c)..Len(c)
      BY <1>3
    <2>2. a \o b = SubSeq(c, 1, Len(c))
      BY <1>1, <2>1, ConcatAdjacentSubSeq
    <2> QED BY <1>1, <2>2, SubSeqFull
  <1> HIDE DEF a, b
  <1> QED BY <1>2, <1>4, <1>5 DEF c, SplitAt

\* A line of the file: one of its owner, or one of the block of ByHand.
Lines == [kind : {"user", "anchor", "begin", "variables", "end"}, of : Nat \X Nat \X Nat]
         \cup {NewBlock(ByHand)[i] : i \in 1..3}

\* The new text has lines, and at least the block.
LEMMA UpdatedType ==
  ASSUME NEW lines \in Seq(Lines)
  PROVE  Updated(lines, ByHand) \in Seq(Lines) /\ Updated(lines, ByHand) # <<>>
  <1>0. SplitAt(Lines, lines, ByHand)
    BY OneBlock
  <1>1. PICK a, b \in Seq(Unmanaged(Lines)) :
          Updated(lines, ByHand) = a \o NewBlock(ByHand) \o b
    BY <1>0 DEF SplitAt
  <1>2. Unmanaged(Lines) \subseteq Lines
    BY DEF Unmanaged
  <1>3. NewBlock(ByHand) \in Seq(Lines) /\ Len(NewBlock(ByHand)) = 3
    BY DEF NewBlock, Lines
  <1> HIDE DEF Lines
  <1>4. a \in Seq(Lines) /\ b \in Seq(Lines)
    BY <1>2
  <1>5. /\ a \o NewBlock(ByHand) \in Seq(Lines)
        /\ Len(a \o NewBlock(ByHand)) = Len(a) + Len(NewBlock(ByHand))
    BY <1>3, <1>4, ConcatProperties
  <1>6. /\ a \o NewBlock(ByHand) \o b \in Seq(Lines)
        /\ Len(a \o NewBlock(ByHand) \o b) = Len(a \o NewBlock(ByHand)) + Len(b)
    BY <1>4, <1>5, ConcatProperties
  <1>7. Len(a) \in Nat /\ Len(b) \in Nat
    BY <1>4
  <1>8. Len(Updated(lines, ByHand)) >= 3
    BY <1>1, <1>3, <1>5, <1>6, <1>7
  <1> QED BY <1>1, <1>6, <1>8

\* What the lists of get_results.py and of the script are made of.
LEMMA ListsType ==
  ASSUME NEW who, NEW list \in Lists(who)
  PROVE  list \in Seq(Configs)
  <1>1. CASE who = "scaling"
    BY <1>1, FiniteAssumption DEF Lists
  <1>2. CASE who = "missing"
    <2>1. IsFiniteSet(Searched) /\ Searched \subseteq Configs
      BY FiniteAssumption, FS_Subset DEF Configs
    <2>2. Cardinality(Searched) \in Nat
      BY <2>1, FS_CardinalityType
    <2>3. list \in [1..Cardinality(Searched) -> Searched]
      BY <1>2 DEF Lists, Sorted, SetToSeqs
    <2> QED BY <2>1, <2>2, <2>3
  <1>3. CASE who \notin {"scaling", "missing"}
    <2>1. list = <<ByHand>> /\ ByHand \in Configs
      BY <1>3 DEF Lists, Configs
    <2> QED BY <2>1
  <1> QED BY <1>1, <1>2, <1>3

\* All drivers work on lists of configurations, and the hosts write into the file
\* only within phase 5, each after it has made its text.
Written ==
  /\ todo \in Seq(Configs)
  /\ env \in Seq(Lines)
  /\ text \in [Mds -> Seq(Lines)]
  /\ at # "phase5" => \A m \in Mds : pc[m] = "idle"

\* The driver leaves the file alone, and its list is empty only when it has ended or
\* goes on to its next configuration.
LEMMA DriverTyped ==
  ASSUME TypeOK, Written, NEW ok \in BOOLEAN,
         \/ SweepClean \/ Visit \/ Make \/ Bootstrap(ok) \/ Deploy(ok) \/ Test(ok)
         \/ Report(ok) \/ Made(ok)
  PROVE  TypeOK' /\ Written'
  <1>1. UNCHANGED <<file, starts, by>> /\ at # "ended"
    BY DEF SweepClean, Visit, Make, Bootstrap, Deploy, Test, Report, Made, CleanPhase5, Go, End,
           Skip, MakeFails
  <1>2. \/ todo' = todo /\ todo # <<>>
           /\ at' \in {"bootstrap", "make", "backup", "phase5", "phase6", "phase7", "made"}
        \/ todo' = <<>> /\ at' = "ended"
        \/ todo' = Tail(todo) /\ todo # <<>> /\ at' = "visit"
    BY DEF SweepClean, Visit, Make, Bootstrap, Deploy, Test, Report, Made, CleanPhase5, Go, End,
           Skip, MakeFails, TypeOK
  <1>3. todo' \in Seq(Configs) /\ (at' \notin {"ended", "visit"} => todo' # <<>>)
        /\ at' \in {"ended", "visit", "bootstrap", "make", "backup", "phase5", "phase6",
                    "phase7", "made"}
    <2>1. todo \in Seq(Configs)
      BY DEF Written
    <2>2. <<>> \in Seq(Configs) /\ (todo # <<>> => Tail(todo) \in Seq(Configs))
      BY <2>1
    <2> QED BY <1>2, <2>1, <2>2
  <1>4. failed' \in {"yes", "no"}
    BY DEF SweepClean, Visit, Make, Bootstrap, Deploy, Test, Report, Made, Go, End,
           Skip, MakeFails, Noted, TypeOK
  <1>5. at' # "phase5" => \A m \in Mds : pc[m] = "idle"
    BY <1>1 DEF Written, AllIdle, SweepClean, Visit, Make, Bootstrap, Deploy, Test, Report, Made,
                Go, End, Skip, MakeFails
  <1>6. todo # <<>> => Config \in Configs
    BY DEF Written, Config
  <1>7. ASSUME NEW k \in Configs, CleanPhase5(k, ok)
        PROVE  /\ level' \in [Configs -> {0, 5, 6, 7}]
               /\ deployed' \in [Domains -> Configs \cup {NoConfig}]
               /\ UNCHANGED <<generated, scored, measured>>
    BY <1>7 DEF CleanPhase5, TypeOK
  <1>8. /\ level' \in [Configs -> {0, 5, 6, 7}]
        /\ deployed' \in [Domains -> Configs \cup {NoConfig}]
        /\ generated' \in Configs \cup {NoConfig}
        /\ scored' \subseteq Configs /\ measured' \subseteq Configs
    <2>1. CASE SweepClean
      <3>1. UNCHANGED lab \/ \E k \in Active, o \in BOOLEAN : CleanPhase5(k, o)
        BY <2>1 DEF SweepClean
      <3> QED BY <3>1 DEF CleanPhase5, Active, TypeOK, lab
    <2>2. CASE Visit \/ Make \/ Bootstrap(ok)
      BY <2>2 DEF Visit, Make, Bootstrap, TypeOK, lab
    <2>3. CASE Deploy(ok)
      <3>1. Config \in Configs
        BY <1>6, <2>3 DEF Deploy, TypeOK
      <3> QED BY <2>3, <3>1 DEF Deploy, Touched, TypeOK
    <2>4. CASE Test(ok) \/ Report(ok)
      <3>1. Config \in Configs
        BY <1>6, <2>4 DEF Test, Report, TypeOK
      <3> QED BY <2>4, <3>1 DEF Test, Report, Touched, TypeOK
    <2>5. CASE Made(ok)
      <3>1. Config \in Configs
        BY <1>6, <2>5 DEF Made, TypeOK
      <3>2. CleanPhase5(Config, ok) \/ UNCHANGED lab
        BY <2>5 DEF Made
      <3> QED BY <1>7, <3>1, <3>2 DEF TypeOK, lab
    <2> QED BY <2>1, <2>2, <2>3, <2>4, <2>5
  <1>9. TypeOK'
    BY <1>1, <1>3, <1>4, <1>8 DEF TypeOK, file
  <1>10. Written'
    BY <1>1, <1>3, <1>5 DEF Written, file
  <1> QED BY <1>9, <1>10

\* A host has a text exactly from reading the file until writing it.
LEMMA HostsTyped ==
  ASSUME TypeOK, Written, NEW m \in Mds, ReadEnv(m) \/ OpenEnv(m) \/ WriteEnv(m)
  PROVE  TypeOK' /\ Written'
  <1>1. at = "phase5" /\ UNCHANGED <<driver, lab, backup>>
    BY DEF ReadEnv, OpenEnv, WriteEnv, Written
  <1>2. /\ env' \in Seq(Lines)
        /\ text' \in [Mds -> Seq(Lines)]
        /\ pc' \in [Mds -> {"idle", "read", "open", "write"}]
        /\ \A h \in Mds : (pc'[h] \in {"open", "write"}) = (text'[h] # <<>>)
    <2>1. CASE ReadEnv(m)
      <3>1. Updated(env, ByHand) \in Seq(Lines) /\ Updated(env, ByHand) # <<>>
        BY UpdatedType DEF Written
      <3> QED BY <2>1, <3>1 DEF ReadEnv, TypeOK, Written
    <2>2. CASE OpenEnv(m)
      <3>1. <<>> \in Seq(Lines)
        OBVIOUS
      <3> QED BY <2>2, <3>1 DEF OpenEnv, TypeOK, Written
    <2>3. CASE WriteEnv(m)
      <3>1. Overwritten(env, text[m]) \in Seq(Lines) /\ <<>> \in Seq(Lines)
        <4>1. text[m] \in Seq(Lines) /\ env \in Seq(Lines)
          BY DEF Written
        <4>2. SubSeq(env, Len(text[m]) + 1, Len(env)) \in Seq(Lines)
          BY <4>1
        <4> QED BY <4>1, <4>2 DEF Overwritten
      <3> QED BY <2>3, <3>1 DEF WriteEnv, TypeOK, Written
    <2> QED BY <2>1, <2>2, <2>3
  <1> QED BY <1>1, <1>2 DEF TypeOK, Written, driver, lab

\* Every step of the drivers and of the hosts keeps both.
LEMMA TypedStep ==
  ASSUME TypeOK, Written, [Next]_vars
  PROVE  TypeOK' /\ Written'
  <1>1. CASE \E who \in {"scaling", "missing", "user"} : Start(who)
    <2>1. PICK who \in {"scaling", "missing", "user"} : Start(who)
      BY <1>1
    <2>2. todo' \in Seq(Configs)
      BY <2>1, ListsType DEF Start
    <2>3. starts' \in 0..MaxStarts
      BY <2>1, SweepAssumption DEF Start, TypeOK
    <2>4. at' = "visit" /\ by' = who /\ failed' = "no" /\ measured' = {} /\ at = "ended"
          /\ UNCHANGED <<level, deployed, generated, scored, file>>
      BY <2>1 DEF Start
    <2> QED BY <2>2, <2>3, <2>4 DEF TypeOK, Written, file
  <1>2. CASE Backup
    <2>1. /\ at = "backup" /\ at' = "phase5" /\ pc' = [m \in Mds |-> "read"]
          /\ UNCHANGED <<by, todo, failed, starts, lab, env, text>>
          /\ backup' = Backups(backup, IF Whole(env) THEN "whole" ELSE "damaged")
      BY <1>2 DEF Backup, Go
    <2>2. \A m \in Mds : text[m] = <<>>
      BY <2>1 DEF TypeOK, Written
    <2>3. backup' \in {"none", "damaged", "whole"}
      BY <2>1 DEF Backups, TypeOK
    <2> QED BY <2>1, <2>2, <2>3 DEF TypeOK, Written, lab
  <1>3. CASE Interrupt
    <2>1. /\ at' = "ended" /\ todo' = <<>> /\ failed' = "yes" /\ UNCHANGED <<by, starts>>
          /\ pc' = [m \in Mds |-> "idle"] /\ text' = [m \in Mds |-> <<>>]
          /\ UNCHANGED <<level, generated, scored, measured, env, backup>>
          /\ deployed' \in [Domains -> Configs \cup {NoConfig}]
      BY <1>3 DEF Interrupt, End, TypeOK
    <2>2. <<>> \in Seq(Lines) /\ <<>> \in Seq(Configs)
      OBVIOUS
    <2> QED BY <2>1, <2>2 DEF TypeOK, Written
  <1>4. CASE \/ SweepClean \/ Visit \/ Make
             \/ \E ok \in BOOLEAN :
                  Bootstrap(ok) \/ Deploy(ok) \/ Test(ok) \/ Report(ok) \/ Made(ok)
    BY <1>4, DriverTyped
  <1>5. CASE \E m \in Mds : ReadEnv(m) \/ OpenEnv(m) \/ WriteEnv(m)
    BY <1>5, HostsTyped
  <1>6. CASE UNCHANGED vars
    BY <1>6 DEF TypeOK, Written, vars, driver, lab, file
  <1> QED BY <1>1, <1>2, <1>3, <1>4, <1>5, <1>6 DEF Next

\* Type correctness for any lists, hosts and file: a driver within a configuration has
\* one left, and a host has a text to write exactly when it is about to write
\* (update_env_topology.py).
THEOREM AlwaysTyped == Spec => []TypeOK
  <1>1. Init => TypeOK /\ Written
    <2> SUFFICES ASSUME Init PROVE TypeOK /\ Written
      OBVIOUS
    <2>1. UserFile \in Seq(Lines)
      <3> DEFINE T == [kind : {"user", "anchor", "begin", "variables", "end"},
                       of : Nat \X Nat \X Nat]
      <3>1. UserFile \in Seq(T) /\ T \subseteq Lines
        BY FileAssumption DEF Lines
      <3> HIDE DEF T, Lines
      <3> QED BY <3>1
    <2>2. <<>> \in Seq(Lines) /\ <<>> \in Seq(Configs)
      OBVIOUS
    <2>3. 0 \in 0..MaxStarts
      BY SweepAssumption
    <2> QED BY <2>1, <2>2, <2>3 DEF Init, TypeOK, Written
  <1>2. TypeOK /\ Written /\ [Next]_vars => (TypeOK /\ Written)'
    BY TypedStep
  <1> QED BY <1>1, <1>2, PTL DEF Spec

-----------------------------------------------------------------------------
(* The inventories that create_config_inventory.py generates.              *)

\* Counting in rows of n: a row and a place in it are one number.
LEMMA RowAndPlace ==
  ASSUME NEW n \in Nat, NEW k \in Nat, NEW l \in Nat, NEW a \in Nat, NEW b \in Nat,
         a < n, b < n, k * n + a = l * n + b
  PROVE  k = l /\ a = b
  <1>1. ASSUME NEW p \in Nat, NEW q \in Nat, NEW x \in Nat, NEW y \in Nat, x < n, y < n,
               p < q
        PROVE  p * n + x # q * n + y
    <2>1. PICK d \in Nat : q = p + 1 + d
      <3>1. q - p - 1 \in Nat /\ q = p + 1 + (q - p - 1)
        BY <1>1
      <3> QED BY <3>1
    <2>2. q * n = p * n + n + d * n /\ d * n >= 0 /\ p * n \in Nat /\ d * n \in Nat
      BY <2>1
    <2> QED BY <1>1, <2>2
  <1>2. ~ k < l /\ ~ l < k
    BY <1>1
  <1>3. k = l
    BY <1>2
  <1>4. k * n \in Nat
    OBVIOUS
  <1> QED BY <1>3, <1>4

\* Addresses that count the VMs of m hosts with n VMs each.
LEMMA AddressesDiffer ==
  ASSUME NEW m \in Nat, NEW n \in Nat, NEW start \in Nat
  PROVE  \A k, l \in 1..m : \A i, j \in 1..n :
           start + (k - 1) * n + (i - 1) = start + (l - 1) * n + (j - 1) => k = l /\ i = j
  <1> SUFFICES ASSUME NEW k \in 1..m, NEW l \in 1..m, NEW i \in 1..n, NEW j \in 1..n,
                      start + (k - 1) * n + (i - 1) = start + (l - 1) * n + (j - 1)
               PROVE  k = l /\ i = j
    OBVIOUS
  <1>1. k - 1 \in Nat /\ l - 1 \in Nat /\ i - 1 \in Nat /\ j - 1 \in Nat /\ i - 1 < n /\ j - 1 < n
    OBVIOUS
  <1>2. (k - 1) * n \in Nat /\ (l - 1) * n \in Nat
    BY <1>1
  <1>3. (k - 1) * n + (i - 1) = (l - 1) * n + (j - 1)
    BY <1>1, <1>2
  <1>4. k - 1 = l - 1 /\ i - 1 = j - 1
    BY <1>1, <1>3, RowAndPlace
  <1> QED BY <1>4

\* The VMs of two places of an inventory: no name and no address is given twice.
VmsDiffer(inventory) ==
  \A k, l \in 1..Len(inventory) :
    \A i \in 1..Len(inventory[k].vms), j \in 1..Len(inventory[l].vms) :
      <<k, i>> # <<l, j>> =>
        /\ inventory[k].vms[i].name # inventory[l].vms[j].name
        /\ inventory[k].vms[i].ip # inventory[l].vms[j].ip

\* Uniform mode: for any hosts, count and start.
LEMMA UniformDiffer ==
  ASSUME NEW P, NEW hosts \in Seq(P), NEW n \in Nat, NEW group, NEW start \in Nat
  PROVE  VmsDiffer(UniformVms(hosts, n, group, start))
  <1> DEFINE inventory == UniformVms(hosts, n, group, start)
             ip(k, j) == start + (k - 1) * n + (j - 1)
  <1>0. Len(hosts) \in Nat
    OBVIOUS
  <1>1. /\ Len(inventory) = Len(hosts)
        /\ \A k \in 1..Len(hosts) :
             /\ Len(inventory[k].vms) = n
             /\ \A j \in 1..n : /\ inventory[k].vms[j].name = <<"n", ip(k, j)>>
                                /\ inventory[k].vms[j].ip = ip(k, j) + 1
    BY <1>0 DEF UniformVms
  <1> HIDE DEF inventory
  <1>2. \A k, l \in 1..Len(hosts) : \A i, j \in 1..n : ip(k, i) = ip(l, j) => k = l /\ i = j
    <2> DEFINE m == Len(hosts)
    <2>1. m \in Nat
      BY <1>0
    <2> HIDE DEF m
    <2>2. \A k, l \in 1..m : \A i, j \in 1..n :
            start + (k - 1) * n + (i - 1) = start + (l - 1) * n + (j - 1) => k = l /\ i = j
      BY <2>1, AddressesDiffer
    <2> QED BY <2>2 DEF m
  <1>3. \A k \in 1..Len(hosts), i \in 1..n : ip(k, i) \in Nat
    <2> SUFFICES ASSUME NEW k \in 1..Len(hosts), NEW i \in 1..n PROVE ip(k, i) \in Nat
      OBVIOUS
    <2>1. k - 1 \in Nat /\ i - 1 \in Nat
      BY <1>0
    <2>2. (k - 1) * n \in Nat
      BY <2>1
    <2> QED BY <2>1, <2>2
  <1> HIDE DEF ip
  <1>4. ASSUME NEW k \in 1..Len(hosts), NEW l \in 1..Len(hosts), NEW i \in 1..n, NEW j \in 1..n,
               <<k, i>> # <<l, j>>
        PROVE  /\ inventory[k].vms[i].name # inventory[l].vms[j].name
               /\ inventory[k].vms[i].ip # inventory[l].vms[j].ip
    <2>1. ip(k, i) # ip(l, j) /\ ip(k, i) \in Nat /\ ip(l, j) \in Nat
      BY <1>2, <1>3, <1>4
    <2> QED BY <1>1, <2>1
  <1>5. VmsDiffer(inventory)
    BY <1>1, <1>4 DEF VmsDiffer
  <1> QED BY <1>5 DEF inventory

\* Mixed mode: for any layout, in which a role may have several entries.
LEMMA MixedDiffer ==
  ASSUME NEW P, NEW hosts \in Seq(P), NEW L, NEW layout \in Seq(L), NEW start \in Nat
  PROVE  VmsDiffer(MixedVms(hosts, layout, start))
  <1>a. PICK n \in Nat : n = Len(layout)
    OBVIOUS
  <1> DEFINE inventory == MixedVms(hosts, layout, start)
             ofRole(role, m) == {i \in 1..m : layout[i].role = role}
             all(j) == Cardinality(ofRole(layout[j].role, n))
             before(j) == Cardinality(ofRole(layout[j].role, j - 1))
             number(k, j) == (k - 1) * all(j) + before(j)
             ip(k, j) == start + (k - 1) * n + (j - 1)
  <1>0. Len(hosts) \in Nat
    OBVIOUS
  <1>1. /\ Len(inventory) = Len(hosts)
        /\ \A k \in 1..Len(hosts) :
             /\ Len(inventory[k].vms) = n
             /\ \A j \in 1..n : /\ inventory[k].vms[j].name = <<layout[j].role, number(k, j)>>
                                /\ inventory[k].vms[j].ip = ip(k, j)
    <2>1. inventory = [k \in 1..Len(hosts) |->
            [host |-> hosts[k],
             vms |-> [j \in 1..n |->
                        [name |-> <<layout[j].role, number(k, j)>>, group |-> layout[j].group,
                         disks |-> layout[j].disks, ip |-> ip(k, j)]]]]
      BY Zenon, <1>a DEF MixedVms
    <2> HIDE DEF inventory, number, ip
    <2> QED BY <1>0, <2>1
  <1> HIDE DEF inventory
  <1>2. \A k, l \in 1..Len(hosts) : \A i, j \in 1..n : ip(k, i) = ip(l, j) => k = l /\ i = j
    <2> DEFINE m == Len(hosts)
    <2>1. m \in Nat
      BY <1>0
    <2> HIDE DEF m
    <2>2. \A k, l \in 1..m : \A i, j \in 1..n :
            start + (k - 1) * n + (i - 1) = start + (l - 1) * n + (j - 1) => k = l /\ i = j
      BY <2>1, AddressesDiffer
    <2> QED BY <2>2 DEF m
  <1>3. \A role : \A m \in 0..n : /\ IsFiniteSet(ofRole(role, m))
                                  /\ Cardinality(ofRole(role, m)) \in Nat
    <2> SUFFICES ASSUME NEW role, NEW m \in 0..n
                 PROVE  IsFiniteSet(ofRole(role, m)) /\ Cardinality(ofRole(role, m)) \in Nat
      OBVIOUS
    <2>1. IsFiniteSet(1..m) /\ ofRole(role, m) \subseteq 1..m
      <3>1. m \in Int
        OBVIOUS
      <3>2. IsFiniteSet(1..m)
        BY <3>1, FS_Interval
      <3> QED BY <3>2
    <2>2. IsFiniteSet(ofRole(role, m))
      BY <2>1, FS_Subset
    <2> QED BY <2>2, FS_CardinalityType
  <1> HIDE DEF ofRole
  \* an entry adds to the counter of its role
  <1>4. ASSUME NEW i \in 1..n, NEW m \in i..n
        PROVE  Cardinality(ofRole(layout[i].role, i - 1)) < Cardinality(ofRole(layout[i].role, m))
    <2> DEFINE s == ofRole(layout[i].role, i - 1)
               t == ofRole(layout[i].role, m)
    <2>0. i - 1 \in 0..n /\ m \in 0..n
      BY <1>0
    <2>1. i \in t /\ i \notin s /\ s \subseteq t
      BY <1>0 DEF ofRole
    <2>2. IsFiniteSet(t) /\ Cardinality(t) \in Nat /\ Cardinality(s) \in Nat
      BY <1>3, <2>0
    <2> HIDE DEF s, t
    <2>3. Cardinality(s) <= Cardinality(t) /\ (Cardinality(s) = Cardinality(t) => s = t)
      BY <2>1, <2>2, FS_Subset
    <2>4. Cardinality(s) < Cardinality(t)
      BY <2>1, <2>2, <2>3
    <2> QED BY <2>4 DEF s, t
  <1>5. ASSUME NEW k \in 1..Len(hosts), NEW l \in 1..Len(hosts), NEW i \in 1..n, NEW j \in 1..n,
               layout[i].role = layout[j].role, number(k, i) = number(l, j)
        PROVE  k = l /\ i = j
    <2>1. k - 1 \in Nat /\ l - 1 \in Nat
      BY <1>0
    <2>2. all(i) = all(j) /\ all(i) \in Nat /\ before(i) \in Nat /\ before(j) \in Nat
      BY <1>0, <1>3, <1>5
    <2>3. before(i) < all(i) /\ before(j) < all(j)
      BY <1>0, <1>4
    <2>4. i < j => before(i) < before(j)
      BY <1>0, <1>4, <1>5
    <2>5. j < i => before(j) < before(i)
      BY <1>0, <1>4, <1>5
    <2>6. (k - 1) * all(i) + before(i) = (l - 1) * all(i) + before(j)
      BY <1>5, <2>2
    <2> HIDE DEF all, before
    <2>7. \A p, q \in Nat : p * all(i) + before(i) = q * all(i) + before(j) =>
                            p = q /\ before(i) = before(j)
      BY <2>2, <2>3, RowAndPlace
    <2>8. k - 1 = l - 1 /\ before(i) = before(j)
      BY <2>1, <2>6, <2>7
    <2>9. k = l /\ ~ i < j /\ ~ j < i
      BY <1>0, <2>1, <2>2, <2>4, <2>5, <2>8
    <2> QED BY <1>0, <2>9
  <1> HIDE DEF ip, number
  <1>6. ASSUME NEW k \in 1..Len(hosts), NEW l \in 1..Len(hosts), NEW i \in 1..n, NEW j \in 1..n,
               <<k, i>> # <<l, j>>
        PROVE  /\ inventory[k].vms[i].name # inventory[l].vms[j].name
               /\ inventory[k].vms[i].ip # inventory[l].vms[j].ip
    <2>1. ip(k, i) # ip(l, j)
      BY <1>2, <1>6
    <2>2. layout[i].role = layout[j].role => number(k, i) # number(l, j)
      BY <1>5, <1>6
    <2> QED BY <1>1, <2>1, <2>2
  <1>7. VmsDiffer(inventory)
    BY <1>1, <1>6 DEF VmsDiffer
  <1> QED BY <1>7 DEF inventory

\* The hosts of an expression: those of a range, none if it is empty, or the one named.
LEMMA ExpandedHosts ==
  ASSUME NEW P, NEW expr \in (P \X Nat) \cup (P \X Nat \X Nat)
  PROVE  ExpandHosts(expr) \in Seq(P \X Nat)
  <1>1. CASE expr \in P \X Nat
    <2>1. Len(expr) = 2
      BY <1>1
    <2>2. ExpandHosts(expr) = <<expr>>
      BY <2>1 DEF ExpandHosts
    <2> QED BY <1>1, <2>2
  <1>2. CASE expr \in P \X Nat \X Nat
    <2>1. Len(expr) = 3 /\ expr[1] \in P /\ expr[2] \in Nat /\ expr[3] \in Nat
      BY <1>2
    <2> DEFINE n == expr[3] - expr[2] + 1
               f == [k \in 1..n |-> <<expr[1], expr[2] + k - 1>>]
    <2>2. ExpandHosts(expr) = f
      BY <2>1 DEF ExpandHosts
    <2>3. \A k \in 1..n : <<expr[1], expr[2] + k - 1>> \in P \X Nat
      BY <2>1
    <2>4. CASE n \in Nat
      BY <2>2, <2>3, <2>4
    <2>5. CASE n \notin Nat
      <3>1. 1..n = {}
        BY <2>1, <2>5
      <3> HIDE DEF n
      <3>2. f = << >>
        BY <3>1
      <3>3. << >> \in Seq(P \X Nat)
        OBVIOUS
      <3> HIDE DEF f
      <3> QED BY <2>2, <3>2, <3>3
    <2> QED BY <2>4, <2>5
  <1> QED BY <1>1, <1>2

\* Whatever hosts, counts and layouts are asked for, create_config_inventory.py
\* gives no two VMs of one inventory the same name or the same address.
THEOREM GeneratedDiffer ==
  ASSUME NEW args, NEW P, args.hosts \in (P \X Nat) \cup (P \X Nat \X Nat),
         args.count \in Nat, args.start \in Nat, NEW L, args.layout \in Seq(L)
  PROVE  VmsDiffer(Generate(args))
  <1> DEFINE hosts == ExpandHosts(args.hosts)
  <1>1. hosts \in Seq(P \X Nat)
    BY ExpandedHosts
  <1> HIDE DEF hosts
  <1>2. VmsDiffer(<<>>)
    BY DEF VmsDiffer
  <1>3. VmsDiffer(UniformVms(hosts, args.count, args.group, args.start))
    BY <1>1, UniformDiffer
  <1>4. VmsDiffer(MixedVms(hosts, args.layout, args.start))
    BY <1>1, MixedDiffer
  <1> QED BY <1>2, <1>3, <1>4 DEF Generate, hosts
=============================================================================

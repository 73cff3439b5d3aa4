---------------------------- MODULE WorkflowProofs ----------------------------
(***************************************************************************)
(* Proofs about Workflow, for any number of phases, configurations and     *)
(* writes: its status files always form a prefix of the phases and refine  *)
(* PhaseChain, a successful make leaves nothing built on something since   *)
(* replaced, a status file that make trusts is true unless a clean command *)
(* stopped part-way, and an outdated Makefile is never started unforced.   *)
(***************************************************************************)
EXTENDS Workflow, SequenceTheorems, TLAPS

\* The running make: it has a goal; while a recipe runs nothing is in place.
RunInv ==
    /\ pc # "idle" =>
        /\ goals # << >>
        /\ made = -1
        /\ Head(goals).op = "create" => at >= 0
        /\ Head(goals).op = "clean" => at <= Last
    /\ pc = "recipe" =>
        /\ Head(goals).op = "create"
        /\ at \in Phase
        /\ by[at] = who
        /\ gen[at] = 0

\* What the walk over the phases has established so far.
WalkInv ==
    /\ pc # "idle" /\ Head(goals).op = "create" =>
        /\ \A j \in Phase : j < at => status[who][j] # 0
        /\ \A k \in Phase \ {0} : k < at => status[who][k-1] <= status[who][k]
    /\ pc # "idle" /\ Head(goals).op = "clean" =>
        \A j \in Phase : j > at => status[who][j] = 0
    /\ \A k \in 1 .. made : status[who][k-1] <= status[who][k]

\* No file is newer than the clock.
ClockInv ==
    /\ inv <= clock
    /\ \A c \in Configs : boot[c] <= clock
    /\ \A c \in Configs, k \in Phase : status[c][k] <= clock
    /\ \A k \in Phase : src[k] <= clock /\ gen[k] <= clock

\* If phase k was not created on what phase k-1 now is, phase k-1 is newer.
NewerInv ==
    \A k \in Phase \ {0} :
        gen[k] # 0 /\ gen[k-1] # 0 /\ on[k] # gen[k-1] => gen[k-1] > gen[k]

\* A Makefile newer than the inventory is the one of its present content.
BootInv == \A c \in Configs : boot[c] > inv => c = current

IInv ==
    /\ TypeOK
    /\ RunInv
    /\ StatusPrefix
    /\ WalkInv
    /\ ClockInv
    /\ NewerInv
    /\ SoundStatus
    /\ BootInv

-------------------------------------------------------------------------------
\* Every command line is a nonempty sequence of goals.
LEMMA CommandType ==
    ASSUME NEW cmd \in Commands
    PROVE  /\ cmd \in Seq(Goal)
           /\ cmd # << >>
           /\ Head(cmd) \in Goal
  <1>1. CASE \E g \in Goal : cmd = <<g>>
    BY <1>1
  <1>2. CASE \E n, m \in Phase :
                cmd = <<[op |-> "clean", phase |-> n], [op |-> "create", phase |-> m]>>
    <2>1. PICK n \in Phase, m \in Phase :
                cmd = <<[op |-> "clean", phase |-> n], [op |-> "create", phase |-> m]>>
      BY <1>2
    <2>2. [op |-> "clean", phase |-> n] \in Goal /\ [op |-> "create", phase |-> m] \in Goal
      BY DEF Goal
    <2>3. QED
      BY <2>1, <2>2
  <1>3. QED
    BY <1>1, <1>2 DEF Commands

\* Membership in Phase and Goal without expanding either inside larger types.
LEMMA PhaseIs == \A k : k \in Phase <=> k \in Int /\ 0 <= k /\ k <= Last
  BY WorkflowAssumption DEF Phase

LEMMA GoalIs == \A g \in Goal : g.op \in {"create", "clean"} /\ g.phase \in Phase
  BY DEF Goal

\* While a make runs it has a goal to pursue, and at is the phase it looks at.
LEMMA HeadGoal ==
    ASSUME TypeOK, RunInv, pc # "idle"
    PROVE  /\ goals \in Seq(Goal)
           /\ goals # << >>
           /\ Head(goals) \in Goal
           /\ Head(goals).op \in {"create", "clean"}
           /\ Head(goals).phase \in Phase
           /\ pc = "goal" /\ ~Reached(Head(goals), at) => at \in Phase
           /\ pc = "recipe" => at \in Phase
  <1>1. goals \in Seq(Goal) /\ goals # << >>
    BY DEF TypeOK, RunInv
  <1>2. Head(goals) \in Goal
    BY <1>1
  <1>3. Head(goals).op \in {"create", "clean"} /\ Head(goals).phase \in Phase
    BY <1>2, GoalIs
  <1>4. pc = "goal" /\ ~Reached(Head(goals), at) => at \in Phase
    <2>1. at \in Int /\ Last \in Int
      BY WorkflowAssumption DEF TypeOK
    <2>2. pc = "goal" => (Head(goals).op = "create" => at >= 0)
                      /\ (Head(goals).op = "clean" => at <= Last)
      BY DEF RunInv
    <2>3. QED
      BY <1>3, <2>1, <2>2, PhaseIs DEF Reached
  <1>5. pc = "recipe" => at \in Phase
    BY DEF RunInv
  <1>6. QED
    BY <1>1, <1>2, <1>3, <1>4, <1>5

\* Typing, with the part of the run it depends on.
LEMMA TypeInit == Init => TypeOK /\ RunInv
  BY WorkflowAssumption DEF Init, TypeOK, RunInv, Phase

LEMMA TypeStep == TypeOK /\ RunInv /\ [Next]_vars => TypeOK' /\ RunInv'
  <1> SUFFICES ASSUME TypeOK, RunInv, [Next]_vars
               PROVE  TypeOK' /\ RunInv'
    OBVIOUS
  <1> USE WorkflowAssumption
  <1>1. ASSUME NEW c \in Configs, EditInventory(c) PROVE TypeOK' /\ RunInv'
    BY <1>1 DEF EditInventory, Tick, TypeOK, RunInv, infra, run
  <1>2. CASE Bootstrap
    BY <1>2 DEF Bootstrap, Tick, TypeOK, RunInv, infra, run
  <1>3. ASSUME NEW k \in Phase, EditSource(k) PROVE TypeOK' /\ RunInv'
    <2>1. TypeOK'
      <3>1. clock' \in Nat /\ src' \in [Phase -> Nat]
        BY <1>3 DEF EditSource, Tick, TypeOK
      <3>2. read' \subseteq Phase /\ late' \subseteq Phase
        BY <1>3 DEF EditSource, TypeOK
      <3>3. QED
        BY <1>3, <3>1, <3>2 DEF EditSource, TypeOK
    <2>2. RunInv'
      BY <1>3 DEF EditSource, RunInv
    <2>3. QED
      BY <2>1, <2>2
  <1>4. ASSUME NEW c \in Configs, NEW cmd \in Commands, NEW force \in {0, 1},
               StartMake(c, cmd, force)
        PROVE  TypeOK' /\ RunInv'
    <2>1. cmd \in Seq(Goal) /\ cmd # << >> /\ FirstPhase(Head(cmd)) \in Phase
      BY CommandType, PhaseIs DEF FirstPhase
    <2>0. at' \in -1 .. Last + 1
      BY <1>4, <2>1, PhaseIs DEF StartMake
    <2>2. TypeOK'
      <3>1. UNCHANGED <<clock, current, inv, boot, status, src, gen, on, by, read, cut>>
        BY <1>4 DEF StartMake, files, infra
      <3>2. /\ pc' = "goal" /\ who' \in Configs /\ forced' \in {0, 1}
            /\ goals' \in Seq(Goal) /\ late' = {} /\ made' = -1
        BY <1>4, <2>1 DEF StartMake
      <3>3. -1 \in -1 .. Last
        OBVIOUS
      <3>4. QED
        BY <2>0, <3>1, <3>2, <3>3 DEF TypeOK
    <2>3. RunInv'
      BY <1>4, <2>1, PhaseIs DEF StartMake, RunInv
    <2>4. QED
      BY <2>2, <2>3
  <1>5. CASE SkipPhase
    <2>1. at \in Phase
      BY <1>5, HeadGoal DEF SkipPhase, Pursuing
    <2>0. at' \in -1 .. Last + 1
      BY <1>5, <2>1, PhaseIs DEF SkipPhase
    <2>2. TypeOK'
      BY <1>5, <2>0 DEF SkipPhase, TypeOK, files, infra
    <2>3. RunInv'
      BY <1>5, <2>1, PhaseIs DEF SkipPhase, Pursuing, RunInv
    <2>4. QED
      BY <2>2, <2>3
  <1>6. CASE StartRecipe
    <2>1. at \in Phase
      BY <1>6, HeadGoal DEF StartRecipe, Pursuing
    <2>2. TypeOK'
      BY <1>6, <2>1, PhaseIs DEF StartRecipe, Vacate, TypeOK, files
    <2>3. RunInv'
      BY <1>6, <2>1, PhaseIs DEF StartRecipe, Pursuing, Vacate, RunInv, TypeOK
    <2>4. QED
      BY <2>2, <2>3
  <1>7. CASE FinishRecipe
    <2>1. at \in Phase
      BY <1>7 DEF FinishRecipe, RunInv
    <2>2. clock' \in Nat
      BY <1>7 DEF FinishRecipe, Tick, TypeOK
    <2>3. status' \in [Configs -> [Phase -> Nat]] /\ gen' \in [Phase -> Nat]
      BY <1>7, <2>2 DEF FinishRecipe, TypeOK
    <2>4. on' \in [Phase -> Nat]
      <3>0. at > 0 => at-1 \in Phase
        BY <2>1, PhaseIs
      <3>1. at > 0 => gen[at-1] \in Nat
        BY <3>0 DEF TypeOK
      <3>2. (IF at > 0 THEN gen[at-1] ELSE 0) \in Nat
        BY <3>1
      <3>3. QED
        BY <1>7, <3>2 DEF FinishRecipe, TypeOK
    <2>5. at' \in -1 .. Last + 1
      BY <1>7, <2>1, PhaseIs DEF FinishRecipe
    <2>6. TypeOK'
      BY <1>7, <2>2, <2>3, <2>4, <2>5 DEF FinishRecipe, TypeOK
    <2>7. RunInv'
      BY <1>7, <2>1, PhaseIs DEF FinishRecipe, RunInv
    <2>8. QED
      BY <2>6, <2>7
  <1>8. CASE FailRecipe
    BY <1>8 DEF FailRecipe, Stop, TypeOK, RunInv, files, infra
  <1>9. CASE CleanPhase
    <2>1. at \in Phase
      BY <1>9, HeadGoal DEF CleanPhase, Pursuing
    <2>2. at' \in -1 .. Last + 1
      BY <1>9, <2>1, PhaseIs DEF CleanPhase
    <2>3. /\ gen' \in [Phase -> Nat]
          /\ on' \in [Phase -> Nat]
          /\ by' \in [Phase -> Configs]
          /\ cut' \subseteq Phase
      <3>1. CASE at \in CleanPhases
        <4>1. Vacate(at) /\ cut' = cut \ {at}
          BY <1>9, <3>1 DEF CleanPhase
        <4>2. QED
          BY <4>1 DEF Vacate, TypeOK
      <3>2. CASE at \notin CleanPhases
        BY <1>9, <3>2 DEF CleanPhase, TypeOK
      <3>3. QED
        BY <3>1, <3>2
    <2>6. TypeOK'
      BY <1>9, <2>2, <2>3 DEF CleanPhase, TypeOK
    <2>4. RunInv'
      BY <1>9, <2>1, PhaseIs DEF CleanPhase, Pursuing, RunInv
    <2>5. QED
      BY <2>4, <2>6
  <1>10. CASE FailClean
    <2>1. at \in Phase
      BY <1>10, HeadGoal DEF FailClean, Pursuing
    <2>2. QED
      BY <1>10, <2>1 DEF FailClean, Stop, Vacate, TypeOK, RunInv, files
  <1>11. CASE Interrupt
    BY <1>11 DEF Interrupt, Stop, TypeOK, RunInv, files, infra
  <1>12. CASE NextGoal
    <2>1. goals \in Seq(Goal) /\ Len(goals) > 1
      BY <1>12, HeadGoal DEF NextGoal
    <2>2. Tail(goals) \in Seq(Goal) /\ Tail(goals) # << >> /\ goals[2] \in Goal
      <3>1. goals # << >>
        BY <2>1
      <3>2. Tail(goals) \in Seq(Goal) /\ Len(Tail(goals)) = Len(goals)-1
        BY <2>1, <3>1, HeadTailProperties
      <3>3. Tail(goals) # << >>
        BY <2>1, <3>2, LenProperties, EmptySeq
      <3>4. goals[2] \in Goal
        BY <2>1
      <3>5. QED
        BY <3>2, <3>3, <3>4
    <2>3. goals[2] = Head(Tail(goals)) /\ FirstPhase(goals[2]) \in Phase
      BY <2>1, <2>2, GoalIs, PhaseIs DEF FirstPhase
    <2>0. at' \in -1 .. Last + 1
      BY <1>12, <2>3, PhaseIs DEF NextGoal
    <2>4. TypeOK'
      BY <1>12, <2>0, <2>2 DEF NextGoal, TypeOK, files, infra
    <2>5. RunInv'
      BY <1>12, <2>2, <2>3, PhaseIs DEF NextGoal, RunInv
    <2>6. QED
      BY <2>4, <2>5
  <1>13. CASE FinishMake
    <2>1. Head(goals).phase \in Phase
      BY <1>13, HeadGoal DEF FinishMake
    <2>2. made' \in -1 .. Last /\ at' \in -1 .. Last + 1
      BY <1>13, <2>1, PhaseIs DEF FinishMake, Stop
    <2>3. QED
      BY <1>13, <2>2 DEF FinishMake, Stop, TypeOK, RunInv, files, infra
  <1>14. CASE UNCHANGED vars
    BY <1>14 DEF vars, files, infra, run, TypeOK, RunInv
  <1>15. QED
    BY <1>1, <1>2, <1>3, <1>4, <1>5, <1>6, <1>7, <1>8, <1>9, <1>10, <1>11, <1>12,
       <1>13, <1>14 DEF Next, MakeStep

\* The clock bounds every file: only the clock's own value is ever written.
LEMMA ClockStep ==
    ASSUME TypeOK, ClockInv, [Next]_vars
    PROVE  ClockInv'
  <1> USE DEF ClockInv
  <1>0. clock \in Nat /\ boot \in [Configs -> Nat] /\ status \in [Configs -> [Phase -> Nat]]
        /\ src \in [Phase -> Nat] /\ gen \in [Phase -> Nat] /\ inv \in Nat
    BY DEF TypeOK
  <1>1. ASSUME NEW c \in Configs, EditInventory(c) PROVE ClockInv'
    BY <1>0, <1>1 DEF EditInventory, Tick, infra
  <1>2. CASE Bootstrap
    BY <1>0, <1>2 DEF Bootstrap, Tick, infra
  <1>3. ASSUME NEW k \in Phase, EditSource(k) PROVE ClockInv'
    BY <1>0, <1>3 DEF EditSource, Tick
  <1>4. ASSUME NEW c \in Configs, NEW cmd \in Commands, NEW force \in {0, 1},
               StartMake(c, cmd, force)
        PROVE  ClockInv'
    BY <1>4 DEF StartMake, files, infra
  <1>5. CASE SkipPhase
    BY <1>5 DEF SkipPhase, files, infra
  <1>6. CASE StartRecipe
    BY <1>0, <1>6 DEF StartRecipe, Vacate, files
  <1>7. CASE FinishRecipe
    <2>1. clock' \in Nat /\ clock < clock'
      BY <1>0, <1>7 DEF FinishRecipe, Tick
    <2>2. \A c \in Configs, k \in Phase : status'[c][k] <= clock'
      BY <1>0, <1>7, <2>1 DEF FinishRecipe
    <2>3. \A k \in Phase : src'[k] <= clock' /\ gen'[k] <= clock'
      BY <1>0, <1>7, <2>1 DEF FinishRecipe
    <2>4. QED
      BY <1>0, <1>7, <2>1, <2>2, <2>3 DEF FinishRecipe
  <1>8. CASE FailRecipe
    BY <1>8 DEF FailRecipe, files, infra
  <1>9. CASE CleanPhase
    <2>1. \A c \in Configs, k \in Phase : status'[c][k] <= clock
      BY <1>0, <1>9 DEF CleanPhase
    <2>2. \A k \in Phase : gen'[k] <= clock
      BY <1>0, <1>9 DEF CleanPhase, Vacate
    <2>3. QED
      BY <1>9, <2>1, <2>2 DEF CleanPhase
  <1>10. CASE FailClean
    BY <1>0, <1>10 DEF FailClean, Vacate, files
  <1>11. CASE Interrupt
    BY <1>11 DEF Interrupt, files, infra
  <1>12. CASE NextGoal
    BY <1>12 DEF NextGoal, files, infra
  <1>13. CASE FinishMake
    BY <1>13 DEF FinishMake, files, infra
  <1>14. CASE UNCHANGED vars
    BY <1>14 DEF vars, files, infra
  <1>15. QED
    BY <1>1, <1>2, <1>3, <1>4, <1>5, <1>6, <1>7, <1>8, <1>9, <1>10, <1>11, <1>12,
       <1>13, <1>14 DEF Next, MakeStep

\* A Makefile newer than the inventory belongs to its present content: an edit
\* makes every Makefile outdated, and bootstrap.sh renders only the present one.
LEMMA BootStep ==
    ASSUME TypeOK, ClockInv, BootInv, [Next]_vars
    PROVE  BootInv'
  <1> USE DEF BootInv
  <1>0. clock \in Nat /\ boot \in [Configs -> Nat] /\ inv \in Nat
    BY DEF TypeOK
  <1>1. ASSUME NEW c \in Configs, EditInventory(c) PROVE BootInv'
    BY <1>0, <1>1 DEF EditInventory, Tick, ClockInv
  <1>2. CASE Bootstrap
    BY <1>0, <1>2 DEF Bootstrap, Tick
  <1>3. ASSUME UNCHANGED <<boot, inv, current>> PROVE BootInv'
    BY <1>3
  <1>4. ASSUME NEW k \in Phase, EditSource(k) PROVE BootInv'
    BY <1>3, <1>4 DEF EditSource
  <1>5. ASSUME NEW c \in Configs, NEW cmd \in Commands, NEW force \in {0, 1},
               StartMake(c, cmd, force)
        PROVE  BootInv'
    BY <1>3, <1>5 DEF StartMake, files
  <1>6. CASE MakeStep
    BY <1>3, <1>6 DEF MakeStep, SkipPhase, StartRecipe, FinishRecipe, FailRecipe,
       CleanPhase, FailClean, Interrupt, NextGoal, FinishMake, files
  <1>7. CASE UNCHANGED vars
    BY <1>3, <1>7 DEF vars, files
  <1>8. QED
    BY <1>1, <1>2, <1>4, <1>5, <1>6, <1>7 DEF Next

\* Status files form a prefix of the phases, with what the walk has established:
\* going up, every phase below at is complete and no newer than the next one;
\* going down, every phase above at is gone.
LEMMA WalkStep ==
    ASSUME TypeOK, RunInv, ClockInv, StatusPrefix, WalkInv, [Next]_vars
    PROVE  StatusPrefix' /\ WalkInv'
  <1> USE WorkflowAssumption
  <1>0. /\ clock \in Nat
        /\ status \in [Configs -> [Phase -> Nat]]
        /\ who \in Configs
        /\ at \in Int
        /\ made \in Int
    BY DEF TypeOK
  <1>1. ASSUME UNCHANGED <<status, who, pc, goals, at, made>>
        PROVE  StatusPrefix' /\ WalkInv'
    BY <1>1 DEF StatusPrefix, WalkInv
  <1>2. ASSUME pc' = "idle", UNCHANGED <<status, who, made>>
        PROVE  StatusPrefix' /\ WalkInv'
    BY <1>2 DEF StatusPrefix, WalkInv
  <1>3. ASSUME NEW c \in Configs, NEW cmd \in Commands, NEW force \in {0, 1},
               StartMake(c, cmd, force)
        PROVE  StatusPrefix' /\ WalkInv'
    <2>1. status' = status /\ made' = -1 /\ at' = FirstPhase(Head(goals'))
      BY <1>3 DEF StartMake, files
    <2>2. QED
      BY <2>1, PhaseIs DEF FirstPhase, StatusPrefix, WalkInv
  <1>4. CASE SkipPhase
    <2>1. /\ pc = "goal" /\ Head(goals).op = "create" /\ at \in Phase
          /\ at' = at + 1
          /\ UNCHANGED <<status, who, pc, goals, made>>
      BY <1>4, HeadGoal DEF SkipPhase, Pursuing, files
    <2>2. status[who][at] # 0
      BY <1>4 DEF SkipPhase, OutOfDate
    <2>3. at > 0 => status[who][at-1] <= status[who][at]
      <3>1. at > 0 => at-1 \in Phase
        BY <2>1, PhaseIs
      <3>2. QED
        BY <1>0, <1>4, <2>1, <3>1 DEF SkipPhase, OutOfDate
    <2>4. \A j \in Phase : j < at' => status[who][j] # 0
      BY <2>1, <2>2, PhaseIs DEF WalkInv
    <2>5. \A k \in Phase \ {0} : k < at' => status[who][k-1] <= status[who][k]
      BY <2>1, <2>3, PhaseIs DEF WalkInv
    <2>6. QED
      BY <2>1, <2>4, <2>5 DEF StatusPrefix, WalkInv
  <1>5. CASE FinishRecipe
    <2>1. /\ pc = "recipe" /\ Head(goals).op = "create" /\ at \in Phase /\ made = -1
          /\ at' = at + 1
          /\ clock' = clock + 1
          /\ status' = [status EXCEPT ![who][at] = clock']
          /\ UNCHANGED <<who, goals, made>>
      BY <1>5 DEF FinishRecipe, RunInv, Tick
    <2>2. \A k \in Phase : status'[who][k] = IF k = at THEN clock + 1 ELSE status[who][k]
      BY <1>0, <2>1
    <2>3. \A c \in Configs \ {who} : status'[c] = status[c]
      BY <1>0, <2>1
    <2>4. \A j \in Phase : j < at => status[who][j] # 0
      BY <2>1 DEF WalkInv
    <2>5. ASSUME NEW c \in Configs, NEW j \in Phase, NEW k \in Phase,
                 j < k, status'[c][k] # 0
          PROVE  status'[c][j] # 0
      <3>1. CASE c # who
        BY <2>3, <2>5, <3>1 DEF StatusPrefix
      <3>2. CASE c = who /\ j = at
        BY <1>0, <2>2, <3>2
      <3>3. CASE c = who /\ j # at /\ k = at
        BY <2>2, <2>4, <2>5, <3>3
      <3>4. CASE c = who /\ j # at /\ k # at
        BY <2>2, <2>5, <3>4 DEF StatusPrefix
      <3>5. QED
        BY <3>1, <3>2, <3>3, <3>4
    <2>6. StatusPrefix'
      BY <2>5 DEF StatusPrefix
    <2>7. \A j \in Phase : j < at' => status'[who][j] # 0
      BY <1>0, <2>1, <2>2, <2>4, PhaseIs
    <2>8. ASSUME NEW k \in Phase \ {0}, k < at'
          PROVE  status'[who][k-1] <= status'[who][k]
      <3>1. k-1 \in Phase /\ k \in Int /\ k <= at /\ at \in Int
        BY <2>1, <2>8, PhaseIs
      <3>2. status[who][k-1] <= clock /\ status[who][k-1] \in Nat
        BY <1>0, <3>1 DEF ClockInv
      <3>3. CASE k = at
        BY <1>0, <2>2, <3>1, <3>2, <3>3
      <3>4. CASE k < at
        <4>1. status[who][k-1] <= status[who][k]
          BY <2>1, <3>4 DEF WalkInv
        <4>2. QED
          BY <2>2, <3>1, <3>4, <4>1
      <3>5. QED
        BY <3>1, <3>3, <3>4
    <2>9. WalkInv'
      BY <2>1, <2>7, <2>8 DEF WalkInv
    <2>10. QED
      BY <2>6, <2>9
  <1>6. CASE CleanPhase
    <2>1. /\ pc = "goal" /\ Head(goals).op = "clean" /\ at \in Phase /\ made = -1
          /\ at' = at - 1
          /\ status' = [status EXCEPT ![who][at] = 0]
          /\ UNCHANGED <<who, pc, goals, made>>
      BY <1>6, HeadGoal DEF CleanPhase, Pursuing, RunInv
    <2>2. \A k \in Phase : status'[who][k] = IF k = at THEN 0 ELSE status[who][k]
      BY <1>0, <2>1
    <2>3. \A c \in Configs \ {who} : status'[c] = status[c]
      BY <1>0, <2>1
    <2>4. \A k \in Phase : k > at => status[who][k] = 0
      BY <2>1 DEF WalkInv
    <2>5. ASSUME NEW c \in Configs, NEW j \in Phase, NEW k \in Phase,
                 j < k, status'[c][k] # 0
          PROVE  status'[c][j] # 0
      <3>1. CASE c # who
        BY <2>3, <2>5, <3>1 DEF StatusPrefix
      <3>2. CASE c = who
        <4>1. k # at /\ status[who][k] # 0
          BY <2>2, <2>5, <3>2
        <4>2. j # at
          BY <2>4, <2>5, <4>1
        <4>3. QED
          BY <2>2, <2>5, <3>2, <4>1, <4>2 DEF StatusPrefix
      <3>3. QED
        BY <3>1, <3>2
    <2>6. StatusPrefix'
      BY <2>5 DEF StatusPrefix
    <2>7. \A k \in Phase : k > at' => status'[who][k] = 0
      BY <2>1, <2>2, <2>4, PhaseIs
    <2>8. WalkInv'
      BY <2>1, <2>7 DEF WalkInv
    <2>9. QED
      BY <2>6, <2>8
  <1>7. CASE NextGoal
    <2>1. Head(goals') = goals[2]
      <3>1. goals \in Seq(Goal) /\ goals # << >> /\ Len(goals) > 1 /\ goals' = Tail(goals)
        BY <1>7, HeadGoal DEF NextGoal
      <3>2. QED
        BY <3>1, HeadTailProperties
    <2>2. status' = status /\ made' = -1 /\ at' = FirstPhase(Head(goals')) /\ who' = who
      BY <1>7, <2>1 DEF NextGoal, files, RunInv
    <2>3. QED
      BY <2>2, PhaseIs DEF FirstPhase, StatusPrefix, WalkInv
  <1>8. CASE FinishMake
    <2>1. /\ pc = "goal" /\ pc' = "idle"
          /\ status' = status /\ who' = who
          /\ made' = IF Head(goals).op = "create" THEN Head(goals).phase ELSE -1
          /\ Reached(Head(goals), at)
      BY <1>8 DEF FinishMake, Stop, files
    <2>2. CASE Head(goals).op = "create"
      <3>1. made' < at /\ made' \in Phase
        BY <2>1, <2>2, HeadGoal DEF Reached
      <3>2. \A k \in 1 .. made' : status[who][k-1] <= status[who][k]
        BY <1>0, <2>1, <2>2, <3>1, PhaseIs DEF WalkInv
      <3>3. QED
        BY <2>1, <3>2 DEF StatusPrefix, WalkInv
    <2>3. CASE Head(goals).op # "create"
      BY <2>1, <2>3 DEF StatusPrefix, WalkInv
    <2>4. QED
      BY <2>2, <2>3
  <1>9. CASE StartRecipe
    <2>1. pc = "goal" /\ pc' = "recipe" /\ UNCHANGED <<status, who, goals, at, made>>
      BY <1>9 DEF StartRecipe, Pursuing, files
    <2>2. QED
      BY <2>1 DEF StatusPrefix, WalkInv
  <1>10. CASE FailRecipe \/ FailClean \/ Interrupt
    BY <1>2, <1>10 DEF FailRecipe, FailClean, Interrupt, Stop, files
  <1>11. CASE \/ \E c \in Configs : EditInventory(c)
              \/ Bootstrap
              \/ \E k \in Phase : EditSource(k)
              \/ UNCHANGED vars
    BY <1>1, <1>11 DEF EditInventory, Bootstrap, EditSource, run, vars, files
  <1>12. QED
    BY <1>3, <1>4, <1>5, <1>6, <1>7, <1>8, <1>9, <1>10, <1>11 DEF Next, MakeStep

\* A phase not created on what the phase before it now is, is older than it.
LEMMA NewerStep ==
    ASSUME TypeOK, RunInv, ClockInv, NewerInv, [Next]_vars
    PROVE  NewerInv'
  <1> USE WorkflowAssumption
  <1>0. gen \in [Phase -> Nat] /\ on \in [Phase -> Nat] /\ clock \in Nat
    BY DEF TypeOK
  <1>1. ASSUME UNCHANGED <<gen, on>> PROVE NewerInv'
    BY <1>1 DEF NewerInv
  <1>2. ASSUME Vacate(at) PROVE NewerInv'
    BY <1>0, <1>2, PhaseIs DEF Vacate, NewerInv
  <1>3. CASE FinishRecipe
    <2>1. /\ at \in Phase
          /\ clock' = clock + 1
          /\ gen' = [gen EXCEPT ![at] = clock']
          /\ on' = [on EXCEPT ![at] = IF at > 0 THEN gen[at-1] ELSE 0]
      BY <1>3 DEF FinishRecipe, RunInv, Tick
    <2>2. ASSUME NEW k \in Phase \ {0},
                 gen'[k] # 0, gen'[k-1] # 0, on'[k] # gen'[k-1]
          PROVE  gen'[k-1] > gen'[k]
      <3>1. k-1 \in Phase /\ k \in Int /\ k > 0 /\ k-1 # k
        BY PhaseIs
      <3>2. CASE k = at
        BY <1>0, <2>1, <2>2, <3>1, <3>2
      <3>3. CASE k-1 = at
        <4>1. gen'[k] = gen[k] /\ gen[k] <= clock /\ gen[k] \in Nat
          BY <1>0, <2>1, <3>1, <3>3 DEF ClockInv
        <4>2. gen'[k-1] = clock + 1
          BY <1>0, <2>1, <3>1, <3>3
        <4>3. QED
          BY <1>0, <4>1, <4>2
      <3>4. CASE k # at /\ k-1 # at
        <4>1. gen'[k] = gen[k] /\ gen'[k-1] = gen[k-1] /\ on'[k] = on[k]
          BY <1>0, <2>1, <3>1, <3>4
        <4>2. QED
          BY <2>2, <4>1 DEF NewerInv
      <3>5. QED
        BY <3>2, <3>3, <3>4
    <2>3. QED
      BY <2>2 DEF NewerInv
  <1>4. CASE StartRecipe \/ FailClean
    BY <1>2, <1>4 DEF StartRecipe, FailClean
  <1>5. CASE CleanPhase
    BY <1>1, <1>2, <1>5 DEF CleanPhase
  <1>6. CASE \/ \E c \in Configs : EditInventory(c)
             \/ Bootstrap
             \/ \E k \in Phase : EditSource(k)
             \/ UNCHANGED vars
    BY <1>1, <1>6 DEF EditInventory, Bootstrap, EditSource, infra, vars
  <1>7. CASE \E c \in Configs, cmd \in Commands, force \in {0, 1} : StartMake(c, cmd, force)
    BY <1>1, <1>7 DEF StartMake, infra
  <1>8. CASE SkipPhase \/ FailRecipe \/ Interrupt \/ NextGoal \/ FinishMake
    BY <1>1, <1>8 DEF SkipPhase, FailRecipe, Interrupt, NextGoal, FinishMake, infra
  <1>9. QED
    BY <1>3, <1>4, <1>5, <1>6, <1>7, <1>8 DEF Next, MakeStep

\* A status file that make trusts is true.
LEMMA SoundStep ==
    ASSUME TypeOK, RunInv, ClockInv, WalkInv, SoundStatus, [Next]_vars
    PROVE  SoundStatus'
  <1> USE WorkflowAssumption
  <1>0. /\ status \in [Configs -> [Phase -> Nat]]
        /\ src \in [Phase -> Nat]
        /\ gen \in [Phase -> Nat]
        /\ by \in [Phase -> Configs]
        /\ clock \in Nat
        /\ who \in Configs
    BY DEF TypeOK
  <1>1. ASSUME UNCHANGED <<status, src, gen, by, cut>> PROVE SoundStatus'
    BY <1>1 DEF SoundStatus, OutOfDate, Attested
  <1>2. ASSUME NEW j \in Phase, EditSource(j) PROVE SoundStatus'
    <2>1. UNCHANGED <<status, gen, by, cut>>
      BY <1>2 DEF EditSource
    <2>2. \A k \in Phase : src[k] <= src'[k] /\ src'[k] \in Nat
      BY <1>0, <1>2 DEF EditSource, Tick, ClockInv
    <2>3. \A c \in Configs, k \in Phase : OutOfDate(c, k) => OutOfDate(c, k)'
      BY <1>0, <2>1, <2>2 DEF OutOfDate
    <2>4. QED
      BY <2>1, <2>3 DEF SoundStatus, Attested
  <1>3. CASE StartRecipe
    <2>1. /\ at \in Phase
          /\ gen' = [gen EXCEPT ![at] = 0]
          /\ by' = [by EXCEPT ![at] = who]
          /\ UNCHANGED <<status, src, cut, who>>
          /\ OutOfDate(who, at)
      BY <1>3, HeadGoal DEF StartRecipe, Pursuing, Vacate, files
    <2>2. ASSUME NEW c \in Configs, NEW k \in Phase,
                 ~OutOfDate(c, k)', by'[k] = c, k \notin cut'
          PROVE  Attested(c, k)'
      <3>1. ~OutOfDate(c, k)
        BY <2>1, <2>2 DEF OutOfDate
      <3>2. k # at
        BY <1>0, <2>1, <2>2, <3>1
      <3>3. by'[k] = by[k] /\ gen'[k] = gen[k]
        BY <1>0, <2>1, <3>2
      <3>4. QED
        BY <2>1, <2>2, <3>1, <3>3 DEF SoundStatus, Attested
    <2>3. QED
      BY <2>2 DEF SoundStatus
  <1>4. CASE FinishRecipe
    <2>1. /\ at \in Phase
          /\ by[at] = who
          /\ clock' = clock + 1
          /\ status' = [status EXCEPT ![who][at] = clock']
          /\ gen' = [gen EXCEPT ![at] = clock']
          /\ cut' = cut \ {at}
          /\ UNCHANGED <<src, by, who>>
      BY <1>4 DEF FinishRecipe, RunInv, Tick
    <2>2. ASSUME NEW c \in Configs, NEW k \in Phase,
                 ~OutOfDate(c, k)', by'[k] = c, k \notin cut'
          PROVE  Attested(c, k)'
      <3>1. CASE k = at
        <4>1. c = who
          BY <2>1, <2>2, <3>1
        <4>2. QED
          BY <1>0, <2>1, <3>1, <4>1 DEF Attested
      <3>2. CASE k # at
        <4>1. status'[c][k] = status[c][k] /\ gen'[k] = gen[k]
          BY <1>0, <2>1, <3>2
        <4>2. k > 0 => status'[c][k-1] >= status[c][k-1] /\ status[c][k-1] \in Nat
          <5>1. k > 0 => k-1 \in Phase
            BY PhaseIs
          <5>2. \A j \in Phase : status'[c][j] >= status[c][j] /\ status[c][j] \in Nat
            BY <1>0, <2>1 DEF ClockInv
          <5>3. QED
            BY <5>1, <5>2
        <4>3. status[c][k] \in Nat /\ (k > 0 => status'[c][k-1] \in Nat)
          BY <1>0, <2>1, <4>2, PhaseIs
        <4>4. ~OutOfDate(c, k)
          BY <2>1, <2>2, <4>1, <4>2, <4>3 DEF OutOfDate
        <4>5. QED
          BY <2>1, <2>2, <3>2, <4>1, <4>4 DEF SoundStatus, Attested
      <3>3. QED
        BY <3>1, <3>2
    <2>3. QED
      BY <2>2 DEF SoundStatus
  <1>5. CASE CleanPhase
    <2>1. /\ pc = "goal" /\ Head(goals).op = "clean" /\ at \in Phase
          /\ status' = [status EXCEPT ![who][at] = 0]
          /\ UNCHANGED <<src, who>>
      BY <1>5, HeadGoal DEF CleanPhase, Pursuing
    <2>2. /\ \A k \in Phase \ {at} : gen'[k] = gen[k] /\ by'[k] = by[k] /\ (k \in cut <=> k \in cut')
          /\ \/ gen'[at] = gen[at] /\ by'[at] = by[at] /\ (at \in cut <=> at \in cut')
             \/ by'[at] = who
      BY <1>0, <1>5, <2>1 DEF CleanPhase, Vacate
    <2>3. ASSUME NEW c \in Configs, NEW k \in Phase,
                 ~OutOfDate(c, k)', by'[k] = c, k \notin cut'
          PROVE  Attested(c, k)'
      <3>1. CASE c = who
        <4>1. status'[who][k] # 0
          BY <2>3, <3>1 DEF OutOfDate
        <4>2. k # at /\ status[who][k] # 0
          BY <1>0, <2>1, <4>1
        <4>3. ~(k > at)
          BY <2>1, <4>2 DEF WalkInv
        <4>4. k > 0 => status'[who][k-1] = status[who][k-1]
          BY <1>0, <2>1, <4>2, <4>3, PhaseIs
        <4>5. status'[who][k] = status[who][k]
          BY <1>0, <2>1, <4>2
        <4>6. ~OutOfDate(c, k)
          BY <2>1, <2>3, <3>1, <4>4, <4>5 DEF OutOfDate
        <4>7. QED
          BY <2>2, <2>3, <3>1, <4>2, <4>5, <4>6 DEF SoundStatus, Attested
      <3>2. CASE c # who
        <4>1. status'[c] = status[c]
          BY <1>0, <2>1, <3>2
        <4>2. ~OutOfDate(c, k)
          BY <2>1, <2>3, <4>1 DEF OutOfDate
        <4>3. by'[k] = by[k] /\ gen'[k] = gen[k] /\ k \notin cut
          BY <2>2, <2>3, <3>2
        <4>4. QED
          BY <2>3, <4>1, <4>2, <4>3 DEF SoundStatus, Attested
      <3>3. QED
        BY <3>1, <3>2
    <2>4. QED
      BY <2>3 DEF SoundStatus
  <1>6. CASE FailClean
    <2>1. /\ gen' = [gen EXCEPT ![at] = 0]
          /\ by' = [by EXCEPT ![at] = who]
          /\ cut' = cut \cup {at}
          /\ UNCHANGED <<status, src>>
      BY <1>6 DEF FailClean, Vacate, files
    <2>2. QED
      BY <1>0, <2>1 DEF SoundStatus, OutOfDate, Attested
  <1>7. CASE \/ \E c \in Configs : EditInventory(c)
             \/ Bootstrap
             \/ UNCHANGED vars
    BY <1>1, <1>7 DEF EditInventory, Bootstrap, infra, files, vars
  <1>8. CASE \E c \in Configs, cmd \in Commands, force \in {0, 1} : StartMake(c, cmd, force)
    BY <1>1, <1>8 DEF StartMake, infra, files
  <1>9. CASE SkipPhase \/ FailRecipe \/ Interrupt \/ NextGoal \/ FinishMake
    BY <1>1, <1>9 DEF SkipPhase, FailRecipe, Interrupt, NextGoal, FinishMake, infra, files
  <1>10. QED
    BY <1>2, <1>3, <1>4, <1>5, <1>6, <1>7, <1>8, <1>9 DEF Next, MakeStep

-------------------------------------------------------------------------------
(* The inductive invariant, and what it implies.                           *)

LEMMA IInvInit == Init => IInv
  <1> SUFFICES ASSUME Init PROVE IInv
    OBVIOUS
  <1>1. TypeOK /\ RunInv
    BY TypeInit
  <1>2. StatusPrefix /\ WalkInv /\ SoundStatus
    BY PhaseIs DEF Init, StatusPrefix, WalkInv, SoundStatus, OutOfDate
  <1>3. ClockInv /\ NewerInv /\ BootInv
    BY PhaseIs DEF Init, ClockInv, NewerInv, BootInv
  <1>4. QED
    BY <1>1, <1>2, <1>3 DEF IInv

LEMMA IInvStep == IInv /\ [Next]_vars => IInv'
  BY TypeStep, ClockStep, BootStep, WalkStep, NewerStep, SoundStep DEF IInv

LEMMA IInvAlways == Spec => []IInv
  <1>1. Init => IInv
    BY IInvInit
  <1>2. IInv /\ [Next]_vars => IInv'
    BY IInvStep
  <1>3. QED
    BY <1>1, <1>2, PTL DEF Spec

\* If phase k passed make's comparison of mtimes and both phases are in place as
\* attested, phase k cannot be older than phase k-1, so it was created on it.
LEMMA InOrder == IInv => BuiltInOrder
  <1> SUFFICES ASSUME IInv,
                      NEW k \in 1 .. made,
                      Attested(who, k-1), Attested(who, k),
                      on[k] # gen[k-1]
               PROVE  FALSE
    BY DEF BuiltInOrder
  <1>1. k \in Phase \ {0} /\ k-1 \in Phase
    BY PhaseIs, WorkflowAssumption DEF IInv, TypeOK
  <1>2. gen[k] = status[who][k] /\ gen[k-1] = status[who][k-1]
        /\ gen[k] # 0 /\ gen[k-1] # 0
    BY DEF Attested
  <1>3. gen[k-1] > gen[k]
    BY <1>1, <1>2 DEF IInv, NewerInv
  <1>4. gen[k-1] <= gen[k]
    BY <1>2 DEF IInv, WalkInv
  <1>5. gen[k] \in Nat /\ gen[k-1] \in Nat
    BY <1>1 DEF IInv, TypeOK
  <1>6. QED
    BY <1>3, <1>4, <1>5

\* The state of the program keeps its types, for any number of phases,
\* configurations and writes.
THEOREM TypeCorrect == Spec => []TypeOK
  <1>1. IInv => TypeOK
    BY DEF IInv
  <1>2. QED
    BY <1>1, IInvAlways, PTL

\* However makes are started, failed, interrupted and cleaned, the status files
\* of every configuration form a prefix of the phases.
THEOREM PrefixAlways == Spec => []StatusPrefix
  <1>1. IInv => StatusPrefix
    BY DEF IInv
  <1>2. QED
    BY <1>1, IInvAlways, PTL

\* After a successful make, no phase it covers stands, as attested, on a creation
\* of the phase before it that has since been replaced by another attested one.
THEOREM InOrderAlways == Spec => []BuiltInOrder
  <1>1. QED
    BY InOrder, IInvAlways, PTL

\* A status file that make takes for up to date tells the truth, unless a clean
\* command was stopped part-way or another configuration took the phase over.
THEOREM SoundAlways == Spec => []SoundStatus
  <1>1. IInv => SoundStatus
    BY DEF IInv
  <1>2. QED
    BY <1>1, IInvAlways, PTL

\* An outdated Makefile is never started without FORCE.
THEOREM OutdatedNeverStarts == Spec => OutdatedBlocked
  <1>1. IInv /\ [Next]_vars =>
            [pc = "idle" /\ pc' = "goal" => forced' = 1 \/ who' = current]_vars
    <2> SUFFICES ASSUME IInv, Next, pc = "idle", pc' = "goal"
                 PROVE  forced' = 1 \/ who' = current
      OBVIOUS
    <2>1. ~MakeStep
      BY DEF MakeStep, SkipPhase, StartRecipe, FinishRecipe, FailRecipe, CleanPhase,
         FailClean, Interrupt, NextGoal, FinishMake, Pursuing, Stop
    <2>2. pc' # pc
      OBVIOUS
    <2>3. PICK c \in Configs, cmd \in Commands, force \in {0, 1} : StartMake(c, cmd, force)
      BY <2>1, <2>2 DEF Next, EditInventory, Bootstrap, EditSource, run
    <2>4. QED
      BY <2>3 DEF StartMake, IInv, BootInv
  <1>2. QED
    BY <1>1, IInvAlways, PTL DEF Spec, OutdatedBlocked

-------------------------------------------------------------------------------
(* Workflow implements PhaseChain.                                         *)

LEMMA ChainInit == Init => Chain!Init
  BY DEF Init, Chain!Init, Completed

LEMMA ChainStep == IInv /\ [Next]_vars => [Chain!Next]_Completed
  <1> SUFFICES ASSUME IInv, [Next]_vars
               PROVE  Chain!Next \/ Completed' = Completed
    OBVIOUS
  <1> USE WorkflowAssumption
  <1>0. /\ status \in [Configs -> [Phase -> Nat]]
        /\ who \in Configs
        /\ clock \in Nat
    BY DEF IInv, TypeOK
  <1>1. ASSUME status' = status PROVE Completed' = Completed
    BY <1>1 DEF Completed
  <1>2. CASE FinishRecipe
    <2>1. /\ at \in Phase
          /\ status' = [status EXCEPT ![who][at] = clock + 1]
          /\ \A j \in Phase : j < at => status[who][j] # 0
      BY <1>2 DEF FinishRecipe, Tick, IInv, RunInv, WalkInv
    <2>2. CASE status[who][at] = 0
      <3>1. \A k \in Phase : k > at => status[who][k] = 0
        BY <1>0, <2>1, <2>2 DEF IInv, StatusPrefix
      <3>2. Completed[who] = 0 .. at-1
        <4>1. \A k \in Phase : status[who][k] # 0 <=> k < at
          BY <2>1, <2>2, <3>1, PhaseIs
        <4>2. {k \in Phase : status[who][k] # 0} = 0 .. at-1
          BY <2>1, <4>1, PhaseIs
        <4>3. QED
          BY <1>0, <4>2 DEF Completed
      <3>3. {k \in Phase : status'[who][k] # 0} = 0 .. at
        <4>1. \A k \in Phase : status'[who][k] = IF k = at THEN clock + 1 ELSE status[who][k]
          BY <1>0, <2>1
        <4>0. clock + 1 # 0
          BY <1>0
        <4>2. \A k \in Phase : status'[who][k] # 0 <=> k <= at
          BY <2>1, <3>1, <4>0, <4>1, PhaseIs
        <4>3. QED
          BY <2>1, <4>2, PhaseIs
      <3>4. Completed' = [Completed EXCEPT ![who] = 0 .. at]
        <4>1. \A c \in Configs \ {who} : status'[c] = status[c]
          BY <1>0, <2>1
        <4>2. QED
          BY <1>0, <3>3, <4>1 DEF Completed
      <3>5. Chain!Complete(who, at)
        BY <3>2, <3>4 DEF Chain!Complete
      <3>6. QED
        BY <1>0, <2>1, <3>5 DEF Chain!Next, Phase
    <2>3. CASE status[who][at] # 0
      <3>1. \A c \in Configs, k \in Phase : status'[c][k] # 0 <=> status[c][k] # 0
        BY <1>0, <2>1, <2>3
      <3>2. QED
        BY <3>1 DEF Completed
    <2>4. QED
      BY <2>2, <2>3
  <1>3. CASE CleanPhase
    <2>1. /\ at \in Phase
          /\ status' = [status EXCEPT ![who][at] = 0]
          /\ \A k \in Phase : k > at => status[who][k] = 0
      BY <1>3, HeadGoal DEF CleanPhase, Pursuing, IInv, WalkInv
    <2>2. CASE status[who][at] # 0
      <3>1. \A j \in Phase : j < at => status[who][j] # 0
        BY <1>0, <2>1, <2>2 DEF IInv, StatusPrefix
      <3>2. Completed[who] = 0 .. at
        <4>1. \A k \in Phase : status[who][k] # 0 <=> k <= at
          BY <2>1, <2>2, <3>1, PhaseIs
        <4>2. {k \in Phase : status[who][k] # 0} = 0 .. at
          BY <2>1, <4>1, PhaseIs
        <4>3. QED
          BY <1>0, <4>2 DEF Completed
      <3>3. {k \in Phase : status'[who][k] # 0} = 0 .. at-1
        <4>1. \A k \in Phase : status'[who][k] = IF k = at THEN 0 ELSE status[who][k]
          BY <1>0, <2>1
        <4>2. \A k \in Phase : status'[who][k] # 0 <=> k < at
          BY <2>1, <3>1, <4>1, PhaseIs
        <4>3. QED
          BY <2>1, <4>2, PhaseIs
      <3>4. Completed' = [Completed EXCEPT ![who] = 0 .. at-1]
        <4>1. \A c \in Configs \ {who} : status'[c] = status[c]
          BY <1>0, <2>1
        <4>2. QED
          BY <1>0, <3>3, <4>1 DEF Completed
      <3>5. Chain!Undo(who, at)
        BY <3>2, <3>4 DEF Chain!Undo
      <3>6. QED
        BY <1>0, <2>1, <3>5 DEF Chain!Next, Phase
    <2>3. CASE status[who][at] = 0
      <3>1. \A c \in Configs, k \in Phase : status'[c][k] # 0 <=> status[c][k] # 0
        BY <1>0, <2>1, <2>3
      <3>2. QED
        BY <3>1 DEF Completed
    <2>4. QED
      BY <2>2, <2>3
  <1>4. CASE \/ \E c \in Configs : EditInventory(c)
             \/ Bootstrap
             \/ \E k \in Phase : EditSource(k)
             \/ UNCHANGED vars
    BY <1>1, <1>4 DEF EditInventory, Bootstrap, EditSource, files, vars
  <1>5. CASE \E c \in Configs, cmd \in Commands, force \in {0, 1} : StartMake(c, cmd, force)
    BY <1>1, <1>5 DEF StartMake, files
  <1>6. CASE \/ SkipPhase \/ StartRecipe \/ FailRecipe \/ FailClean
             \/ Interrupt \/ NextGoal \/ FinishMake
    BY <1>1, <1>6 DEF SkipPhase, StartRecipe, FailRecipe, FailClean, Interrupt,
       NextGoal, FinishMake, files
  <1>7. QED
    BY <1>2, <1>3, <1>4, <1>5, <1>6 DEF Next, MakeStep

\* Every behaviour of the workflow is, seen through its status files, a behaviour
\* of PhaseChain: phases are completed in order and undone in reverse.
THEOREM ImplementsChain == Spec => ChainRefined
  <1>1. Init => Chain!Init
    BY ChainInit
  <1>2. IInv /\ [Next]_vars => [Chain!Next]_Completed
    BY ChainStep
  <1>3. QED
    BY <1>1, <1>2, IInvAlways, PTL DEF Spec, ChainRefined, Chain!Spec
===============================================================================

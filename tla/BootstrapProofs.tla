--------------------------- MODULE BootstrapProofs ---------------------------
(***************************************************************************)
(* What holds of bootstrap.sh, its playbook and the check of the Makefile  *)
(* for all contents of the inventory and any number of edits and runs.     *)
(*                                                                         *)
(* A bootstrap is known by its number: what it writes is newer than all    *)
(* that lies in the artifact directories when it writes the Makefile, so   *)
(* files that have the Makefile's number are its own, and from the content *)
(* it has parsed.  The Makefile's mtime tells whether that content is the  *)
(* present one, except for what was edited before the Makefile was written.*)
(***************************************************************************)
EXTENDS Bootstrap, TLAPS

\* Where the running bootstrap has parsed the inventory, named the artifact
\* directory, written the Makefile there.
Parsed == pc \in {"prepare", "validate", "render", "help", "make"}
Named  == pc \in {"validate", "render", "help", "make"}
Wrote  == pc \in {"render", "help", "make"}

\* Nothing in the artifact directories is newer than the present bootstrap, and
\* nothing is its own before it writes the Makefile.
Numbered ==
    /\ pc # "idle" => run # 0
    /\ pc \in {"settings", "prepare", "validate"} =>
         \A d \in Dirs : mk[d].run < run /\ \A f \in Files : file[d][f].run < run
    /\ \A d \in Dirs : mk[d].run <= run /\ \A f \in Files : file[d][f].run <= run

\* The running bootstrap works on the present content unless it was edited, and in
\* the directory of that content.
Fresh ==
    /\ Parsed /\ ~moved => parsed = current
    /\ Named /\ ~moved => dir = ConfigHash(current)

\* It has written the Makefile and the files of the plan up to rendered.
Progress ==
    /\ Wrote => /\ mk[dir].run = run
                /\ mk[dir].of = parsed
                /\ \A i \in 1 .. rendered :
                     file[dir][Plan(network)[i]] = [of |-> parsed, run |-> run]
    /\ pc \in {"settings", "prepare", "validate"} => rendered = 0
    /\ pc \in {"help", "make"} => rendered = Len(Plan(network))
    /\ done # 0 => pc \in {"idle", "make"}

\* A file that has the number of the Makefile is from the same content.
SameContent ==
    \A d \in Dirs, f \in Files :
        mk[d].run # 0 /\ file[d][f].run = mk[d].run => file[d][f].of = mk[d].of

\* A Makefile that passes its check, of an inventory that is a file, is from the
\* present content, unless the edit came before it was written.
CheckTells ==
    \A d \in Dirs :
        ~isdir /\ mk[d].run # 0 /\ ~mk[d].torn /\ mk[d].time > inv
            => mk[d].of = current

IInv == /\ TypeOK
        /\ Numbered
        /\ Fresh
        /\ Progress
        /\ SameContent
        /\ CheckTells
        /\ Repaired
        /\ CheckSuffices
-------------------------------------------------------------------------------
\* The plan lists files, whatever the network.
LEMMA PlanType ==
    ASSUME NEW n \in Networks
    PROVE  /\ Plan(n) \in Seq(Files)
           /\ Len(Plan(n)) \in Nat
           /\ \A i \in 1 .. Len(Plan(n)) : Plan(n)[i] \in Files
           /\ Planned(n) = {Plan(n)[i] : i \in 1 .. Len(Plan(n))}
           /\ Planned(n) \subseteq Files
  <1>1. /\ "phase0" \in Files /\ "phase1" \in Files /\ "phase2" \in Files
        /\ "phase4" \in Files /\ "phase5" \in Files /\ "all" \in Files
        /\ "tfvars" \in Files /\ "tofu" \in Files
    BY DEF Files, Inventories
  <1>2. Plan(n) \in Seq(Files)
    <2>1. CASE n = "none"
      BY <1>1, <2>1 DEF Plan
    <2>2. CASE n = "mvpnet"
      BY <1>1, <2>2 DEF Plan
    <2>3. CASE n = "libvirt"
      BY <1>1, <2>3 DEF Plan
    <2>4. QED
      BY <2>1, <2>2, <2>3 DEF Networks
  <1>3. /\ Len(Plan(n)) \in Nat
        /\ DOMAIN Plan(n) = 1 .. Len(Plan(n))
        /\ \A i \in 1 .. Len(Plan(n)) : Plan(n)[i] \in Files
    BY <1>2
  <1>4. QED
    BY <1>2, <1>3 DEF Planned

LEMMA HashType ==
    ASSUME TypeOK
    PROVE  ConfigHash(current) \in Dirs
  BY DEF TypeOK, ConfigHash, Dirs

-------------------------------------------------------------------------------
(* Typing.                                                                 *)

LEMMA TypeInit == Init => TypeOK
  <1> SUFFICES ASSUME Init PROVE TypeOK
    OBVIOUS
  <1> USE BootstrapAssumption
  <1>1. Shared \in Dirs
    BY DEF Dirs
  <1>2. NoMakefile(current) \in Makefile /\ NoMakefile(current).time = 0
    BY DEF Init, NoMakefile, Makefile
  <1>3. Absent(current) \in GeneratedFile
    BY DEF Init, Absent, GeneratedFile
  <1>4. [f \in Files |-> Absent(current)] \in [Files -> GeneratedFile]
    BY <1>3
  <1>5. NoMake(current) \in Make
    BY <1>1, <1>2, <1>4 DEF Init, NoMake, Make
  <1>6. Len(Plan(network)) \in Nat
    BY PlanType DEF Init
  <1>7. mk \in [Dirs -> Makefile] /\ \A d \in Dirs : mk[d].time <= clock
    BY <1>2 DEF Init
  <1>8. file \in [Dirs -> [Files -> GeneratedFile]]
    BY <1>4 DEF Init
  <1>9. last \in Make
    BY <1>5 DEF Init
  <1>10. /\ clock = 1 /\ inv = 1 /\ edits = 0 /\ run = 0 /\ done = 0 /\ rendered = 0
         /\ pc = "idle" /\ dir = Shared /\ current \in Contents /\ parsed \in Contents
         /\ network \in Networks /\ isdir \in BOOLEAN
         /\ moved = FALSE /\ found = FALSE /\ targets = FALSE
    BY DEF Init
  <1>11. clock \in Nat /\ inv \in 1 .. clock /\ 0 \in 0 .. MaxRuns /\ 0 \in 0 .. MaxEdits
         /\ 0 \in 0 .. Len(Plan(network))
    BY <1>6, <1>10
  <1>12. QED
    BY <1>1, <1>7, <1>8, <1>9, <1>10, <1>11 DEF TypeOK

LEMMA UsesType ==
    ASSUME TypeOK, NEW who \in {"user", "script"}, NEW d \in Dirs
    PROVE  Uses(who, d) \in Make
  BY DEF Uses, Make, TypeOK

LEMMA TypeStep == TypeOK /\ [Next]_vars => TypeOK'
  <1> SUFFICES ASSUME TypeOK, [Next]_vars PROVE TypeOK'
    OBVIOUS
  <1> USE BootstrapAssumption
  <1>1. ASSUME NEW c \in Contents, Edit(c) PROVE TypeOK'
    <2>1. clock' \in Nat /\ clock' = clock + 1 /\ inv' \in 1 .. clock'
      BY <1>1 DEF Edit, TypeOK
    <2>2. edits' \in 0 .. MaxEdits
      BY <1>1 DEF Edit, TypeOK
    <2>3. \A d \in Dirs : mk'[d].time <= clock'
      BY <1>1, <2>1 DEF Edit, TypeOK, Makefile
    <2>4. QED
      BY <1>1, <2>1, <2>2, <2>3 DEF Edit, TypeOK
  <1>2. ASSUME NEW d \in Dirs, UserMake(d) PROVE TypeOK'
    BY <1>2, UsesType DEF UserMake, TypeOK, input, script
  <1>3. ASSUME NEW make \in BOOLEAN, Start(make) PROVE TypeOK'
    <2>1. 0 \in 0 .. Len(Plan(network))
      BY PlanType DEF TypeOK
    <2>2. run' \in 0 .. MaxRuns /\ done' \in 0 .. MaxRuns
      BY <1>3 DEF Start, TypeOK
    <2>3. QED
      BY <1>3, <2>1, <2>2 DEF Start, TypeOK, input
  <1>4. CASE Parse
    BY <1>4 DEF Parse, TypeOK, input
  <1>5. CASE ComputeHash
    BY <1>5, HashType DEF ComputeHash, TypeOK, input
  <1>6. CASE GenerateMakefile
    <2> DEFINE new == [of |-> parsed, run |-> run, time |-> clock + 1, torn |-> moved]
    <2>1. new \in Makefile
      BY DEF TypeOK, Makefile
    <2>2. mk' = [mk EXCEPT ![dir] = new] /\ clock' = clock + 1 /\ clock' \in Nat
      BY <1>6 DEF GenerateMakefile, TypeOK
    <2>3. mk' \in [Dirs -> Makefile]
      BY <2>1, <2>2 DEF TypeOK
    <2>4. \A d \in Dirs : mk'[d].time <= clock'
      <3> SUFFICES ASSUME NEW d \in Dirs PROVE mk'[d].time <= clock'
        OBVIOUS
      <3>1. mk[d].time \in Nat /\ mk[d].time <= clock
        BY DEF TypeOK, Makefile
      <3>2. CASE d = dir
        BY <2>2, <3>2 DEF TypeOK
      <3>3. CASE d # dir
        BY <2>2, <3>1, <3>3 DEF TypeOK
      <3>4. QED
        BY <3>2, <3>3
    <2>5. inv' \in 1 .. clock'
      BY <1>6, <2>2 DEF GenerateMakefile, TypeOK, input
    <2>6. QED
      BY <1>6, <2>2, <2>3, <2>4, <2>5 DEF GenerateMakefile, TypeOK, input
  <1>7. CASE Render
    <2> DEFINE new == [of |-> parsed, run |-> run]
    <2>1. new \in GeneratedFile
      BY DEF TypeOK, GeneratedFile
    <2>2. Len(Plan(network)) \in Nat
      BY PlanType DEF TypeOK
    <2>3. rendered' \in 0 .. Len(Plan(network))
      BY <1>7, <2>2 DEF Render, TypeOK
    <2>4. file' = [file EXCEPT ![dir] =
                    [file[dir] EXCEPT ![Plan(network)[rendered + 1]] = new]]
      BY <1>7 DEF Render, TypeOK
    <2>5. [file[dir] EXCEPT ![Plan(network)[rendered + 1]] = new]
            \in [Files -> GeneratedFile]
      BY <2>1 DEF TypeOK
    <2>6. file' \in [Dirs -> [Files -> GeneratedFile]]
      BY <2>4, <2>5 DEF TypeOK
    <2>7. QED
      BY <1>7, <2>3, <2>6 DEF Render, TypeOK, input
  <1>8. CASE Discover
    BY <1>8 DEF Discover, TypeOK, input
  <1>9. CASE Help
    BY <1>9 DEF Help, TypeOK, input
  <1>10. CASE ScriptMake
    <2>1. last' \in Make
      BY <1>10, UsesType DEF ScriptMake, TypeOK
    <2>2. QED
      BY <1>10, <2>1 DEF ScriptMake, TypeOK, input
  <1>11. CASE Fail
    BY <1>11 DEF Fail, TypeOK, input
  <1>12. CASE UNCHANGED vars
    BY <1>12 DEF TypeOK, vars, input, script
  <1>13. QED
    BY <1>1, <1>2, <1>3, <1>4, <1>5, <1>6, <1>7, <1>8, <1>9, <1>10, <1>11, <1>12
    DEF Next

\* Every mtime lies in the past, and every run number and file that bootstrap
\* writes has its type, however often the inventory is edited.
THEOREM TypeCorrect == Spec => []TypeOK
  <1>1. Init => TypeOK
    BY TypeInit
  <1>2. TypeOK /\ [Next]_vars => TypeOK'
    BY TypeStep
  <1>3. QED
    BY <1>1, <1>2, PTL DEF Spec
-------------------------------------------------------------------------------
(* The invariant.                                                          *)

LEMMA RunNumbers ==
    ASSUME TypeOK, NEW d \in Dirs
    PROVE  mk[d].run \in Nat /\ \A f \in Files : file[d][f].run \in Nat
  <1>1. mk[d] \in Makefile /\ file[d] \in [Files -> GeneratedFile]
    BY DEF TypeOK
  <1>2. MaxRuns \in Nat
    BY BootstrapAssumption
  <1>3. mk[d].run \in Nat
    BY <1>1, <1>2 DEF Makefile
  <1>4. ASSUME NEW f \in Files PROVE file[d][f].run \in Nat
    <2>1. file[d][f] \in GeneratedFile
      BY <1>1
    <2>2. QED
      BY <1>2, <2>1 DEF GeneratedFile
  <1>5. QED
    BY <1>3, <1>4

LEMMA InvInit == Init => IInv
  <1> SUFFICES ASSUME Init PROVE IInv
    OBVIOUS
  <1> USE BootstrapAssumption
  <1>1. /\ \A d \in Dirs : mk[d].run = 0
        /\ \A d \in Dirs, f \in Files : file[d][f].run = 0
    BY DEF Init, NoMakefile, Absent
  <1>2. Numbered /\ SameContent /\ CheckTells
    BY <1>1 DEF Init, Numbered, SameContent, CheckTells
  <1>3. Fresh /\ Progress
    BY DEF Init, Fresh, Progress, Parsed, Named, Wrote
  <1>4. Repaired /\ CheckSuffices
    BY DEF Init, Repaired, CheckSuffices, NoMake
  <1>5. QED
    BY <1>2, <1>3, <1>4, TypeInit DEF IInv

\* What a make that passes the check finds.
LEMMA AcceptedSuffices ==
    ASSUME IInv, NEW d \in Dirs, Accepted(d), ~isdir, ~mk[d].torn,
           Whole(mk[d], file[d])
    PROVE  From(current, mk[d], file[d])
  <1>1. mk[d].run # 0 /\ mk[d].of = current
    BY DEF IInv, CheckTells, Accepted
  <1>2. ASSUME NEW x \in Planned(network) PROVE file[d][x].of = current
    <2>1. x \in Files
      BY PlanType DEF IInv, TypeOK
    <2>2. file[d][x].run = mk[d].run
      BY DEF Whole
    <2>3. QED
      BY <1>1, <2>1, <2>2 DEF IInv, SameContent
  <1>3. QED
    BY <1>1, <1>2 DEF From

\* What a bootstrap that has written all its files leaves.
LEMMA AllWritten ==
    ASSUME IInv, pc = "help", ~moved
    PROVE  /\ Whole(mk[ConfigHash(current)], file[ConfigHash(current)])
           /\ From(current, mk[ConfigHash(current)], file[ConfigHash(current)])
  <1>1. /\ dir = ConfigHash(current) /\ parsed = current
        /\ mk[dir].run = run /\ mk[dir].of = parsed
        /\ rendered = Len(Plan(network))
        /\ \A i \in 1 .. rendered :
             file[dir][Plan(network)[i]] = [of |-> parsed, run |-> run]
    BY DEF IInv, Fresh, Progress, Parsed, Named, Wrote
  <1>2. ASSUME NEW x \in Planned(network)
        PROVE  file[dir][x] = [of |-> parsed, run |-> run]
    <2>1. PICK i \in 1 .. Len(Plan(network)) : x = Plan(network)[i]
      BY PlanType DEF IInv, TypeOK
    <2>2. QED
      BY <1>1, <2>1
  <1>3. \A x \in Planned(network) : file[dir][x].of = parsed /\ file[dir][x].run = run
    BY <1>2
  <1>4. QED
    BY <1>1, <1>3 DEF Whole, From

LEMMA EditInv ==
    ASSUME IInv, NEW c \in Contents, Edit(c), TypeOK'
    PROVE  IInv'
  <1>1. Numbered'
    BY DEF Edit, IInv, Numbered
  <1>2. Fresh'
    BY DEF Edit, Fresh
  <1>3. Progress'
    BY DEF Edit, IInv, Progress, Wrote
  <1>4. SameContent'
    BY DEF Edit, IInv, SameContent
  <1>5. CheckTells'
    <2>1. \A d \in Dirs : mk[d].time \in Nat /\ mk[d].time <= clock
      BY DEF IInv, TypeOK, Makefile
    <2>2. ~isdir => inv' = clock + 1
      BY DEF Edit
    <2>3. \A d \in Dirs : ~isdir => ~(mk[d].time > inv')
      BY <2>1, <2>2 DEF IInv, TypeOK
    <2>4. QED
      BY <2>3 DEF Edit, CheckTells
  <1>6. Repaired'
    BY DEF Edit, Repaired
  <1>7. CheckSuffices'
    BY DEF Edit, IInv, CheckSuffices, Whole, From, Planned
  <1>8. QED
    BY <1>1, <1>2, <1>3, <1>4, <1>5, <1>6, <1>7 DEF IInv

LEMMA GenerateInv ==
    ASSUME IInv, GenerateMakefile, TypeOK'
    PROVE  IInv'
  <1> DEFINE new == [of |-> parsed, run |-> run, time |-> clock + 1, torn |-> moved]
  <1>1. /\ pc = "validate" /\ pc' = "render" /\ dir \in Dirs
        /\ mk' = [mk EXCEPT ![dir] = new]
        /\ UNCHANGED <<isdir, network, current, inv, edits, file, run, parsed, moved,
                       dir, rendered, found, targets, done, last>>
    BY DEF GenerateMakefile, input, IInv, TypeOK
  <1>2. mk'[dir] = new /\ \A d \in Dirs \ {dir} : mk'[d] = mk[d]
    BY <1>1 DEF IInv, TypeOK
  <1>3. run \in Nat /\ run # 0 /\ rendered = 0
    BY <1>1 DEF IInv, Numbered, Progress, TypeOK
  <1>4. \A d \in Dirs : mk[d].run \in Nat /\ \A f \in Files : file[d][f].run \in Nat
    BY RunNumbers DEF IInv
  <1>5. Numbered'
    BY <1>1, <1>2, <1>3 DEF IInv, Numbered
  <1>6. Fresh'
    BY <1>1 DEF IInv, Fresh, Parsed, Named, ConfigHash
  <1>7. Progress'
    <2>1. mk'[dir].run = run /\ mk'[dir].of = parsed
      BY <1>2
    <2>2. done = 0
      BY <1>1 DEF IInv, Progress
    <2>3. 1 .. rendered' = {}
      BY <1>1, <1>3
    <2>4. QED
      BY <1>1, <2>1, <2>2, <2>3 DEF Progress, Wrote
  <1>8. SameContent'
    <2> SUFFICES ASSUME NEW d \in Dirs, NEW f \in Files,
                        mk'[d].run # 0, file[d][f].run = mk'[d].run
                 PROVE  file[d][f].of = mk'[d].of
      BY <1>1 DEF SameContent
    <2>1. d # dir
      <3>1. file[d][f].run < run
        BY <1>1 DEF IInv, Numbered
      <3>2. mk'[dir].run = run
        BY <1>2
      <3>3. QED
        BY <1>3, <1>4, <3>1, <3>2
    <2>2. QED
      BY <1>2, <2>1 DEF IInv, SameContent
  <1>9. CheckTells'
    <2> SUFFICES ASSUME NEW d \in Dirs, ~isdir, mk'[d].run # 0, ~mk'[d].torn,
                        mk'[d].time > inv
                 PROVE  mk'[d].of = current
      BY <1>1 DEF CheckTells
    <2>1. CASE d = dir
      <3>1. ~moved /\ mk'[d].of = parsed
        BY <1>2, <2>1
      <3>2. QED
        BY <1>1, <3>1 DEF IInv, Fresh, Parsed
    <2>2. CASE d # dir
      BY <1>2, <2>2 DEF IInv, CheckTells
    <2>3. QED
      BY <2>1, <2>2
  <1>10. Repaired'
    BY <1>1 DEF IInv, Progress, Repaired
  <1>11. CheckSuffices'
    BY <1>1 DEF IInv, CheckSuffices, Whole, From, Planned
  <1>12. QED
    BY <1>5, <1>6, <1>7, <1>8, <1>9, <1>10, <1>11 DEF IInv

LEMMA RenderInv ==
    ASSUME IInv, Render, TypeOK'
    PROVE  IInv'
  <1> DEFINE new == [of |-> parsed, run |-> run]
  <1> DEFINE written == Plan(network)[rendered + 1]
  <1>1. /\ pc = "render" /\ pc' = "render" /\ dir \in Dirs
        /\ rendered < Len(Plan(network)) /\ rendered' = rendered + 1
        /\ file' = [file EXCEPT ![dir] = [file[dir] EXCEPT ![written] = new]]
        /\ UNCHANGED <<isdir, network, current, inv, edits, clock, mk, run, parsed,
                       moved, dir, found, targets, done, last>>
    BY DEF Render, input, IInv, TypeOK
  <1>2. rendered \in Nat /\ run \in Nat /\ Len(Plan(network)) \in Nat
    BY PlanType DEF IInv, TypeOK
  <1>3. written \in Files
    BY <1>1, <1>2, PlanType DEF IInv, TypeOK
  <1>4. /\ file'[dir][written] = new
        /\ \A f \in Files \ {written} : file'[dir][f] = file[dir][f]
        /\ \A d \in Dirs \ {dir} : file'[d] = file[d]
    BY <1>1, <1>3 DEF IInv, TypeOK
  <1>5. /\ mk[dir].run = run /\ mk[dir].of = parsed /\ run # 0
        /\ \A i \in 1 .. rendered : file[dir][Plan(network)[i]] = new
    BY <1>1 DEF IInv, Progress, Wrote, Numbered
  <1>6. Numbered'
    <2>1. ASSUME NEW d \in Dirs, NEW f \in Files PROVE file'[d][f].run <= run
      BY <1>2, <1>4, <2>1 DEF IInv, Numbered
    <2>2. QED
      BY <1>1, <1>5, <2>1 DEF IInv, Numbered
  <1>7. Fresh'
    BY <1>1 DEF IInv, Fresh, Parsed, Named, ConfigHash
  <1>8. Progress'
    <2>1. ASSUME NEW i \in 1 .. rendered + 1
          PROVE  file'[dir][Plan(network)[i]] = new
      <3>1. CASE i = rendered + 1
        BY <1>4, <3>1
      <3>2. CASE i # rendered + 1
        <4>1. i \in 1 .. rendered /\ i \in 1 .. Len(Plan(network))
          BY <1>1, <1>2, <3>2
        <4>2. Plan(network)[i] \in Files
          BY <4>1, PlanType DEF IInv, TypeOK
        <4>3. QED
          BY <1>4, <1>5, <4>1, <4>2
      <3>3. QED
        BY <3>1, <3>2
    <2>2. done = 0
      BY <1>1 DEF IInv, Progress
    <2>3. QED
      BY <1>1, <1>5, <2>1, <2>2 DEF Progress, Wrote
  <1>9. SameContent'
    <2> SUFFICES ASSUME NEW d \in Dirs, NEW f \in Files,
                        mk[d].run # 0, file'[d][f].run = mk[d].run
                 PROVE  file'[d][f].of = mk[d].of
      BY <1>1 DEF SameContent
    <2>1. CASE d = dir /\ f = written
      BY <1>4, <1>5, <2>1
    <2>2. CASE ~(d = dir /\ f = written)
      <3>1. file'[d][f] = file[d][f]
        BY <1>4, <2>2
      <3>2. QED
        BY <3>1 DEF IInv, SameContent
    <2>3. QED
      BY <2>1, <2>2
  <1>10. CheckTells'
    BY <1>1 DEF IInv, CheckTells
  <1>11. Repaired'
    BY <1>1 DEF IInv, Progress, Repaired
  <1>12. CheckSuffices'
    BY <1>1 DEF IInv, CheckSuffices, Whole, From, Planned
  <1>13. QED
    BY <1>6, <1>7, <1>8, <1>9, <1>10, <1>11, <1>12 DEF IInv

\* A step that leaves the artifact directories, the inventory and the last make
\* alone keeps what is said of these.
LEMMA FilesKept ==
    ASSUME IInv, UNCHANGED <<input, mk, file>>
    PROVE  /\ SameContent' /\ CheckTells'
           /\ UNCHANGED done => Repaired'
           /\ UNCHANGED last => CheckSuffices'
  BY DEF IInv, input, SameContent, CheckTells, Repaired, CheckSuffices, Whole, From,
         Planned, ConfigHash

LEMMA InvStep == IInv /\ [Next]_vars => IInv'
  <1> SUFFICES ASSUME IInv, [Next]_vars PROVE IInv'
    OBVIOUS
  <1>0. TypeOK'
    BY TypeStep DEF IInv
  <1>1. ASSUME NEW c \in Contents, Edit(c) PROVE IInv'
    BY <1>0, <1>1, EditInv
  <1>2. ASSUME NEW d \in Dirs, UserMake(d) PROVE IInv'
    <2>1. Numbered' /\ Fresh' /\ Progress'
      BY <1>2 DEF UserMake, IInv, input, script, Numbered, Fresh, Progress, Parsed,
                  Named, Wrote, ConfigHash
    <2>2. SameContent' /\ CheckTells' /\ Repaired'
      BY <1>2, FilesKept DEF UserMake
    <2>3. CheckSuffices'
      BY <1>2, AcceptedSuffices
      DEF UserMake, Uses, input, CheckSuffices, Whole, From, Planned
    <2>4. QED
      BY <1>0, <2>1, <2>2, <2>3 DEF IInv
  <1>3. ASSUME NEW make \in BOOLEAN, Start(make) PROVE IInv'
    <2>1. Numbered'
      <3>1. \A d \in Dirs : mk[d].run \in Nat /\ \A f \in Files : file[d][f].run \in Nat
        BY RunNumbers DEF IInv
      <3>2. run \in Nat /\ run' = run + 1
        BY <1>3 DEF Start, IInv, TypeOK
      <3>3. QED
        BY <1>3, <3>1, <3>2 DEF Start, IInv, Numbered
    <2>2. Fresh' /\ Progress'
      BY <1>3 DEF Start, Fresh, Progress, Parsed, Named, Wrote
    <2>3. SameContent' /\ CheckTells' /\ CheckSuffices'
      BY <1>3, FilesKept DEF Start
    <2>4. Repaired'
      BY <1>3 DEF Start, Repaired
    <2>5. QED
      BY <1>0, <2>1, <2>2, <2>3, <2>4 DEF IInv
  <1>4. CASE Parse
    <2>1. Numbered' /\ Fresh' /\ Progress'
      BY <1>4 DEF Parse, IInv, input, Numbered, Fresh, Progress, Parsed, Named, Wrote
    <2>2. QED
      BY <1>0, <1>4, <2>1, FilesKept DEF Parse, IInv
  <1>5. CASE ComputeHash
    <2>1. Numbered' /\ Fresh' /\ Progress'
      BY <1>5 DEF ComputeHash, IInv, input, Numbered, Fresh, Progress, Parsed, Named,
                  Wrote, ConfigHash
    <2>2. QED
      BY <1>0, <1>5, <2>1, FilesKept DEF ComputeHash, IInv
  <1>6. CASE GenerateMakefile
    BY <1>0, <1>6, GenerateInv
  <1>7. CASE Render
    BY <1>0, <1>7, RenderInv
  <1>8. CASE Discover
    <2>1. Numbered' /\ Fresh' /\ Progress'
      BY <1>8 DEF Discover, IInv, input, Numbered, Fresh, Progress, Parsed, Named,
                  Wrote, ConfigHash
    <2>2. QED
      BY <1>0, <1>8, <2>1, FilesKept DEF Discover, IInv
  <1>9. CASE Help
    <2>1. Numbered' /\ Fresh' /\ Progress'
      BY <1>9 DEF Help, IInv, input, Numbered, Fresh, Progress, Parsed, Named, Wrote,
                  ConfigHash
    <2>2. SameContent' /\ CheckTells' /\ CheckSuffices'
      BY <1>9, FilesKept DEF Help
    <2>3. Repaired'
      BY <1>9, AllWritten DEF Help, input, Repaired, Whole, From, Planned, ConfigHash
    <2>4. QED
      BY <1>0, <2>1, <2>2, <2>3 DEF IInv
  <1>10. CASE ScriptMake
    <2>1. Numbered' /\ Fresh' /\ Progress'
      BY <1>10 DEF ScriptMake, IInv, input, Numbered, Fresh, Progress, Parsed, Named,
                   Wrote, ConfigHash
    <2>2. SameContent' /\ CheckTells' /\ Repaired'
      BY <1>10, FilesKept DEF ScriptMake
    <2>3. CheckSuffices'
      <3>1. dir \in Dirs
        BY DEF IInv, TypeOK
      <3>2. QED
        BY <1>10, <3>1, AcceptedSuffices
        DEF ScriptMake, Uses, input, CheckSuffices, Whole, From, Planned
    <2>4. QED
      BY <1>0, <2>1, <2>2, <2>3 DEF IInv
  <1>11. CASE Fail
    <2>1. Numbered' /\ Fresh' /\ Progress'
      BY <1>11 DEF Fail, IInv, input, Numbered, Fresh, Progress, Parsed, Named, Wrote
    <2>2. QED
      BY <1>0, <1>11, <2>1, FilesKept DEF Fail, IInv
  <1>12. CASE UNCHANGED vars
    <2>1. Numbered' /\ Fresh' /\ Progress'
      BY <1>12 DEF vars, script, IInv, input, Numbered, Fresh, Progress, Parsed, Named,
                   Wrote, ConfigHash
    <2>2. QED
      BY <1>0, <1>12, <2>1, FilesKept DEF vars, IInv
  <1>13. QED
    BY <1>1, <1>2, <1>3, <1>4, <1>5, <1>6, <1>7, <1>8, <1>9, <1>10, <1>11, <1>12
    DEF Next

LEMMA Invariance == Spec => []IInv
  <1>1. QED
    BY InvInit, InvStep, PTL DEF Spec

\* Repeating bootstrap repairs what any number of failed ones have left: after one
\* that ended well the artifact directory is complete and from the present content.
THEOREM RepairedAlways == Spec => []Repaired
  <1>1. IInv => Repaired
    BY DEF IInv
  <1>2. QED
    BY <1>1, Invariance, PTL

\* Of an inventory that is a file, a make that passes the check of the Makefile uses
\* the present content only, but for an edit during the bootstrap and for one cut short.
THEOREM CheckSufficesAlways == Spec => []CheckSuffices
  <1>1. IInv => CheckSuffices
    BY DEF IInv
  <1>2. QED
    BY <1>1, Invariance, PTL
=============================================================================

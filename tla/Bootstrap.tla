------------------------------ MODULE Bootstrap ------------------------------
(***************************************************************************)
(* bootstrap.sh and bootstrap.yaml: from an inventory (a file, or a        *)
(* directory of files) to an artifact directory, named after the hash of   *)
(* the file or, for a directory, not named at all.  The Makefile is        *)
(* written first, the inventories and the tofu workspace after it, and the *)
(* Makefile's own check against the mtime of the inventory is all that     *)
(* later keeps an outdated one from being used.                            *)
(*                                                                         *)
(* The inventory is parsed when ansible-playbook starts and hashed later,  *)
(* after the preparation of the cluster; users edit it at any time.        *)
(***************************************************************************)
EXTENDS Integers, Sequences

CONSTANTS
    Contents,       \* contents of the inventory
    Shared,         \* the artifact directory of an inventory that is a directory
    MaxEdits,       \* bound on the edits of a behaviour
    MaxRuns         \* bound on the bootstraps of a behaviour

ASSUME BootstrapAssumption ==
    /\ Contents # {}
    /\ Shared \notin Contents
    /\ MaxEdits \in Nat
    /\ MaxRuns \in Nat

Networks == {"none", "mvpnet", "libvirt"}
Inventories ==
    {"all", "phase0", "phase1", "phase2", "phase4", "phase5"}
Files == Inventories \cup {"tfvars", "tofu"}
Dirs == Contents \cup {Shared}

VARIABLES
    isdir,      \* the inventory is a directory
    network,    \* network.type, "libvirt" for private and wireguard
    current,    \* the present content of the inventory
    inv,        \* its mtime
    clock,      \* the last mtime handed out
    edits,      \* edits so far
    mk,         \* mk[d]: d's Makefile
    file,       \* file[d][f]: what is left of generated file f in d
    pc,         \* where the running bootstrap.sh is
    run,        \* its number, counting from 1
    parsed,     \* the content ansible-playbook has parsed
    moved,      \* the inventory was edited since it was parsed
    dir,        \* artifact_dir
    rendered,   \* how many files of the plan are written
    found,      \* the Makefile path is reported to bootstrap.sh
    targets,    \* --make was given
    done,       \* the last bootstrap, if it ended well and no edit followed, else 0
    last        \* the last make that started its work

input  == <<isdir, network, current, inv, edits>>
script == <<pc, run, parsed, moved, dir, rendered, found, targets>>
vars   == <<input, clock, mk, file, script, done, last>>

\* What a file was generated from, and by which bootstrap; run 0: absent.
Absent(c) == [of |-> c, run |-> 0]
NoMakefile(c) == [of |-> c, run |-> 0, time |-> 0, torn |-> FALSE]
NoMake(c) == [by |-> "none", dir |-> Shared, now |-> c,
              mk |-> NoMakefile(c), file |-> [f \in Files |-> Absent(c)]]

\* The generated files, in the order of the tasks.
Plan(n) ==
    CASE n = "none"    -> <<"phase0", "phase5">>
      [] n = "mvpnet"  -> <<"all", "phase0", "phase1", "phase2", "phase4", "phase5">>
      [] n = "libvirt" -> <<"all", "phase0", "phase1", "phase2", "phase4", "phase5",
                            "tfvars", "tofu">>

Planned(n) == {Plan(n)[i] : i \in DOMAIN Plan(n)}

ConfigHash(c) == IF isdir THEN Shared ELSE c

Init ==
    /\ isdir \in BOOLEAN
    /\ network \in Networks
    /\ current \in Contents
    /\ inv = 1
    /\ clock = 1
    /\ edits = 0
    /\ mk = [d \in Dirs |-> NoMakefile(current)]
    /\ file = [d \in Dirs |-> [f \in Files |-> Absent(current)]]
    /\ pc = "idle"
    /\ run = 0
    /\ parsed = current
    /\ moved = FALSE
    /\ dir = Shared
    /\ rendered = 0
    /\ found = FALSE
    /\ targets = FALSE
    /\ done = 0
    /\ last = NoMake(current)

-------------------------------------------------------------------------------
(* The user.                                                               *)

\* Editing a file of a directory leaves the directory's mtime alone; adding or
\* replacing one does not.
Edit(c) ==
    /\ edits < MaxEdits
    /\ c # current
    /\ edits' = edits + 1
    /\ current' = c
    /\ clock' = clock + 1
    /\ inv' \in IF isdir THEN {inv, clock'} ELSE {clock'}
    /\ moved' = TRUE
    /\ done' = 0
    /\ UNCHANGED <<isdir, network, mk, file, pc, run, parsed, dir, rendered,
                   found, targets, last>>

\* Mutant of Accepted: a Makefile that is there is good.
AnyMakefile(d) == mk[d].run # 0

\* The Makefile's check, evaluated whenever it is parsed without FORCE.
Accepted(d) == mk[d].run # 0 /\ mk[d].time > inv

\* What the recipes of a make in directory d find.
Uses(who, d) == [by |-> who, dir |-> d, now |-> current, mk |-> mk[d], file |-> file[d]]

UserMake(d) ==
    /\ Accepted(d)
    /\ last' = Uses("user", d)
    /\ UNCHANGED <<input, clock, mk, file, script, done>>

-------------------------------------------------------------------------------
(* bootstrap.sh                                                            *)

Start(make) ==
    /\ pc = "idle"
    /\ run < MaxRuns
    /\ pc' = "settings"
    /\ run' = run + 1
    /\ rendered' = 0
    /\ found' = FALSE
    /\ targets' = make
    /\ done' = 0
    /\ UNCHANGED <<input, clock, mk, file, parsed, moved, dir, last>>

\* read_settings.yaml has returned the forks; bootstrap.yaml is started.
Parse ==
    /\ pc = "settings"
    /\ pc' = "prepare"
    /\ parsed' = current
    /\ moved' = FALSE
    /\ UNCHANGED <<input, clock, mk, file, run, dir, rendered, found, targets,
                   done, last>>

\* After bootstrap_cluster: the hash of what the inventory holds now.
ComputeHash ==
    /\ pc = "prepare"
    /\ pc' = "validate"
    /\ dir' = ConfigHash(current)
    /\ UNCHANGED <<input, clock, mk, file, run, parsed, moved, rendered, found,
                   targets, done, last>>

\* Directories made, configuration checked; the header's date makes the Makefile new.
GenerateMakefile ==
    /\ pc = "validate"
    /\ pc' = "render"
    /\ clock' = clock + 1
    /\ mk' = [mk EXCEPT ![dir] =
                [of |-> parsed, run |-> run, time |-> clock', torn |-> moved]]
    /\ UNCHANGED <<input, file, run, parsed, moved, dir, rendered, found, targets,
                   done, last>>

\* Mutant of Render: the longest list of files whatever the network.
RenderFull ==
    /\ pc = "render"
    /\ rendered < Len(Plan("libvirt"))
    /\ file' = [file EXCEPT ![dir][Plan("libvirt")[rendered + 1]] =
                  [of |-> parsed, run |-> run]]
    /\ rendered' = rendered + 1
    /\ UNCHANGED <<input, clock, mk, pc, run, parsed, moved, dir, found, targets,
                   done, last>>

\* Mutant of Render: what is there is not generated again.
RenderMissing ==
    /\ pc = "render"
    /\ rendered < Len(Plan(network))
    /\ LET f == Plan(network)[rendered + 1] IN
         file' = IF file[dir][f].run # 0 THEN file
                 ELSE [file EXCEPT ![dir][f] = [of |-> parsed, run |-> run]]
    /\ rendered' = rendered + 1
    /\ UNCHANGED <<input, clock, mk, pc, run, parsed, moved, dir, found, targets,
                   done, last>>

Render ==
    /\ pc = "render"
    /\ rendered < Len(Plan(network))
    /\ file' = [file EXCEPT ![dir][Plan(network)[rendered + 1]] =
                  [of |-> parsed, run |-> run]]
    /\ rendered' = rendered + 1
    /\ UNCHANGED <<input, clock, mk, pc, run, parsed, moved, dir, found, targets,
                   done, last>>

\* "Write Makefile path for caller discovery".
Discover ==
    /\ pc = "render"
    /\ rendered = Len(Plan(network))
    /\ pc' = "help"
    /\ found' = TRUE
    /\ UNCHANGED <<input, clock, mk, file, run, parsed, moved, dir, rendered,
                   targets, done, last>>

\* "make help" parses the Makefile, check included; the playbook is over.
Help ==
    /\ pc = "help"
    /\ Accepted(dir)
    /\ pc' = IF targets THEN "make" ELSE "idle"
    /\ done' = IF moved THEN 0 ELSE run
    /\ UNCHANGED <<input, clock, mk, file, run, parsed, moved, dir, rendered,
                   found, targets, last>>

\* make -C "$(dirname "$MAKEFILE")" $MAKE_TARGETS, if the check lets it.
ScriptMake ==
    /\ pc = "make"
    /\ found
    /\ Accepted(dir)
    /\ pc' = "idle"
    /\ last' = Uses("script", dir)
    /\ UNCHANGED <<input, clock, mk, file, run, parsed, moved, dir, rendered,
                   found, targets, done>>

\* A task or a check fails, or the user interrupts: "set -e" ends the script, and
\* the trap removes the report.
Fail ==
    /\ pc # "idle"
    /\ pc' = "idle"
    /\ found' = FALSE
    /\ UNCHANGED <<input, clock, mk, file, run, parsed, moved, dir, rendered,
                   targets, done, last>>

Next ==
    \/ \E c \in Contents : Edit(c)
    \/ \E d \in Dirs : UserMake(d)
    \/ \E make \in BOOLEAN : Start(make)
    \/ Parse \/ ComputeHash \/ GenerateMakefile \/ Render \/ Discover
    \/ Help \/ ScriptMake \/ Fail

Spec == Init /\ [][Next]_vars

-------------------------------------------------------------------------------
(* Properties.                                                             *)

GeneratedFile == [of : Contents, run : 0 .. MaxRuns]
Makefile == [of : Contents, run : 0 .. MaxRuns, time : Nat, torn : BOOLEAN]
Make == [by : {"none", "user", "script"}, dir : Dirs, now : Contents,
         mk : Makefile, file : [Files -> GeneratedFile]]

\* The variables have their types, and mtimes lie in the past.
TypeOK ==
    /\ isdir \in BOOLEAN
    /\ network \in Networks
    /\ current \in Contents
    /\ clock \in Nat
    /\ inv \in 1 .. clock
    /\ edits \in 0 .. MaxEdits
    /\ mk \in [Dirs -> Makefile]
    /\ \A d \in Dirs : mk[d].time <= clock
    /\ file \in [Dirs -> [Files -> GeneratedFile]]
    /\ pc \in {"idle", "settings", "prepare", "validate", "render", "help", "make"}
    /\ run \in 0 .. MaxRuns
    /\ parsed \in Contents
    /\ moved \in BOOLEAN
    /\ dir \in Dirs
    /\ rendered \in 0 .. Len(Plan(network))
    /\ found \in BOOLEAN
    /\ targets \in BOOLEAN
    /\ done \in 0 .. MaxRuns
    /\ last \in Make

\* Directory contents m and f come from one bootstrap that wrote all it should.
Whole(m, f) == \A x \in Planned(network) : f[x].run = m.run

\* Everything a recipe would read of m and f was generated from content c.
From(c, m, f) == m.of = c /\ \A x \in Planned(network) : f[x].of = c

\* Repeating bootstrap repairs: after one that ended well, with no edit since the
\* inventory was parsed, the artifact directory of the inventory is complete and
\* all from its present content, whatever failed bootstraps had left there.
Repaired ==
    done # 0 => /\ Whole(mk[ConfigHash(current)], file[ConfigHash(current)])
                /\ From(current, mk[ConfigHash(current)], file[ConfigHash(current)])

\* How far the Makefile's check goes: of an inventory that is a file, a make that
\* passes it uses the present content only, unless the inventory was edited while
\* the bootstrap that wrote the Makefile ran, or that bootstrap was cut short.
CheckSuffices ==
    last.by # "none" /\ ~isdir /\ ~last.mk.torn /\ Whole(last.mk, last.file)
        => From(last.now, last.mk, last.file)

===============================================================================

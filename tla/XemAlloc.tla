------------------------------- MODULE XemAlloc -------------------------------
(***************************************************************************)
(* tools/xem_alloc: allocation, listing and removal of testbed             *)
(* experiments.  A state file per experiment, created by a hard link so    *)
(* that only one process can create it, records what the user has          *)
(* allocated; the testbed itself (makebed, node_list) is external.         *)
(*                                                                         *)
(* Each process is one invocation of the tool.  All of them run at once,   *)
(* share the state directory and the testbed, and can be killed anywhere.  *)
(* Dry runs, which change nothing, are left out.                           *)
(***************************************************************************)
EXTENDS Integers, FiniteSets, FiniteSetsExt

CONSTANTS
    Exps,       \* experiments: a project, a file system and a tag
    Procs,      \* invocations of the tool
    Sizes,      \* the -m, -d and -c an alloc may be given
    None        \* no process

ASSUME XemAssumption ==
    /\ None \notin Procs
    /\ Sizes \subseteq [mds : Nat, ds : Nat \ {0}, cli : Nat \ {0}]

VARIABLES
    sfile,      \* sfile[e]: the process that linked e's state file, or None
    bed,        \* bed[e]: the nodes the testbed holds for e, by role
    job,        \* job[p]: p's command line
    pc,         \* pc[p]: where p is
    todo,       \* todo[p]: state files of p's directory listing not read yet
    seen,       \* seen[p]: experiments p found a valid state file for
    shown       \* shown[p][e]: the sizes p found for e

vars == <<sfile, bed, job, pc, todo, seen, shown>>

Job == [op : {"alloc", "remove", "list"}, exp : Exps, size : Sizes]
Zero == [mds |-> 0, ds |-> 0, cli |-> 0]

-------------------------------------------------------------------------------
(* Node layout.                                                            *)

\* Mutant of node_layout: the numbers start at 1.
ShiftedLayout(size) ==
    [ds  |-> 1 .. size.ds,
     cli |-> size.ds + 1 .. size.ds + size.cli,
     mds |-> size.ds + size.cli + 1 .. size.ds + size.cli + size.mds,
     total |-> size.mds + size.ds + size.cli]

\* Node numbers of each role.
node_layout(size) ==
    LET ds_last  == size.ds - 1
        cli_last == ds_last + size.cli
        mds_last == cli_last + size.mds
    IN  [ds  |-> 0 .. ds_last,
         cli |-> ds_last + 1 .. cli_last,
         mds |-> cli_last + 1 .. mds_last,
         total |-> size.mds + size.ds + size.cli]

\* What makebed is asked for: without metadata servers no mds range is given.
makebed_command(size) ==
    LET layout == node_layout(size)
        mds    == IF size.mds > 0 THEN layout.mds ELSE {}
    IN  [ds |-> layout.ds, cli |-> layout.cli, mds |-> mds,
         m2 |-> layout.ds \cup mds, total |-> layout.total]

NoBed == [ds |-> {}, cli |-> {}, mds |-> {}, m2 |-> {}, total |-> 0]

\* node_list names a role's n nodes role0 .. role<n-1>; the regular expression
\* ([0-9])+ captures the last digit of such a name.
Counted(nodes) ==
    IF nodes = {} THEN 0 ELSE Max({(i % 10) + 1 : i \in 0 .. Cardinality(nodes) - 1})

\* The sizes load_exp finds; node_list fails for an experiment without nodes.
load_exp(b) == [mds |-> Counted(b.mds), ds |-> Counted(b.ds), cli |-> Counted(b.cli)]

-------------------------------------------------------------------------------
Init ==
    /\ sfile = [e \in Exps |-> None]
    /\ bed = [e \in Exps |-> NoBed]
    /\ job \in [Procs -> Job]
    /\ pc = [p \in Procs |-> "start"]
    /\ todo = [p \in Procs |-> {}]
    /\ seen = [p \in Procs |-> {}]
    /\ shown = [p \in Procs |-> [e \in Exps |-> Zero]]

Goto(p, from, to) == pc[p] = from /\ pc' = [pc EXCEPT ![p] = to]

\* load_state lists the directory; a remove goes straight to makebed -r.
ListFiles(p) ==
    /\ job[p].op # "remove"
    /\ Goto(p, "start", "load")
    /\ todo' = [todo EXCEPT ![p] = {e \in Exps : sfile[e] # None}]
    /\ UNCHANGED <<sfile, bed, job, seen, shown>>

StartRemove(p) ==
    /\ job[p].op = "remove"
    /\ Goto(p, "start", "makebed -r")
    /\ UNCHANGED <<sfile, bed, job, todo, seen, shown>>

\* load_exp: a file that another process has unlinked since it was listed ends
\* the tool with an exception.
ReadGone(p) ==
    /\ \E e \in todo[p] : sfile[e] = None
    /\ Goto(p, "load", "failed")
    /\ UNCHANGED <<sfile, bed, job, todo, seen, shown>>

\* Otherwise it is read; no answer of node_list leaves the experiment out, a
\* failing node_list gives zero counts.
ReadFile(p, e) ==
    /\ pc[p] = "load"
    /\ e \in todo[p]
    /\ sfile[e] # None
    /\ todo' = [todo EXCEPT ![p] = @ \ {e}]
    /\ \/ UNCHANGED <<seen, shown>>
       \/ /\ seen' = [seen EXCEPT ![p] = @ \cup {e}]
          /\ \/ shown' = [shown EXCEPT ![p][e] = load_exp(bed[e])]
             \/ UNCHANGED shown
    /\ UNCHANGED <<sfile, bed, job, pc>>

PrintList(p) ==
    /\ job[p].op = "list"
    /\ todo[p] = {}
    /\ Goto(p, "load", "done")
    /\ UNCHANGED <<sfile, bed, job, todo, seen, shown>>

\* "already running"
Refuse(p) ==
    /\ job[p].op = "alloc"
    /\ todo[p] = {}
    /\ job[p].exp \in seen[p]
    /\ Goto(p, "load", "failed")
    /\ UNCHANGED <<sfile, bed, job, todo, seen, shown>>

\* Mutant of Link: renaming over the state file instead of linking to it.
LinkOver(p) ==
    /\ job[p].op = "alloc"
    /\ todo[p] = {}
    /\ job[p].exp \notin seen[p]
    /\ sfile' = [sfile EXCEPT ![job[p].exp] = p]
    /\ Goto(p, "load", "makebed")
    /\ UNCHANGED <<bed, job, todo, seen, shown>>

\* The hard link to a private file succeeds only where no state file exists.
Link(p) ==
    LET e == job[p].exp IN
    /\ job[p].op = "alloc"
    /\ todo[p] = {}
    /\ e \notin seen[p]
    /\ \/ /\ sfile[e] = None
          /\ sfile' = [sfile EXCEPT ![e] = p]
          /\ Goto(p, "load", "makebed")
       \/ /\ sfile[e] # None
          /\ UNCHANGED sfile
          /\ Goto(p, "load", "failed")
    /\ UNCHANGED <<bed, job, todo, seen, shown>>

\* makebed creates an experiment that does not exist, or fails.
Create(p) ==
    LET e == job[p].exp IN
    /\ bed[e] = NoBed
    /\ bed' = [bed EXCEPT ![e] = makebed_command(job[p].size)]

CreateBed(p) ==
    /\ Goto(p, "makebed", "done")
    /\ Create(p)
    /\ UNCHANGED <<sfile, job, todo, seen, shown>>

FailBed(p) ==
    /\ Goto(p, "makebed", "unlink")
    /\ UNCHANGED <<sfile, bed, job, todo, seen, shown>>

\* After a failed makebed the state file is unlinked, whoever linked it.
Unlink(p) ==
    /\ Goto(p, "unlink", "failed")
    /\ sfile' = [sfile EXCEPT ![job[p].exp] = None]
    /\ UNCHANGED <<bed, job, todo, seen, shown>>

\* makebed -r releases the nodes or fails; the state is cleared in both cases.
RemoveBed(p) ==
    /\ Goto(p, "makebed -r", "clear")
    /\ \/ bed' = [bed EXCEPT ![job[p].exp] = NoBed]
       \/ UNCHANGED bed
    /\ UNCHANGED <<sfile, job, todo, seen, shown>>

Clear(p) ==
    /\ Goto(p, "clear", "done")
    /\ sfile' = [sfile EXCEPT ![job[p].exp] = None]
    /\ UNCHANGED <<bed, job, todo, seen, shown>>

\* Mutant of Kill: an interrupt is treated like a failed makebed.
KillUnlinks(p) ==
    /\ pc[p] = "makebed"
    /\ pc' = [pc EXCEPT ![p] = "killed"]
    /\ Create(p) \/ UNCHANGED bed
    /\ sfile' = [sfile EXCEPT ![job[p].exp] = None]
    /\ UNCHANGED <<job, todo, seen, shown>>

\* The process is killed or interrupted; makebed may have done its work.
Kill(p) ==
    /\ pc[p] \notin {"done", "failed", "killed"}
    /\ pc' = [pc EXCEPT ![p] = "killed"]
    /\ \/ pc[p] = "makebed" /\ Create(p)
       \/ pc[p] = "makebed -r" /\ bed' = [bed EXCEPT ![job[p].exp] = NoBed]
       \/ UNCHANGED bed
    /\ UNCHANGED <<sfile, job, todo, seen, shown>>

Step(p) ==
    \/ ListFiles(p) \/ StartRemove(p) \/ ReadGone(p) \/ (\E e \in Exps : ReadFile(p, e))
    \/ PrintList(p) \/ Refuse(p) \/ Link(p) \/ CreateBed(p) \/ FailBed(p) \/ Unlink(p)
    \/ RemoveBed(p) \/ Clear(p) \/ Kill(p)

Next == \E p \in Procs : Step(p)

Spec == Init /\ [][Next]_vars

-------------------------------------------------------------------------------
(* Properties.                                                             *)

Place == {"start", "load", "makebed", "unlink", "makebed -r", "clear",
          "done", "failed", "killed"}

\* Types; the node numbers given to makebed are below the -n it is given.
TypeOK ==
    /\ sfile \in [Exps -> Procs \cup {None}]
    /\ bed \in [Exps -> [ds : SUBSET Nat, cli : SUBSET Nat, mds : SUBSET Nat,
                         m2 : SUBSET Nat, total : Nat]]
    /\ \A e \in Exps : bed[e].ds \cup bed[e].cli \cup bed[e].mds \cup bed[e].m2
                            \subseteq 0 .. bed[e].total - 1
    /\ job \in [Procs -> Job]
    /\ pc \in [Procs -> Place]
    /\ todo \in [Procs -> SUBSET Exps]
    /\ seen \in [Procs -> SUBSET Exps]

\* A remove of e has run to its end.
Removed(e) == \E p \in Procs : job[p].op = "remove" /\ job[p].exp = e /\ pc[p] = "done"

\* While an alloc creates its experiment, or cleans up after failing to, the
\* state file is its own: whoever passed the check of load_state at the same
\* time, two allocs never run makebed for one experiment, and a failed one never
\* unlinks another's record, unless a remove has cleared the record under it.
OwnRecord ==
    \A p \in Procs :
        pc[p] \in {"makebed", "unlink"} /\ ~Removed(job[p].exp)
        => sfile[job[p].exp] = p

\* Nodes are never held without a record, wherever a process is killed, unless
\* a remove has cleared the record after a makebed -r that failed or came first.
NoOrphanBed ==
    \A e \in Exps : bed[e] # NoBed /\ ~Removed(e) => sfile[e] # None

\* A record without nodes belongs to an alloc in progress or killed, or to a
\* remove that has released the nodes and not unlinked the record yet.
NoStaleRecord ==
    \A e \in Exps : sfile[e] # None /\ bed[e] = NoBed =>
        \/ pc[sfile[e]] \in {"makebed", "unlink", "killed"}
        \/ \E p \in Procs : /\ job[p].op = "remove"
                            /\ job[p].exp = e
                            /\ pc[p] \in {"clear", "done", "killed"}

\* Whatever the sizes asked for, the nodes of an experiment are 0 .. total-1,
\* each has exactly one role, every role has its number of nodes, and servers
\* get the m2 device while clients do not.
LayoutOf(b, size) ==
    /\ b.ds \cup b.cli \cup b.mds = 0 .. b.total - 1
    /\ b.ds \cap b.cli = {}
    /\ b.ds \cap b.mds = {}
    /\ b.cli \cap b.mds = {}
    /\ Cardinality(b.ds) = size.ds
    /\ Cardinality(b.cli) = size.cli
    /\ Cardinality(b.mds) = size.mds
    /\ b.m2 = (0 .. b.total - 1) \ b.cli

BedLayout ==
    \A e \in Exps : bed[e] # NoBed =>
        \E p \in Procs : job[p].exp = e /\ LayoutOf(bed[e], job[p].size)

===============================================================================

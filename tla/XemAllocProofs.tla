---------------------------- MODULE XemAllocProofs ----------------------------
(***************************************************************************)
(* Proofs about XemAlloc, for any number of experiments and of invocations *)
(* of the tool, any sizes, and kills anywhere: the node layout is a        *)
(* partition, an alloc in progress owns its state file until a remove ends *)
(* on its experiment, and until then nodes and records go together.        *)
(***************************************************************************)
EXTENDS XemAlloc, FiniteSetTheorems, TLAPS

\* Only an alloc is where an alloc can be, only a remove where a remove can be,
\* and a state file records the experiment of the alloc that linked it.
JobInv ==
    /\ \A p \in Procs :
        /\ pc[p] \in {"makebed", "unlink"} => job[p].op = "alloc"
        /\ pc[p] \in {"makebed -r", "clear"} => job[p].op = "remove"
    /\ \A e \in Exps : sfile[e] # None => job[sfile[e]].exp = e

\* No nodes are held while an alloc is creating them or has failed to.
IdleBed ==
    \A p \in Procs :
        pc[p] \in {"makebed", "unlink"} /\ ~Removed(job[p].exp)
        => bed[job[p].exp] = NoBed

IInv ==
    /\ TypeOK
    /\ JobInv
    /\ OwnRecord
    /\ NoOrphanBed
    /\ NoStaleRecord
    /\ IdleBed
    /\ BedLayout

-------------------------------------------------------------------------------
(* The node layout.                                                        *)

\* n consecutive numbers are n numbers.
LEMMA IntervalSize ==
    ASSUME NEW a \in Int, NEW n \in Nat
    PROVE  Cardinality(a .. a + n - 1) = n
  <1>1. a + n - 1 \in Int
    OBVIOUS
  <1>2. Cardinality(a .. a + n - 1)
            = IF a > a + n - 1 THEN 0 ELSE (a + n - 1) - a + 1
    BY <1>1, FS_Interval
  <1>3. (IF a > a + n - 1 THEN 0 ELSE (a + n - 1) - a + 1) = n
    OBVIOUS
  <1>4. QED
    BY <1>2, <1>3

\* Asking for nodes gives each number below the total exactly one role, every
\* role as many as were asked for, and m2 to all but the clients.
THEOREM LayoutPartition ==
    ASSUME NEW size \in Sizes
    PROVE  LayoutOf(makebed_command(size), size)
  <1>1. size.mds \in Nat /\ size.ds \in Nat \ {0} /\ size.cli \in Nat \ {0}
    BY XemAssumption
  <1> DEFINE b == makebed_command(size)
             c == size.ds + size.cli
             t == size.mds + size.ds + size.cli
  <1>2. /\ b.ds = 0 .. size.ds - 1
        /\ b.cli = size.ds .. c - 1
        /\ b.mds = IF size.mds > 0 THEN c .. t - 1 ELSE {}
        /\ b.m2 = b.ds \cup b.mds
        /\ b.total = t
    <2>1. size.ds - 1 + 1 = size.ds /\ size.ds - 1 + size.cli = c - 1
          /\ c - 1 + 1 = c /\ c - 1 + size.mds = t - 1
      BY <1>1
    <2>2. QED
      BY <2>1 DEF makebed_command, node_layout
  <1>3. b.mds = c .. t - 1
    BY <1>1, <1>2
  <1> HIDE DEF b
  <1>4. /\ b.ds \cup b.cli \cup b.mds = 0 .. b.total - 1
        /\ b.ds \cap b.cli = {}
        /\ b.ds \cap b.mds = {}
        /\ b.cli \cap b.mds = {}
    <2>1. c \in Nat /\ t \in Nat /\ 0 < size.ds /\ size.ds < c /\ c <= t
      BY <1>1
    <2> HIDE DEF c, t
    <2>2. 0 .. size.ds - 1 \cup size.ds .. c - 1 \cup c .. t - 1 = 0 .. t - 1
      BY <1>1, <2>1
    <2>3. /\ (0 .. size.ds - 1) \cap (size.ds .. c - 1) = {}
          /\ (0 .. size.ds - 1) \cap (c .. t - 1) = {}
          /\ (size.ds .. c - 1) \cap (c .. t - 1) = {}
      BY <1>1, <2>1
    <2>4. QED
      BY <1>2, <1>3, <2>2, <2>3
  <1>5. b.m2 = (0 .. b.total - 1) \ b.cli
    <2>1. b.ds \cup b.mds = (b.ds \cup b.cli \cup b.mds) \ b.cli
      BY <1>4
    <2>2. QED
      BY <1>2, <1>4, <2>1
  <1>6. Cardinality(b.ds) = size.ds
    <2>1. b.ds = 0 .. 0 + size.ds - 1
      BY <1>1, <1>2
    <2>2. QED
      BY <1>1, <2>1, IntervalSize
  <1>7. Cardinality(b.cli) = size.cli
    BY <1>1, <1>2, IntervalSize
  <1>8. Cardinality(b.mds) = size.mds
    <2>1. c \in Int /\ t - 1 = c + size.mds - 1 /\ size.mds \in Nat
      BY <1>1
    <2> HIDE DEF c, t
    <2>2. Cardinality(c .. c + size.mds - 1) = size.mds
      BY <2>1, IntervalSize
    <2>3. b.mds = c .. c + size.mds - 1
      BY <1>3, <2>1
    <2>4. QED
      BY <2>2, <2>3
  <1>9. LayoutOf(b, size)
    BY <1>4, <1>5, <1>6, <1>7, <1>8 DEF LayoutOf
  <1>10. QED
    BY <1>9 DEF b

\* makebed_command asks for something, of the type of bed.
LEMMA CommandShape ==
    ASSUME NEW size \in Sizes
    PROVE  /\ makebed_command(size) # NoBed
           /\ makebed_command(size) \in
                [ds : SUBSET Nat, cli : SUBSET Nat, mds : SUBSET Nat,
                 m2 : SUBSET Nat, total : Nat]
           /\ LET b == makebed_command(size)
              IN  b.ds \cup b.cli \cup b.mds \cup b.m2 \subseteq 0 .. b.total - 1
  <1>1. size.mds \in Nat /\ size.ds \in Nat \ {0} /\ size.cli \in Nat \ {0}
    BY XemAssumption
  <1>2. makebed_command(size).total > 0 /\ makebed_command(size).total \in Nat
    BY <1>1 DEF makebed_command, node_layout
  <1>3. makebed_command(size) # NoBed
    BY <1>2 DEF NoBed
  <1>4. LayoutOf(makebed_command(size), size)
    BY LayoutPartition
  <1> DEFINE b == makebed_command(size)
  <1>5. b = [ds |-> b.ds, cli |-> b.cli, mds |-> b.mds, m2 |-> b.m2, total |-> b.total]
    BY DEF makebed_command
  <1> HIDE DEF b
  <1>6. b.ds \cup b.cli \cup b.mds \cup b.m2 \subseteq 0 .. b.total - 1
    BY <1>4 DEF LayoutOf, b
  <1>7. /\ b.ds \in SUBSET Nat /\ b.cli \in SUBSET Nat
        /\ b.mds \in SUBSET Nat /\ b.m2 \in SUBSET Nat /\ b.total \in Nat
    <2>1. \A n \in 0 .. b.total - 1 : n \in Nat
      BY <1>2 DEF b
    <2>2. QED
      BY <1>2, <1>6, <2>1 DEF b
  <1>8. b \in [ds : SUBSET Nat, cli : SUBSET Nat, mds : SUBSET Nat,
               m2 : SUBSET Nat, total : Nat]
    BY <1>5, <1>7
  <1>9. QED
    BY <1>3, <1>6, <1>8 DEF b

-------------------------------------------------------------------------------
(* The state files and the nodes.                                          *)

\* A remove that has run to its end stays so.
LEMMA RemovedStays ==
    ASSUME TypeOK, [Next]_vars, NEW e \in Exps, Removed(e)
    PROVE  Removed(e)'
  <1>1. PICK q \in Procs : job[q].op = "remove" /\ job[q].exp = e /\ pc[q] = "done"
    BY DEF Removed
  <1>2. job' = job
    BY DEF Next, Step, ListFiles, StartRemove, ReadGone, ReadFile, PrintList, Refuse, Link,
       CreateBed, FailBed, Unlink, RemoveBed, Clear, Kill, vars
  <1>3. pc'[q] = "done"
    <2>1. CASE UNCHANGED vars
      BY <1>1, <2>1 DEF vars
    <2>2. ASSUME NEW p \in Procs, Step(p) PROVE pc'[q] = "done"
      BY <1>1, <2>2 DEF TypeOK, Step, ListFiles, StartRemove, ReadGone, ReadFile, PrintList,
         Refuse, Link, CreateBed, FailBed, Unlink, RemoveBed, Clear, Kill, Goto
    <2>3. QED
      BY <2>1, <2>2 DEF Next
  <1>4. QED
    BY <1>1, <1>2, <1>3 DEF Removed

LEMMA IInvInit == Init => IInv
  <1> SUFFICES ASSUME Init PROVE IInv
    OBVIOUS
  <1>1. TypeOK
    BY DEF Init, TypeOK, NoBed, Place
  <1>2. JobInv /\ OwnRecord /\ NoOrphanBed /\ NoStaleRecord /\ IdleBed /\ BedLayout
    BY DEF Init, JobInv, OwnRecord, NoOrphanBed, NoStaleRecord, IdleBed, BedLayout
  <1>3. QED
    BY <1>1, <1>2 DEF IInv

\* Typing, and which commands can be where.
LEMMA TypeStep == TypeOK /\ JobInv /\ [Next]_vars => TypeOK' /\ JobInv'
  <1> SUFFICES ASSUME TypeOK, JobInv, [Next]_vars
               PROVE  TypeOK' /\ JobInv'
    OBVIOUS
  <1>0. ASSUME NEW p \in Procs
        PROVE  job[p].exp \in Exps /\ job[p].size \in Sizes
    BY DEF TypeOK, Job
  <1> DEFINE BedOK ==
        /\ bed \in [Exps -> [ds : SUBSET Nat, cli : SUBSET Nat, mds : SUBSET Nat,
                             m2 : SUBSET Nat, total : Nat]]
        /\ \A e \in Exps : bed[e].ds \cup bed[e].cli \cup bed[e].mds \cup bed[e].m2
                                \subseteq 0 .. bed[e].total - 1
  <1>b. ASSUME NEW p \in Procs, bed' = bed \/ Create(p) \/ bed' = [bed EXCEPT ![job[p].exp] = NoBed]
        PROVE  BedOK'
    <2>1. CASE bed' = bed
      BY <2>1 DEF TypeOK
    <2>2. CASE Create(p)
      BY <2>2, <1>0, CommandShape DEF Create, TypeOK
    <2>3. CASE bed' = [bed EXCEPT ![job[p].exp] = NoBed]
      <3>1. /\ NoBed \in [ds : SUBSET Nat, cli : SUBSET Nat, mds : SUBSET Nat,
                          m2 : SUBSET Nat, total : Nat]
            /\ NoBed.ds \cup NoBed.cli \cup NoBed.mds \cup NoBed.m2
                    \subseteq 0 .. NoBed.total - 1
        BY DEF NoBed
      <3>2. QED
        BY <1>0, <2>3, <3>1 DEF TypeOK
    <2>4. QED
      BY <1>b, <2>1, <2>2, <2>3
  <1> HIDE DEF BedOK
  <1>1. ASSUME NEW p \in Procs,
               ListFiles(p) \/ StartRemove(p) \/ ReadGone(p) \/ (\E e \in Exps : ReadFile(p, e))
                 \/ PrintList(p) \/ Refuse(p)
        PROVE  TypeOK' /\ JobInv'
    <2>1. UNCHANGED <<sfile, bed, job>>
      BY <1>1 DEF ListFiles, StartRemove, ReadGone, ReadFile, PrintList, Refuse
    <2>2. pc' \in [Procs -> Place]
      BY <1>1 DEF TypeOK, Place, ListFiles, StartRemove, ReadGone, ReadFile, PrintList,
         Refuse, Goto
    <2>3. todo' \in [Procs -> SUBSET Exps] /\ seen' \in [Procs -> SUBSET Exps]
      <3>1. ASSUME NEW e \in Exps, ReadFile(p, e)
            PROVE  todo' \in [Procs -> SUBSET Exps] /\ seen' \in [Procs -> SUBSET Exps]
        <4>1. todo[p] \ {e} \in SUBSET Exps /\ seen[p] \cup {e} \in SUBSET Exps
          BY DEF TypeOK
        <4>2. todo' = [todo EXCEPT ![p] = todo[p] \ {e}]
          BY <3>1 DEF ReadFile
        <4>3. seen' = seen \/ seen' = [seen EXCEPT ![p] = seen[p] \cup {e}]
          BY <3>1 DEF ReadFile
        <4>4. QED
          BY <4>1, <4>2, <4>3 DEF TypeOK
      <3>2. CASE ListFiles(p)
        BY <3>2 DEF TypeOK, ListFiles
      <3>3. QED
        BY <1>1, <3>1, <3>2 DEF TypeOK, StartRemove, ReadGone, PrintList, Refuse
    <2>4. TypeOK'
      BY <2>1, <2>2, <2>3, <1>b DEF TypeOK, BedOK
    <2>5. JobInv'
      BY <1>1, <2>1 DEF TypeOK, JobInv, ListFiles, StartRemove, ReadGone, ReadFile,
         PrintList, Refuse, Goto
    <2>6. QED
      BY <2>4, <2>5
  <1>2. ASSUME NEW p \in Procs, Link(p) PROVE TypeOK' /\ JobInv'
    <2>0. /\ job[p].op = "alloc"
          /\ \/ /\ sfile' = [sfile EXCEPT ![job[p].exp] = p]
                /\ pc' = [pc EXCEPT ![p] = "makebed"]
             \/ /\ sfile' = sfile
                /\ pc' = [pc EXCEPT ![p] = "failed"]
          /\ UNCHANGED <<bed, job, todo, seen, shown>>
      BY <1>2 DEF Link, Goto
    <2>1. BedOK'
      BY <2>0, <1>b
    <2>2. sfile' \in [Exps -> Procs \cup {None}] /\ pc' \in [Procs -> Place]
      <3>1. sfile \in [Exps -> Procs \cup {None}] /\ pc \in [Procs -> Place]
        BY DEF TypeOK
      <3>2. "makebed" \in Place /\ "failed" \in Place
        BY DEF Place
      <3>3. pc' \in [Procs -> Place]
        BY <2>0, <3>1, <3>2
      <3>4. sfile' \in [Exps -> Procs \cup {None}]
        BY <2>0, <3>1
      <3>5. QED
        BY <3>3, <3>4
    <2>5. TypeOK'
      BY <2>0, <2>1, <2>2 DEF TypeOK, BedOK
    <2>3. JobInv'
      <3>1. \A q \in Procs : pc'[q] = pc[q] \/ (q = p /\ pc'[p] \in {"makebed", "failed"})
        BY <2>0 DEF TypeOK
      <3>2. \A e \in Exps : sfile'[e] = sfile[e] \/ (e = job[p].exp /\ sfile'[e] = p)
        BY <1>0, <2>0 DEF TypeOK
      <3>3. QED
        BY <2>0, <3>1, <3>2 DEF JobInv
    <2>4. QED
      BY <2>3, <2>5
  <1>3. ASSUME NEW p \in Procs, CreateBed(p) \/ FailBed(p) PROVE TypeOK' /\ JobInv'
    <2>1. BedOK'
      BY <1>3, <1>b DEF CreateBed, FailBed
    <2>2. TypeOK'
      BY <1>3, <2>1 DEF CreateBed, FailBed, Goto, TypeOK, Place, BedOK
    <2>3. JobInv'
      BY <1>3 DEF CreateBed, FailBed, Goto, TypeOK, JobInv
    <2>4. QED
      BY <2>2, <2>3
  <1>4. ASSUME NEW p \in Procs, Unlink(p) \/ Clear(p) PROVE TypeOK' /\ JobInv'
    <2>1. BedOK'
      BY <1>4, <1>b DEF Unlink, Clear
    <2>2. TypeOK'
      BY <1>0, <1>4, <2>1 DEF Unlink, Clear, Goto, TypeOK, Place, BedOK
    <2>3. JobInv'
      BY <1>0, <1>4 DEF Unlink, Clear, Goto, TypeOK, JobInv
    <2>4. QED
      BY <2>2, <2>3
  <1>5. ASSUME NEW p \in Procs, RemoveBed(p) \/ Kill(p) PROVE TypeOK' /\ JobInv'
    <2>1. BedOK'
      BY <1>5, <1>b DEF RemoveBed, Kill
    <2>2. TypeOK'
      BY <1>5, <2>1 DEF RemoveBed, Kill, Goto, TypeOK, Place, BedOK
    <2>3. JobInv'
      BY <1>5 DEF RemoveBed, Kill, Goto, TypeOK, JobInv
    <2>4. QED
      BY <2>2, <2>3
  <1>6. CASE UNCHANGED vars
    BY <1>6 DEF vars, TypeOK, JobInv
  <1>7. QED
    BY <1>1, <1>2, <1>3, <1>4, <1>5, <1>6 DEF Next, Step

\* One process moves on its own, and touches at most its own experiment's record.
LEMMA OwnStep ==
    ASSUME IInv, [Next]_vars
    PROVE  OwnRecord' /\ IdleBed'
  <1>0. /\ sfile \in [Exps -> Procs \cup {None}]
        /\ pc \in [Procs -> Place]
        /\ DOMAIN bed = Exps
        /\ \A p \in Procs : job[p].exp \in Exps /\ job[p].size \in Sizes
        /\ job' = job
    <2>1. job' = job
      BY DEF Next, Step, ListFiles, StartRemove, ReadGone, ReadFile, PrintList, Refuse, Link,
         CreateBed, FailBed, Unlink, RemoveBed, Clear, Kill, vars
    <2>2. QED
      BY <2>1 DEF IInv, TypeOK, Job
  <1>1. ASSUME NEW e \in Exps, ~Removed(e)' PROVE ~Removed(e)
    BY <1>1, RemovedStays DEF IInv
  <1>2. ASSUME NEW p \in Procs, NEW q \in Procs, p # q, job[p].exp = job[q].exp,
               pc[p] \in {"makebed", "unlink"}, pc[q] \in {"makebed", "unlink"}
        PROVE  Removed(job[p].exp)
    BY <1>2 DEF IInv, OwnRecord
  <1>3. ASSUME UNCHANGED <<sfile, bed>>,
               \A q \in Procs : pc'[q] \in {"makebed", "unlink"}
                                    => pc[q] \in {"makebed", "unlink"}
        PROVE  OwnRecord' /\ IdleBed'
    BY <1>0, <1>1, <1>3 DEF IInv, OwnRecord, IdleBed
  <1>4. ASSUME NEW p \in Procs,
               ListFiles(p) \/ StartRemove(p) \/ ReadGone(p) \/ (\E e \in Exps : ReadFile(p, e))
                 \/ PrintList(p) \/ Refuse(p) \/ FailBed(p)
        PROVE  OwnRecord' /\ IdleBed'
    BY <1>0, <1>3, <1>4 DEF ListFiles, StartRemove, ReadGone, ReadFile, PrintList, Refuse,
       FailBed, Goto
  <1>5. ASSUME NEW p \in Procs, Link(p) PROVE OwnRecord' /\ IdleBed'
    <2>1. CASE sfile' = sfile /\ pc' = [pc EXCEPT ![p] = "failed"]
      BY <1>0, <1>3, <1>5, <2>1 DEF Link
    <2>2. CASE /\ sfile[job[p].exp] = None
               /\ sfile' = [sfile EXCEPT ![job[p].exp] = p]
               /\ pc' = [pc EXCEPT ![p] = "makebed"]
      <3>1. bed' = bed
        BY <1>5 DEF Link
      <3>2. ASSUME NEW q \in Procs, pc'[q] \in {"makebed", "unlink"}, ~Removed(job[q].exp)'
            PROVE  sfile'[job[q].exp] = q /\ bed[job[q].exp] = NoBed
        <4>1. ~Removed(job[q].exp)
          BY <1>0, <1>1, <3>2
        <4>2. CASE q = p
          BY <1>0, <2>2, <4>1, <4>2 DEF IInv, NoOrphanBed
        <4>3. CASE q # p
          <5>1. pc[q] \in {"makebed", "unlink"}
            BY <1>0, <2>2, <3>2, <4>3
          <5>2. sfile[job[q].exp] = q /\ bed[job[q].exp] = NoBed
            BY <4>1, <5>1 DEF IInv, OwnRecord, IdleBed
          <5>3. job[q].exp # job[p].exp
            BY <2>2, <5>2, XemAssumption
          <5>4. QED
            BY <1>0, <2>2, <5>2, <5>3
        <4>4. QED
          BY <4>2, <4>3
      <3>3. QED
        BY <1>0, <3>1, <3>2 DEF OwnRecord, IdleBed
    <2>3. QED
      BY <1>5, <2>1, <2>2 DEF Link, Goto
  <1>6. ASSUME NEW p \in Procs,
               sfile' = sfile,
               bed' = bed \/ bed' = [bed EXCEPT ![job[p].exp] = NoBed]
                 \/ (pc[p] = "makebed" /\ Create(p)),
               pc'[p] \notin {"makebed", "unlink"},
               \A q \in Procs \ {p} : pc'[q] = pc[q]
        PROVE  OwnRecord' /\ IdleBed'
    <2>1. ASSUME NEW q \in Procs, pc'[q] \in {"makebed", "unlink"}, ~Removed(job[q].exp)'
          PROVE  sfile'[job[q].exp] = q /\ bed'[job[q].exp] = NoBed
      <3>1. q # p /\ pc[q] \in {"makebed", "unlink"} /\ ~Removed(job[q].exp)
        BY <1>0, <1>1, <1>6, <2>1
      <3>2. sfile[job[q].exp] = q /\ bed[job[q].exp] = NoBed
        BY <3>1 DEF IInv, OwnRecord, IdleBed
      <3>3. bed'[job[q].exp] = NoBed
        <4>1. CASE pc[p] = "makebed" /\ Create(p)
          <5>1. job[p].exp # job[q].exp
            BY <1>2, <3>1, <4>1
          <5>2. QED
            BY <1>0, <3>2, <4>1, <5>1 DEF Create
        <4>2. CASE bed' = bed \/ bed' = [bed EXCEPT ![job[p].exp] = NoBed]
          BY <1>0, <3>2, <4>2
        <4>3. QED
          BY <1>6, <4>1, <4>2
      <3>4. QED
        BY <1>6, <3>2, <3>3
    <2>2. QED
      BY <1>0, <2>1 DEF OwnRecord, IdleBed
  <1>7. ASSUME NEW p \in Procs, CreateBed(p) \/ RemoveBed(p) \/ Kill(p)
        PROVE  OwnRecord' /\ IdleBed'
    <2>1. pc'[p] \notin {"makebed", "unlink"} /\ \A q \in Procs \ {p} : pc'[q] = pc[q]
      BY <1>0, <1>7 DEF CreateBed, RemoveBed, Kill, Goto
    <2>2. /\ sfile' = sfile
          /\ \/ bed' = bed \/ bed' = [bed EXCEPT ![job[p].exp] = NoBed]
             \/ pc[p] = "makebed" /\ Create(p)
      BY <1>7 DEF CreateBed, RemoveBed, Kill, Goto
    <2>3. QED
      BY <1>6, <2>1, <2>2
  <1>8. ASSUME NEW p \in Procs, Unlink(p) \/ Clear(p)
        PROVE  OwnRecord' /\ IdleBed'
    <2>1. /\ bed' = bed
          /\ sfile' = [sfile EXCEPT ![job[p].exp] = None]
          /\ pc'[p] \notin {"makebed", "unlink"}
          /\ \A q \in Procs \ {p} : pc'[q] = pc[q]
      BY <1>0, <1>8 DEF Unlink, Clear, Goto
    <2>2. ASSUME NEW q \in Procs, pc'[q] \in {"makebed", "unlink"}, ~Removed(job[q].exp)'
          PROVE  sfile'[job[q].exp] = q /\ bed'[job[q].exp] = NoBed
      <3>1. q # p /\ pc[q] \in {"makebed", "unlink"} /\ ~Removed(job[q].exp)
        BY <1>0, <1>1, <2>1, <2>2
      <3>2. job[p].exp # job[q].exp
        <4>1. CASE Unlink(p)
          BY <1>2, <3>1, <4>1 DEF Unlink, Goto
        <4>2. CASE Clear(p)
          <5>1. job[p].op = "remove" /\ pc'[p] = "done"
            BY <1>0, <4>2 DEF Clear, Goto, IInv, JobInv
          <5>2. Removed(job[p].exp)'
            BY <1>0, <5>1 DEF Removed
          <5>3. QED
            BY <1>0, <2>2, <5>2
        <4>3. QED
          BY <1>8, <4>1, <4>2
      <3>3. sfile[job[q].exp] = q /\ bed[job[q].exp] = NoBed
        BY <3>1 DEF IInv, OwnRecord, IdleBed
      <3>4. QED
        BY <1>0, <2>1, <3>2, <3>3
    <2>3. QED
      BY <1>0, <2>2 DEF OwnRecord, IdleBed
  <1>9. CASE UNCHANGED vars
    BY <1>3, <1>9 DEF vars
  <1>10. QED
    BY <1>4, <1>5, <1>7, <1>8, <1>9 DEF Next, Step

LEMMA RecordStep ==
    ASSUME IInv, [Next]_vars
    PROVE  NoOrphanBed' /\ NoStaleRecord' /\ BedLayout'
  <1>0. /\ sfile \in [Exps -> Procs \cup {None}]
        /\ pc \in [Procs -> Place]
        /\ DOMAIN bed = Exps
        /\ \A p \in Procs : job[p].exp \in Exps /\ job[p].size \in Sizes
        /\ job' = job
    <2>1. job' = job
      BY DEF Next, Step, ListFiles, StartRemove, ReadGone, ReadFile, PrintList, Refuse, Link,
         CreateBed, FailBed, Unlink, RemoveBed, Clear, Kill, vars
    <2>2. QED
      BY <2>1 DEF IInv, TypeOK, Job
  <1>1. ASSUME NEW e \in Exps, ~Removed(e)' PROVE ~Removed(e)
    BY <1>1, RemovedStays DEF IInv
  <1>2. ASSUME NEW e \in Exps, sfile[e] # None
        PROVE  sfile[e] \in Procs /\ job[sfile[e]].exp = e
    BY <1>0, <1>2 DEF IInv, JobInv
  <1>h. ASSUME NEW e \in Exps, sfile[e] # None, bed[e] = NoBed,
               \A q \in Procs : pc[q] # "makebed -r" => pc'[q] = pc[q]
        PROVE  \/ pc'[sfile[e]] \in {"makebed", "unlink", "killed"}
               \/ \E p \in Procs : /\ job[p].op = "remove"
                                   /\ job[p].exp = e
                                   /\ pc'[p] \in {"clear", "done", "killed"}
    <2>1. CASE pc[sfile[e]] \in {"makebed", "unlink", "killed"}
      BY <1>2, <1>h, <2>1
    <2>2. CASE \E p \in Procs : /\ job[p].op = "remove"
                                /\ job[p].exp = e
                                /\ pc[p] \in {"clear", "done", "killed"}
      BY <1>h, <2>2
    <2>3. QED
      BY <1>h, <2>1, <2>2 DEF IInv, NoStaleRecord
  \* Steps of a process that leave records and nodes alone.
  <1>3. ASSUME UNCHANGED <<sfile, bed>>,
               \A q \in Procs : \/ pc'[q] = pc[q]
                                \/ pc[q] \in {"start", "load"}
                                \/ pc[q] = "makebed" /\ pc'[q] = "unlink"
                                \/ pc'[q] = "killed"
        PROVE  NoOrphanBed' /\ NoStaleRecord' /\ BedLayout'
    <2>1. NoOrphanBed' /\ BedLayout'
      BY <1>0, <1>1, <1>3 DEF IInv, NoOrphanBed, BedLayout
    <2>2. ASSUME NEW e \in Exps, sfile[e] # None, bed[e] = NoBed
          PROVE  \/ pc'[sfile[e]] \in {"makebed", "unlink", "killed"}
                 \/ \E p \in Procs : /\ job[p].op = "remove"
                                     /\ job[p].exp = e
                                     /\ pc'[p] \in {"clear", "done", "killed"}
      <3>1. sfile[e] \in Procs
        BY <1>2, <2>2
      <3>2. CASE pc[sfile[e]] \in {"makebed", "unlink", "killed"}
        BY <1>3, <3>1, <3>2
      <3>3. CASE \E p \in Procs : /\ job[p].op = "remove"
                                  /\ job[p].exp = e
                                  /\ pc[p] \in {"clear", "done", "killed"}
        BY <1>3, <3>3
      <3>4. QED
        BY <2>2, <3>2, <3>3 DEF IInv, NoStaleRecord
    <2>3. QED
      BY <1>0, <1>3, <2>1, <2>2 DEF NoStaleRecord
  <1>4. ASSUME NEW p \in Procs,
               ListFiles(p) \/ StartRemove(p) \/ ReadGone(p) \/ (\E e \in Exps : ReadFile(p, e))
                 \/ PrintList(p) \/ Refuse(p) \/ FailBed(p)
        PROVE  NoOrphanBed' /\ NoStaleRecord' /\ BedLayout'
    BY <1>0, <1>3, <1>4 DEF ListFiles, StartRemove, ReadGone, ReadFile, PrintList, Refuse,
       FailBed, Goto
  <1>5. ASSUME NEW p \in Procs, Link(p)
        PROVE  NoOrphanBed' /\ NoStaleRecord' /\ BedLayout'
    <2>1. CASE sfile' = sfile /\ pc' = [pc EXCEPT ![p] = "failed"] /\ pc[p] = "load"
      BY <1>0, <1>3, <1>5, <2>1 DEF Link
    <2>2. CASE /\ sfile[job[p].exp] = None
               /\ sfile' = [sfile EXCEPT ![job[p].exp] = p]
               /\ pc' = [pc EXCEPT ![p] = "makebed"]
               /\ pc[p] = "load"
      <3>1. bed' = bed
        BY <1>5 DEF Link
      <3>2. NoOrphanBed'
        BY <1>0, <1>1, <2>2, <3>1, XemAssumption DEF IInv, NoOrphanBed
      <3>3. BedLayout'
        BY <1>0, <3>1 DEF IInv, BedLayout
      <3>4. ASSUME NEW e \in Exps, sfile'[e] # None, bed[e] = NoBed
            PROVE  \/ pc'[sfile'[e]] \in {"makebed", "unlink", "killed"}
                   \/ \E q \in Procs : /\ job[q].op = "remove"
                                       /\ job[q].exp = e
                                       /\ pc'[q] \in {"clear", "done", "killed"}
        <4>1. CASE e = job[p].exp
          BY <1>0, <2>2, <4>1
        <4>2. CASE e # job[p].exp
          <5>1. sfile'[e] = sfile[e] /\ sfile[e] \in Procs
            BY <1>0, <1>2, <2>2, <3>4, <4>2
          <5>2. \A q \in Procs : pc[q] # "load" => pc'[q] = pc[q]
            BY <1>0, <2>2
          <5>3. QED
            BY <3>4, <5>1, <5>2 DEF IInv, NoStaleRecord
        <4>3. QED
          BY <4>1, <4>2
      <3>5. QED
        BY <1>0, <3>1, <3>2, <3>3, <3>4 DEF NoStaleRecord
    <2>3. QED
      BY <1>5, <2>1, <2>2 DEF Link, Goto
  \* An alloc's nodes appear: it holds the record, unless a remove has ended.
  <1>6. ASSUME NEW p \in Procs, pc[p] = "makebed", Create(p), sfile' = sfile,
               \A q \in Procs \ {p} : pc'[q] = pc[q]
        PROVE  NoOrphanBed' /\ NoStaleRecord' /\ BedLayout'
    <2>1. /\ bed'[job[p].exp] = makebed_command(job[p].size)
          /\ \A e \in Exps \ {job[p].exp} : bed'[e] = bed[e]
          /\ bed'[job[p].exp] # NoBed
      BY <1>0, <1>6, CommandShape DEF Create
    <2>2. ~Removed(job[p].exp) => sfile[job[p].exp] # None
      BY <1>0, <1>6, XemAssumption DEF IInv, OwnRecord
    <2>3. NoOrphanBed'
      BY <1>0, <1>1, <1>6, <2>1, <2>2 DEF IInv, NoOrphanBed
    <2>4. ASSUME NEW e \in Exps, sfile[e] # None, bed'[e] = NoBed
          PROVE  \/ pc'[sfile[e]] \in {"makebed", "unlink", "killed"}
                 \/ \E q \in Procs : /\ job[q].op = "remove"
                                     /\ job[q].exp = e
                                     /\ pc'[q] \in {"clear", "done", "killed"}
      <3>1. e # job[p].exp /\ bed[e] = NoBed
        BY <2>1, <2>4
      <3>2. sfile[e] \in Procs \ {p}
        BY <1>2, <2>4, <3>1
      <3>3. QED
        BY <1>6, <2>4, <3>1, <3>2 DEF IInv, NoStaleRecord
    <2>5. BedLayout'
      BY <1>0, <2>1, LayoutPartition DEF IInv, BedLayout
    <2>6. QED
      BY <1>0, <1>6, <2>3, <2>4, <2>5 DEF NoStaleRecord
  \* A remove releases the nodes: until it clears the record, it is on its way.
  <1>7. ASSUME NEW p \in Procs, job[p].op = "remove", sfile' = sfile,
               bed' = [bed EXCEPT ![job[p].exp] = NoBed],
               pc[p] = "makebed -r", pc'[p] \in {"clear", "killed"},
               \A q \in Procs \ {p} : pc'[q] = pc[q]
        PROVE  NoOrphanBed' /\ NoStaleRecord' /\ BedLayout'
    <2>1. \A e \in Exps : bed'[e] = IF e = job[p].exp THEN NoBed ELSE bed[e]
      BY <1>0, <1>7
    <2>2. NoOrphanBed' /\ BedLayout'
      BY <1>0, <1>1, <1>7, <2>1 DEF IInv, NoOrphanBed, BedLayout
    <2>3. ASSUME NEW e \in Exps, sfile[e] # None, bed'[e] = NoBed
          PROVE  \/ pc'[sfile[e]] \in {"makebed", "unlink", "killed"}
                 \/ \E q \in Procs : /\ job[q].op = "remove"
                                     /\ job[q].exp = e
                                     /\ pc'[q] \in {"clear", "done", "killed"}
      <3>1. CASE e = job[p].exp
        BY <1>7, <3>1
      <3>2. CASE e # job[p].exp
        <4>1. bed[e] = NoBed /\ sfile[e] \in Procs
          BY <1>2, <2>1, <2>3, <3>2
        <4>2. \A q \in Procs : pc[q] # "makebed -r" => pc'[q] = pc[q]
          BY <1>7
        <4>3. QED
          BY <1>h, <2>3, <4>1, <4>2
      <3>3. QED
        BY <3>1, <3>2
    <2>4. QED
      BY <1>0, <1>7, <2>2, <2>3 DEF NoStaleRecord
  <1>8. ASSUME NEW p \in Procs, CreateBed(p)
        PROVE  NoOrphanBed' /\ NoStaleRecord' /\ BedLayout'
    BY <1>0, <1>6, <1>8 DEF CreateBed, Goto
  <1>9. ASSUME NEW p \in Procs, RemoveBed(p)
        PROVE  NoOrphanBed' /\ NoStaleRecord' /\ BedLayout'
    <2>1. /\ job[p].op = "remove" /\ pc[p] = "makebed -r" /\ pc'[p] = "clear"
          /\ \A q \in Procs \ {p} : pc'[q] = pc[q]
          /\ sfile' = sfile
      BY <1>0, <1>9 DEF RemoveBed, Goto, IInv, JobInv
    <2>2. CASE bed' = [bed EXCEPT ![job[p].exp] = NoBed]
      BY <1>7, <2>1, <2>2
    <2>3. CASE bed' = bed
      <3>1. NoOrphanBed' /\ BedLayout'
        BY <1>0, <1>1, <2>1, <2>3 DEF IInv, NoOrphanBed, BedLayout
      <3>2. \A q \in Procs : pc[q] # "makebed -r" => pc'[q] = pc[q]
        BY <2>1
      <3>4. NoStaleRecord'
        BY <1>0, <1>h, <2>1, <2>3, <3>2 DEF NoStaleRecord
      <3>5. QED
        BY <3>1, <3>4
    <2>4. QED
      BY <1>9, <2>2, <2>3 DEF RemoveBed
  <1>10. ASSUME NEW p \in Procs, Kill(p)
         PROVE  NoOrphanBed' /\ NoStaleRecord' /\ BedLayout'
    <2>1. /\ pc'[p] = "killed" /\ sfile' = sfile
          /\ \A q \in Procs \ {p} : pc'[q] = pc[q]
      BY <1>0, <1>10 DEF Kill
    <2>2. CASE pc[p] = "makebed" /\ Create(p)
      BY <1>6, <2>1, <2>2
    <2>3. CASE pc[p] = "makebed -r" /\ bed' = [bed EXCEPT ![job[p].exp] = NoBed]
      BY <1>7, <2>1, <2>3 DEF IInv, JobInv
    <2>4. CASE bed' = bed
      BY <1>3, <2>1, <2>4
    <2>5. QED
      BY <1>10, <2>2, <2>3, <2>4 DEF Kill
  <1>11. ASSUME NEW p \in Procs, Unlink(p) \/ Clear(p)
         PROVE  NoOrphanBed' /\ NoStaleRecord' /\ BedLayout'
    <2>1. /\ bed' = bed
          /\ \A e \in Exps : sfile'[e] = IF e = job[p].exp THEN None ELSE sfile[e]
          /\ \A q \in Procs \ {p} : pc'[q] = pc[q]
      BY <1>0, <1>11 DEF Unlink, Clear, Goto
    <2>2. ~Removed(job[p].exp)' => bed[job[p].exp] = NoBed
      <3>1. CASE Unlink(p)
        BY <1>0, <1>1, <3>1 DEF Unlink, Goto, IInv, IdleBed
      <3>2. CASE Clear(p)
        <4>1. job[p].op = "remove" /\ pc'[p] = "done"
          BY <1>0, <3>2 DEF Clear, Goto, IInv, JobInv
        <4>2. QED
          BY <1>0, <4>1 DEF Removed
      <3>3. QED
        BY <1>11, <3>1, <3>2
    <2>3. NoOrphanBed' /\ BedLayout'
      BY <1>0, <1>1, <2>1, <2>2 DEF IInv, NoOrphanBed, BedLayout
    <2>4. ASSUME NEW e \in Exps, sfile'[e] # None, bed[e] = NoBed
          PROVE  \/ pc'[sfile'[e]] \in {"makebed", "unlink", "killed"}
                 \/ \E q \in Procs : /\ job[q].op = "remove"
                                     /\ job[q].exp = e
                                     /\ pc'[q] \in {"clear", "done", "killed"}
      <3>1. e # job[p].exp /\ sfile'[e] = sfile[e]
        BY <2>1, <2>4
      <3>2. sfile[e] \in Procs \ {p}
        BY <1>2, <2>4, <3>1
      <3>3. \A q \in Procs : job[q].exp = e => q # p
        BY <3>1
      <3>4. QED
        BY <2>1, <2>4, <3>1, <3>2, <3>3 DEF IInv, NoStaleRecord
    <2>5. QED
      BY <1>0, <2>1, <2>3, <2>4 DEF NoStaleRecord
  <1>12. CASE UNCHANGED vars
    BY <1>3, <1>12 DEF vars
  <1>13. QED
    BY <1>4, <1>5, <1>8, <1>9, <1>10, <1>11, <1>12 DEF Next, Step

LEMMA IInvAlways == Spec => []IInv
  <1>1. Init => IInv
    BY IInvInit
  <1>2. IInv /\ [Next]_vars => IInv'
    BY TypeStep, OwnStep, RecordStep DEF IInv
  <1>3. QED
    BY <1>1, <1>2, PTL DEF Spec

-------------------------------------------------------------------------------
\* The types of xem_alloc's state, for any processes and experiments.
THEOREM TypeCorrect == Spec => []TypeOK
  <1>1. IInv => TypeOK
    BY DEF IInv
  <1>2. QED
    BY <1>1, IInvAlways, PTL

\* Two allocs never create one experiment at a time, and a failed one never
\* unlinks another's record, unless a remove of the experiment has ended.
THEOREM OwnRecordAlways == Spec => []OwnRecord
  <1>1. IInv => OwnRecord
    BY DEF IInv
  <1>2. QED
    BY <1>1, IInvAlways, PTL

\* Nodes are held only with a record, unless a remove of the experiment has ended.
THEOREM NoOrphanBedAlways == Spec => []NoOrphanBed
  <1>1. IInv => NoOrphanBed
    BY DEF IInv
  <1>2. QED
    BY <1>1, IInvAlways, PTL

\* A record without nodes is explained by a process in progress or killed.
THEOREM NoStaleRecordAlways == Spec => []NoStaleRecord
  <1>1. IInv => NoStaleRecord
    BY DEF IInv
  <1>2. QED
    BY <1>1, IInvAlways, PTL

\* The nodes of an experiment are laid out as some alloc of it asked for.
THEOREM BedLayoutAlways == Spec => []BedLayout
  <1>1. IInv => BedLayout
    BY DEF IInv
  <1>2. QED
    BY <1>1, IInvAlways, PTL
===============================================================================

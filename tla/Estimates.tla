------------------------------ MODULE Estimates ------------------------------
(***************************************************************************)
(* The arithmetic of the reports: a component-limited estimate of what a   *)
(* set of servers and measured links can do (performance/files/report.py), *)
(* and the part of a saved baseline that covers the nodes of another run   *)
(* (scoped_baseline of shared/files/tessi_io500_report.py).                *)
(*                                                                         *)
(* A node is identified by its FQDN, the only name a baseline and a later  *)
(* run share.  A baseline is a record of its three groups, the kernel and  *)
(* the software stack of its nodes, the servers with complete FIO results, *)
(* and the measured links of either plane.  Rates are natural numbers, of  *)
(* which only sums and comparisons matter.                                 *)
(***************************************************************************)
EXTENDS Naturals, FiniteSets, Functions

CONSTANTS
  Disk,   \* Disk[n][w]: what the SSDs of node n reach in FIO workload w
  Link    \* Link[p][s]: what the pair p of nodes reaches at message size s

Workloads == {"write", "read", "randwrite", "randread"}
Sizes == {"4KiB", "large"}
Roles == {"ds", "clients", "mds"}

ASSUME RateAssumption ==
  /\ \A n \in DOMAIN Disk : Disk[n] \in [Workloads -> Nat]
  /\ \A p \in DOMAIN Link : Link[p] \in [Sizes -> Nat]

AtMost(a, b) == IF a < b THEN a ELSE b
AtLeast(a, b) == IF a < b THEN b ELSE a

\* "none" stands for the ValueError and for a value that does not exist.
None == [ok |-> "no"]

-----------------------------------------------------------------------------

\* FIO totals of a plane: the rates of all servers launched together.
Total(servers, w) == SumFunctionOnSet([n \in DOMAIN Disk |-> Disk[n][w]], servers)

\* The concurrent pairs of a plane at one message size.
Network(pairs, s) == SumFunctionOnSet([p \in DOMAIN Link |-> Link[p][s]], pairs)

\* ceiling: the slower of the two components.
Ceiling(storage, network) == AtMost(storage, network)

\* derive_role: what the servers and the concurrent pairs of one plane reach.
\* Bandwidth counts the faster sequential workload and the best message size,
\* IOPS the faster random workload and the 4 KiB messages.
DeriveRole(servers, pairs, unpaired, complete) ==
  IF ~ (servers \subseteq complete) \/ servers = {} \/ pairs = {} THEN None
  ELSE LET total == [w \in Workloads |-> Total(servers, w)]
           bw == AtLeast(Network(pairs, "4KiB"), Network(pairs, "large"))
           iops == Network(pairs, "4KiB")
       IN [ok |-> "yes", servers |-> servers, pairs |-> pairs, unpaired |-> unpaired,
           bw |-> Ceiling(AtLeast(total["read"], total["write"]), bw),
           iops |-> Ceiling(AtLeast(total["randread"], total["randwrite"]), iops),
           readBw |-> Ceiling(total["read"], bw), writeBw |-> Ceiling(total["write"], bw),
           readIops |-> Ceiling(total["randread"], iops)]

\* derive: the data plane, and the metadata plane of a split baseline, which
\* must have been measured as well.
Derive(b) ==
  LET data == DeriveRole(b.groups["ds"], b.pairs["ds"], b.unpaired["ds"], b.complete)
      metadata == IF b.groups["mds"] = {} THEN None
                  ELSE DeriveRole(b.groups["mds"], b.pairs["mds"], b.unpaired["mds"], b.complete)
  IN IF data = None \/ (b.groups["mds"] # {} /\ metadata = None) THEN None
     ELSE [ok |-> "yes", data |-> data, metadata |-> metadata]

-----------------------------------------------------------------------------
(* scoped_baseline *)

\* The hosts of a run that the baseline measured in the same role.
Selected(b, groups) == [r \in Roles |-> groups[r] \cap b.groups[r]]

\* The hosts that have a match in some role: the map is kept by host name.
Matches(b, groups) == UNION {Selected(b, groups)[r] : r \in Roles}

Hosts(groups) == UNION {groups[r] : r \in Roles}

\* Mutant: a node that the baseline measured in no role of the run, or with
\* another kernel, is not reported.
NoIssues(b, groups, kernel) == {}

\* No matching baseline node in that role, or its kernel differs.
Issues(b, groups, kernel) ==
  UNION {{n \in groups[r] : n \notin b.groups[r] \/ kernel[n] # b.kernel[n]} : r \in Roles}

\* Mutant: a link with one selected endpoint is kept.
CrossHalf(p, clients, servers) ==
  \/ p[1] \in clients \/ p[2] \in servers
  \/ p[2] \in clients \/ p[1] \in servers

\* A link between a selected client and a selected server.
Cross(p, clients, servers) ==
  \/ p[1] \in clients /\ p[2] \in servers
  \/ p[2] \in clients /\ p[1] \in servers

\* The baseline restricted to the selected nodes and the links between them:
\* nothing is multiplied by a node ratio.
Restricted(b, sel) ==
  LET pairs == [r \in {"ds", "mds"} |->
                  {p \in b.pairs[r] : Cross(p, sel["clients"], sel[r])}]
      used(r) == {p[1] : p \in pairs[r]} \cup {p[2] : p \in pairs[r]}
  IN [b EXCEPT !.groups = sel, !.pairs = pairs,
               !.unpaired = [r \in {"ds", "mds"} |-> (sel["clients"] \cup sel[r]) \ used(r)]]

\* The outcome is an estimate, None, or "crashed" when derive raises: every
\* host has some match, yet a plane has no server or no complete FIO.
ScopedBaseline(b, groups) ==
  LET sel == Selected(b, groups)
      scoped == Restricted(b, sel)
      unmeasured == \E r \in {"ds", "mds"} : sel[r] # {} /\ scoped.pairs[r] = {}
  IN IF Matches(b, groups) # Hosts(groups) \/ unmeasured THEN [at |-> "none", est |-> None]
     ELSE IF Derive(scoped) = None THEN [at |-> "crashed", est |-> None]
     ELSE [at |-> "derived", est |-> Derive(scoped)]
=============================================================================

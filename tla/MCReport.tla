------------------------------ MODULE MCReport ------------------------------
(* The instance of Report that TLC checks: a split baseline with two         *)
(* clients, two data servers and two metadata servers, a shared one, and     *)
(* runs on all of it, on a part of it, with a strange node, and with         *)
(* metadata servers colocated with data servers.                             *)
EXTENDS Report

Nodes == {"c1", "c2", "d1", "d2", "m1", "m2", "x"}
Group(c, d, m) == [r \in Roles |-> IF r = "clients" THEN c ELSE IF r = "ds" THEN d ELSE m]
Split == Group({"c1", "c2"}, {"d1", "d2"}, {"m1", "m2"})
Shared == Group({"c1", "c2"}, {"d1", "d2"}, {})

MCPairs == {<<"c1", "d1">>, <<"c2", "d2">>, <<"c1", "m1">>, <<"c2", "m2">>}
MCDisk == [n \in Nodes \ {"x"} |-> [w \in Workloads |->
             IF w \in {"read", "randread"} THEN 3 ELSE 2]]
MCLink == [p \in MCPairs |-> [s \in Sizes |-> IF s = "large" THEN 4 ELSE 1]]

Measured(groups, complete) ==
  [exists |-> "yes", groups |-> groups, kernel |-> [n \in Nodes |-> "k1"], complete |-> complete,
   pairs |-> [r \in {"ds", "mds"} |-> {p \in MCPairs : p[2] \in groups[r]}],
   unpaired |-> [r \in {"ds", "mds"} |-> IF groups[r] = {} THEN groups["clients"] ELSE {}]]

MCBaselines ==
  {Measured(Split, DOMAIN MCDisk), Measured(Shared, DOMAIN MCDisk),
   Measured(Split, DOMAIN MCDisk \ {"m2"})}

\* The groups of a run; "d1" as a metadata server is colocated.
RunGroups ==
  {Split, Shared,
   Group({"c1"}, {"d1"}, {"m1"}),
   Group({"c1"}, {"d2"}, {}),
   Group({"c1", "c2"}, {"d1", "x"}, {}),
   Group({"c1", "c2"}, {"d1", "d2"}, {"d1"}),
   Group({"c1", "c2"}, {"d1", "d2"}, {"d1", "m1"})}
Kernels == {[n \in Nodes |-> "k1"], [n \in Nodes |-> IF n = "d1" THEN "k2" ELSE "k1"]}
Stacks == {[n \in Nodes |-> "same"],
           [n \in Nodes |-> IF n = "c1" THEN "none" ELSE "same"],
           [n \in Nodes |-> IF n = "d1" THEN "other" ELSE "same"]}

SavedRuns ==
  [kind : {"daos", "pnfs"}, groups : RunGroups, kernel : Kernels, stack : Stacks,
   rc : {0, 1}, outside : {"yes", "no"}, scored : {"yes", "no"}, start : {2}]

\* An earlier run of the same experiment, on a part of the nodes.
Earlier ==
  [kind |-> "daos", groups |-> Group({"c2"}, {"d2"}, {"m2"}), kernel |-> [n \in Nodes |-> "k1"],
   stack |-> [n \in Nodes |-> "same"], rc |-> 0, outside |-> "no", scored |-> "yes", start |-> 1]

MCExperiments ==
  {[pointer |-> p, results |-> {r, Earlier}] : p \in {NoRun}, r \in SavedRuns}
  \cup {[pointer |-> r, results |-> {r, Earlier}] : r \in SavedRuns}

MCPhases == <<"ior-easy-write", "mdtest-easy-write", "ior-rnd4K-easy-read", "ior-hard-read",
              "mdtest-easy-stat", "ior-easy-read", "find">>
=============================================================================

------------------------------ MODULE Inventory ------------------------------
(***************************************************************************)
(* The generators of configurations: tools/create_config_inventory.py      *)
(* (virtual machines on physical hosts) and the two matrices of            *)
(* configs/xem (generate_pnfs_io500_phase1.py and _scaling.py).  A VM is a *)
(* record of its name, group, disks and address; a name is the pair of its *)
(* prefix and its number, a file name the record of what it spells out.    *)
(***************************************************************************)
EXTENDS Naturals, Sequences, SequencesExt, FiniteSets

\* expand_hosts: hs[145-160], here <<prefix, start, end>>, is the hosts of the range, in
\* order; an expression without a range is the name of one host.
ExpandHosts(expr) ==
  IF Len(expr) = 3 THEN [k \in 1..(expr[3] - expr[2] + 1) |-> <<expr[1], expr[2] + k - 1>>]
  ELSE <<expr>>

\* make_uniform_vms: the k-th host gets n VMs; the name counts from start, the
\* address from start + 1.
UniformVms(hosts, n, group, start) ==
  [k \in 1..Len(hosts) |->
     [host |-> hosts[k],
      vms |-> [j \in 1..n |->
                 LET ip == start + (k - 1) * n + (j - 1)
                 IN [name |-> <<"n", ip>>, group |-> group, disks |-> <<>>, ip |-> ip + 1]]]]

\* make_mixed_vms: a VM of each entry of the layout on every host; a role has a
\* counter for its names, shared by all its entries, and there is one sequence
\* of addresses.
MixedVms(hosts, layout, start) ==
  LET ofRole(role, n) == {i \in 1..n : layout[i].role = role}
      number(k, j) == (k - 1) * Cardinality(ofRole(layout[j].role, Len(layout)))
                      + Cardinality(ofRole(layout[j].role, j - 1))
  IN [k \in 1..Len(hosts) |->
        [host |-> hosts[k],
         vms |-> [j \in 1..Len(layout) |->
                    [name |-> <<layout[j].role, number(k, j)>>, group |-> layout[j].group,
                     disks |-> layout[j].disks, ip |-> start + (k - 1) * Len(layout) + (j - 1)]]]]

\* print_inventory: the rows under physical_hosts.
Rows(inventory) == FlattenSeq([k \in 1..Len(inventory) |-> inventory[k].vms])

\* main: one mode or the other with its own arguments; <<>> when they are missing.
Generate(args) ==
  LET hosts == ExpandHosts(args.hosts)
  IN CASE args.mode = "uniform" /\ args.count > 0 ->
            UniformVms(hosts, args.count, args.group, args.start)
       [] args.mode = "mixed" /\ args.layout # <<>> -> MixedVms(hosts, args.layout, args.start)
       [] OTHER -> <<>>

\* No two rows share a name, none share an address.
Distinct(rows) ==
  \A i, j \in 1..Len(rows) : i # j => rows[i].name # rows[j].name /\ rows[i].ip # rows[j].ip

-----------------------------------------------------------------------------
(* generate_pnfs_io500_phase1.py *)

Ppns == {1, 8, 16, 32}
StripeSizes == {4194304, 16777216, 67108864}
DefaultStripe == 1048576

Screened(transport, striped, ppn, assignment, size) ==
  [transport |-> transport, striped |-> striped, ppn |-> ppn,
   assignment |-> assignment, size |-> size]

\* main: every variant with every ppn, and five round-robin configurations.
ScreeningMatrix ==
  {Screened(t, s, p, "first", DefaultStripe) :
     t \in {"rdma", "tcp"}, s \in {"on", "off"}, p \in Ppns}
  \cup {Screened("rdma", s, 16, "round-robin", DefaultStripe) : s \in {"on", "off"}}
  \cup {Screened("rdma", "on", 16, "round-robin", z) : z \in StripeSizes}

\* write_config: the default assignment and stripe size add nothing to the name.
ScreeningFile(c) ==
  <<c.transport, c.striped, c.ppn>>
  \o (IF c.assignment = "first" THEN <<>> ELSE <<"mds-", c.assignment>>)
  \o (IF c.size = DefaultStripe THEN <<>> ELSE <<"stripe-size-", c.size>>)

\* hosts: numbered from 0, metadata servers, data servers and clients apart.
HostsOf(prefix, n) == {<<prefix, i>> : i \in 0..(n - 1)}
GroupsOf(t) == [mds |-> HostsOf("mds", t[1]), ds |-> HostsOf("ds", t[2]),
                clients |-> HostsOf("cli", t[3])]

\* CONFIG: what the text of a screening configuration says of its experiment.
ScreeningConfig(c) ==
  LET groups == GroupsOf(<<4, 10, 10>>)
  IN [groups |-> groups, transport |-> c.transport, ppn |-> c.ppn, assignment |-> c.assignment,
      width |-> IF c.striped = "on" THEN Cardinality(groups.ds) ELSE 1, size |-> c.size]

(* generate_pnfs_io500_scaling.py: metadata servers, data servers, clients *)
Topologies ==
  {<<1, 1, 1>>, <<1, 1, 2>>, <<1, 2, 1>>, <<1, 2, 2>>, <<2, 2, 2>>, <<2, 4, 4>>,
   <<4, 1, 10>>, <<4, 2, 10>>, <<4, 4, 10>>, <<4, 8, 8>>, <<4, 8, 10>>,
   <<4, 10, 1>>, <<4, 10, 2>>, <<4, 10, 4>>, <<4, 10, 8>>, <<4, 10, 10>>}

ScalingConfig(t) ==
  [groups |-> GroupsOf(t), transport |-> "rdma", ppn |-> 16, assignment |-> "first",
   width |-> 1, size |-> DefaultStripe]

\* main: a file for each topology, named after the counts.
ScalingFiles == [t \in Topologies |-> ScalingConfig(t)]
=============================================================================

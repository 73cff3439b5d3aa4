------------------------------- MODULE MCSweep -------------------------------
(* Two configurations in the sweep, two that get_results.py looks for and one *)
(* run by hand with two MDS hosts; and the generators of configurations on    *)
(* the arguments of the repository.                                           *)
EXTENDS Sweep, Inventory

MCListed == <<<<1, 1, 2>>, <<4, 10, 1>>>>
MCSearched == {<<2, 2, 2>>, <<32, 32, 2>>}
MCByHand == <<4, 4, 9>>
MCDomain == [k \in Configs |-> IF k \in MCSearched THEN 2 ELSE IF k = MCByHand THEN 3 ELSE 1]
MCUserFile == <<UserLine(1), Anchor, UserLine(2)>>

\* run_pnfs_io500_scaling.sh: the whole list, every file of which the generator writes.
ScalingList ==
  <<<<1, 1, 2>>, <<1, 2, 1>>, <<2, 2, 2>>, <<4, 10, 1>>, <<4, 10, 2>>, <<4, 10, 4>>,
    <<4, 10, 8>>, <<4, 1, 10>>, <<4, 2, 10>>, <<4, 4, 10>>, <<4, 8, 10>>>>
ASSUME ListedAreGenerated == \A i \in DOMAIN ScalingList : ScalingList[i] \in Topologies

\* The generators: a file of its own for each configuration, and no two files
\* with the same content, as the artifacts are kept under the hash of the content.
ASSUME ConfigurationsDiffer ==
  /\ Cardinality({ScreeningFile(c) : c \in ScreeningMatrix}) = Cardinality(ScreeningMatrix)
  /\ Cardinality({ScreeningConfig(c) : c \in ScreeningMatrix}) = Cardinality(ScreeningMatrix)
  /\ Cardinality({ScalingFiles[t] : t \in Topologies}) = Cardinality(Topologies)

\* create_config_inventory.py: the names and the addresses of one inventory
\* differ, and those of the two inventories of its EXAMPLES, together.
Layout ==
  <<[role |-> "mds", group |-> "mds_group", disks |-> <<10, 10>>],
    [role |-> "oss", group |-> "oss_group", disks |-> <<10>>],
    [role |-> "cli", group |-> "cli_group", disks |-> <<>>]>>
Args(mode, hosts, count, layout, start) ==
  [mode |-> mode, hosts |-> hosts, count |-> count, group |-> "cli_group",
   layout |-> layout, start |-> start]
HostExprs == {<<"hs", 145>>} \cup {<<"hs", 145, 144 + n>> : n \in 0..4}
ASSUME InventoriesDiffer ==
  /\ \A hosts \in HostExprs, count \in 1..4, layout \in {Layout, Layout \o Layout}, start \in {0, 1, 100} :
       /\ Distinct(Rows(Generate(Args("uniform", hosts, count, <<>>, start))))
       /\ Distinct(Rows(Generate(Args("mixed", hosts, 0, layout, start))))
  /\ Distinct(Rows(Generate(Args("mixed", <<"hs", 145, 147>>, 0, Layout, 0)))
              \o Rows(Generate(Args("uniform", <<"hs", 148, 160>>, 4, <<>>, 100))))
=============================================================================

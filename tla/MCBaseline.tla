----------------------------- MODULE MCBaseline -----------------------------
(* The instance of Baseline that TLC checks: a split inventory with two      *)
(* clients, two data servers and a metadata server, and a part of it with    *)
(* more clients than servers.                                                *)
EXTENDS Baseline

Whole == "whole"
Part == "part"
DsNodes == [i \in {Whole, Part} |-> IF i = Whole THEN <<"ds0", "ds1">> ELSE <<"ds0">>]
MdsNodes == [i \in {Whole, Part} |-> IF i = Whole THEN <<"mds0">> ELSE <<>>]
ClientNodes == [i \in {Whole, Part} |-> <<"cli0", "cli1">>]
=============================================================================

------------------------------ MODULE MCXemAlloc ------------------------------
(* Sizes for TLC: without and with metadata servers, and with eleven clients. *)
EXTENDS XemAlloc

MCSmall == {[mds |-> 0, ds |-> 2, cli |-> 1], [mds |-> 1, ds |-> 1, cli |-> 2]}
MCEleven == {[mds |-> 1, ds |-> 4, cli |-> 11]}
===============================================================================

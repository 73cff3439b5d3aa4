------------------------------ MODULE MCCapture ------------------------------
(* Values for Capture: two configurations share a key, one has its own.       *)
EXTENDS Capture

CONSTANTS w1, w2, w3

MCWorkflows == {w1, w2, w3}
MCKeys == {"daos.none.rocky.9", "lustre.none.rocky.9"}
MCKey == [w \in MCWorkflows |->
            IF w = w3 THEN "lustre.none.rocky.9" ELSE "daos.none.rocky.9"]

===============================================================================

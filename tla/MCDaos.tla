-------------------------------- MODULE MCDaos --------------------------------
(* DaosConfig on two servers: the largest RAM disk leaves enough RAM on one of  *)
(* them only.                                                                  *)
EXTENDS DaosConfig

CONSTANTS s1, s2

MCServers == {s1, s2}
MCMemory == [s \in Servers |-> IF s = s1 THEN 20000 ELSE 40000]
===============================================================================

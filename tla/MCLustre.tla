------------------------------- MODULE MCLustre -------------------------------
(* LustreConfig with inventories in which servers change places, are dropped,  *)
(* lose their partners and become clients, and clients come and go.            *)
EXTENDS LustreConfig

Inventory(mds, oss, clients, failover) ==
    [mds |-> mds, oss |-> oss, clients |-> clients, failover |-> failover]

MCInventories ==
    { Inventory(<<1, 2>>, <<3, 4>>, {5}, "yes"),
      Inventory(<<1, 2>>, <<4, 3>>, {5}, "yes"),
      Inventory(<<2, 1>>, <<3>>, {5}, "no"),
      Inventory(<<1>>, <<3, 4>>, {5, 6}, "no"),
      Inventory(<<1>>, <<3>>, {4, 5}, "no"),
      Inventory(<<1>>, <<4>>, {6}, "no"),
      Inventory(<<1>>, <<4>>, {5}, "yes") }
===============================================================================

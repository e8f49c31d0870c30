----------------------------- MODULE MCCDIDriver -----------------------------
(* Two claims and three results: one device of this node's slices, one that  *)
(* only its pool name ties to the node, and one of a driver that is not      *)
(* simulated.  A shared device may be in both claims' results.               *)
EXTENDS CDIDriver

MCDevices == {[driver |-> "sim", pool |-> "gpu", device |-> "dev-0"],
              [driver |-> "sim", pool |-> "node-a", device |-> "dev-0"],
              [driver |-> "other", pool |-> "gpu", device |-> "dev-1"]}
MCAllocations ==
    {[nodes |-> {"node-a"}, results |-> {d \in MCDevices : d.pool = "gpu"}],
     [nodes |-> {"node-b"}, results |-> MCDevices],
     [nodes |-> {"node-b"}, results |-> {d \in MCDevices : d.pool = "gpu"}]}
MCDemoDevices == {[driver |-> "demo", pool |-> "demo", device |-> "dev-0"],
                  [driver |-> "demo", pool |-> "demo", device |-> "dev-1"]}
=============================================================================

-------------------------- MODULE MCClaimAllocation --------------------------
(* Small clusters for ClaimAllocation.                                      *)
EXTENDS ClaimAllocation, TLC

CONSTANTS n1, n2, d1, d2, gpu

\* Two slices, one per node, as the simulator publishes a two-node pool.
MCSliceNode == 1 :> n1 @@ 2 :> n2
MCSelected == gpu :> {d1, d2}
MCCapacity == d1 :> 2 @@ d2 :> 1

Content(healthy, m1, m2) ==
    [healthy |-> healthy, mode |-> d1 :> m1 @@ d2 :> m2]

\* d1 is published exclusive or shareable, so its mode changes under claims
\* that hold it.
SharedObjects ==
    {Content(TRUE, "shareable", "exclusive"),
     Content(TRUE, "exclusive", "absent")}

Want(count, demand) == [class |-> gpu, count |-> count, demand |-> demand]

\* A share of a device, or two whole devices.
SharedSpecs == {Want(1, 1), Want(2, 0)}
OneDevice == {Want(0, 0)}
BothDevices == {Content(TRUE, "exclusive", "absent")}
=============================================================================

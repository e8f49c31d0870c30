------------------------------ MODULE MCPoolSync ------------------------------
(* Small clusters for PoolSync, and whether the controller has given up.    *)
EXTENDS PoolSync, TLC

CONSTANTS p1, p2, a, b, s1a, s1b, s2a, s2b

\* Every pool and node has a slice name of its own.
DistinctNames == p1 :> (a :> s1a @@ b :> s1b) @@ p2 :> (a :> s2a @@ b :> s2b)

NoSlices == [nm \in Names |-> NoSlice]
Legacy(p, n) == [NoSlice EXCEPT !.exists = TRUE, !.owner = p, !.node = n,
                                !.count = 1]

\* A cluster without slices, and one where an older controller left a slice of
\* either pool.
UpgradedCluster ==
    [NoSlices EXCEPT ![s1a] = Legacy(p1, a), ![s2a] = Legacy(p2, a)]
FreshOrUpgraded == {NoSlices, UpgradedCluster}

AllOrOne == {{}, {a}}
-----------------------------------------------------------------------------
\* The last pass failed in a way that is not retried, and none has begun since:
\* the error is terminal, or the CRD was not found and the pass returned nil.
VARIABLE givenUp

GivesUp == faults' # faults /\ ~queued' /\ ~backoff'

PoolsInit == Init /\ givenUp = FALSE

PoolsNext ==
    /\ Next
    /\ givenUp' = (GivesUp \/ (givenUp /\ ~(pc = "idle" /\ pc' = "listPools")))

PoolsSpec == PoolsInit /\ [][PoolsNext]_<<vars, givenUp>> /\ Fairness

\* When the users' changes and the failures are over, the controller brings the
\* cluster in sync and keeps it so: no lost event, aborted pass, conflict or
\* deletion seen halfway leaves it behind for good.  Only an error that
\* classifyControllerError does not retry may, until the next event.
Converges == <>[](InSync \/ givenUp)
=============================================================================

------------------------ MODULE ClaimAllocationProofs ------------------------
(***************************************************************************)
(* The allocation pipeline never allocates a device twice and implements   *)
(* AllocationLedger, for every number of claims, slices, devices, faults   *)
(* and changes.                                                            *)
(***************************************************************************)
EXTENDS ClaimAllocation, FiniteSetTheorems, TLAPS

\* Two results for one device are both shares of it.
Agree(r, q) == r.device = q.device => r.shared /\ q.shared

\* From ListClaims to the end of the pass the worker holds copies of claims.
Reading == pc \in {"listSlices", "listClasses", "claim", "write"}

\* The key fact: whatever is allocated in the store is also allocated in the
\* copies the pass decides on.  The environment only takes allocations away,
\* and the only worker that adds one adds it to its copies too.
CopiesCoverStore == Reading => \A c \in Claims : alloc[c] \subseteq view[c]

\* The plan about to be written agrees with everything the copies hold.
PlanIsSafe ==
    pc = "write" =>
        /\ index \in Claims
        /\ view[index] = {}
        /\ plan # {}
        /\ \A r, q \in plan : r.device = q.device => r = q
        /\ \A c \in Claims : \A r \in plan, q \in view[c] : Agree(r, q)

\* NoDoubleAllocation, claim by claim.
StoreAgrees ==
    /\ \A c \in Claims : \A r, q \in alloc[c] : r.device = q.device => r = q
    /\ \A b, c \in Claims : b # c =>
           \A r \in alloc[b], q \in alloc[c] : Agree(r, q)

\* The inductive invariant.
IInv == TypeOK /\ CopiesCoverStore /\ PlanIsSafe /\ StoreAgrees
-----------------------------------------------------------------------------
\* A device accepted from a slice agrees with all that is held.
LEMMA AcceptedAgrees ==
    ASSUME NEW sl \in [Slices -> SliceObject], NEW s \in Slices,
           NEW d \in Devices, NEW sp \in Specs,
           NEW held \in [Claims -> SUBSET Result],
           Accepts(sl, s, d, sp, held),
           NEW c \in Claims, NEW q \in held[c], q.device = d
    PROVE  q.shared /\ sl[s].mode[d] = "shareable"
<1>1. DOMAIN held = Claims
  OBVIOUS
<1>2. q \in Result /\ q.shared \in BOOLEAN
  BY DEF Result
<1>3. CASE sl[s].mode[d] = "shareable"
  BY <1>1, <1>2, <1>3 DEF Accepts, HeldExclusively
<1>4. CASE sl[s].mode[d] # "shareable"
  BY <1>1, <1>2, <1>4 DEF Accepts, HeldExclusively, HeldShared
<1>5. QED
  BY <1>3, <1>4

\* The result written for a candidate is well formed, and agrees with all that
\* is held.
LEMMA ResultForCandidate ==
    ASSUME NEW sl \in [Slices -> SliceObject], NEW n \in Nodes,
           NEW sp \in Specs, NEW held \in [Claims -> SUBSET Result],
           NEW d \in Candidates(sl, n, sp, held)
    PROVE  /\ ResultFor(sl, n, d, sp, held) \in Result
           /\ ResultFor(sl, n, d, sp, held).device = d
           /\ \A c \in Claims : \A q \in held[c] :
                  Agree(ResultFor(sl, n, d, sp, held), q)
<1> DEFINE s == CHOOSE s \in Slices : FirstAccepted(sl, s, d, sp, held)
           share == sl[s].mode[d] = "shareable"
           res == ResultFor(sl, n, d, sp, held)
<1>1. d \in Devices /\ \E t \in Slices : FirstAccepted(sl, t, d, sp, held)
  BY DEF Candidates
<1>2. s \in Slices /\ FirstAccepted(sl, s, d, sp, held)
  BY <1>1
<1>3. Accepts(sl, s, d, sp, held)
  BY <1>2 DEF FirstAccepted
<1> HIDE DEF s
<1>4. res = [device |-> d, node |-> n, shared |-> share,
             amount |-> IF share THEN ShareAmount(sp, d) ELSE 0]
  BY DEF ResultFor, s
<1>5. ShareAmount(sp, d) \in Nat
  BY <1>1, ClaimPlanAssumption DEF ShareAmount
<1>6. res \in Result /\ res.device = d /\ res.shared = share
  <2>1. share \in BOOLEAN
    OBVIOUS
  <2>2. QED
    BY <1>1, <1>4, <1>5, <2>1 DEF Result
<1>7. ASSUME NEW c \in Claims, NEW q \in held[c], q.device = d
      PROVE  q.shared /\ share
  BY <1>1, <1>2, <1>3, <1>7, AcceptedAgrees
<1>8. QED
  BY <1>6, <1>7 DEF Agree

\* Every answer of the planner is safe.
LEMMA PlansAreSafe ==
    ASSUME NEW sp \in Specs, NEW held \in [Claims -> SUBSET Result],
           NEW sl \in [Slices -> SliceObject], NEW cl,
           NEW p \in Plans(sp, held, sl, cl)
    PROVE  /\ p \subseteq Result
           /\ p # {}
           /\ \A r, q \in p : r.device = q.device => r = q
           /\ \A c \in Claims : \A r \in p, q \in held[c] : Agree(r, q)
<1> DEFINE k == NormalizedCount(sp.count)
<1>0. PICK n \in Nodes :
          \E D \in kSubset(k, Candidates(sl, n, sp, held)) :
              p = {ResultFor(sl, n, d, sp, held) : d \in D}
  BY Zenon DEF Plans, NodePlans
<1>1. PICK D \in kSubset(k, Candidates(sl, n, sp, held)) :
          p = {ResultFor(sl, n, d, sp, held) : d \in D}
  BY <1>0
<1>2. D \subseteq Candidates(sl, n, sp, held) /\ Cardinality(D) = k
  BY <1>1 DEF kSubset
<1>3. D # {}
  <2>1. k # 0
    BY ClaimPlanAssumption DEF NormalizedCount
  <2>2. QED
    BY <1>2, <2>1, FS_EmptySet
<1>4. \A d \in D : /\ ResultFor(sl, n, d, sp, held) \in Result
                   /\ ResultFor(sl, n, d, sp, held).device = d
                   /\ \A c \in Claims : \A q \in held[c] :
                          Agree(ResultFor(sl, n, d, sp, held), q)
  BY <1>2, ResultForCandidate
<1>5. \A r \in p : \E d \in D : r = ResultFor(sl, n, d, sp, held)
  BY <1>1
<1>6. p \subseteq Result /\ p # {}
  BY <1>1, <1>3, <1>4
<1>7. \A r, q \in p : r.device = q.device => r = q
  BY <1>4, <1>5
<1>8. \A c \in Claims : \A r \in p, q \in held[c] : Agree(r, q)
  BY <1>4, <1>5
<1>9. QED
  BY <1>6, <1>7, <1>8
-----------------------------------------------------------------------------
\* Initially nothing is allocated and no pass runs.
LEMMA InitInvariant == Init => IInv
<1> SUFFICES ASSUME Init PROVE IInv
  OBVIOUS
<1> USE ClaimPlanAssumption, ClaimAllocationAssumption, WorkQueueAssumption
    DEF Init, QueueInit
<1>1. TypeOK
  <2>1. NoSpecs \in [Claims -> Specs]
    BY DEF NoSpecs
  <2>2. NoSlices \in [Slices -> SliceObject]
    BY DEF NoSlices, SliceObject, Modes
  <2>3. NoResults \in [Claims -> SUBSET Result]
    BY DEF NoResults
  <2>4. slices \in [Slices -> SliceObject] /\ classes \subseteq Classes
    OBVIOUS
  <2>5. queued \in BOOLEAN /\ backoff \in BOOLEAN
    BY Zenon
  <2>6. pc \in PCs /\ events \subseteq Kinds
    BY DEF PCs
  <2>7. index \in 1..(NClaims + 1)
    OBVIOUS
  <2>8. /\ requeues \in 0..MaxControllerQueueRetries
        /\ faults \in 0..MaxFaults
        /\ changes \in 0..MaxChanges
    OBVIOUS
  <2>9. QED
    BY <2>1, <2>2, <2>3, <2>4, <2>5, <2>6, <2>7, <2>8 DEF TypeOK, QueueTypeOK
<1>2. CopiesCoverStore /\ PlanIsSafe
  BY DEF CopiesCoverStore, PlanIsSafe, Reading
<1>3. StoreAgrees
  BY DEF StoreAgrees, NoResults
<1>4. QED
  BY <1>1, <1>2, <1>3 DEF IInv

\* A pass that ends leaves well-typed, empty copies and no plan.
LEMMA EndPassTypes ==
    ASSUME TypeOK, EndPass
    PROVE  /\ pc' = "idle" /\ pc' \in PCs
           /\ index' \in 1..(NClaims + 1)
           /\ listed' \subseteq Claims
           /\ listedSpec' \in [Claims -> Specs]
           /\ view' \in [Claims -> SUBSET Result]
           /\ listedSlices' \in [Slices -> SliceObject]
           /\ listedClasses' \subseteq Classes
           /\ unchanged' \subseteq Claims
           /\ plan' \subseteq Result
<1> USE ClaimPlanAssumption, ClaimAllocationAssumption
<1>1. NoSpecs \in [Claims -> Specs]
  BY DEF NoSpecs
<1>2. NoSlices \in [Slices -> SliceObject]
  BY DEF NoSlices, SliceObject, Modes
<1>3. NoResults \in [Claims -> SUBSET Result]
  BY DEF NoResults
<1>4. QED
  BY <1>1, <1>2, <1>3 DEF EndPass, PCs

\* The workqueue's answer to an error is well typed.
LEMMA FailPassTypes ==
    ASSUME TypeOK, NEW kind, FailPass(kind)
    PROVE  /\ events' \subseteq Kinds
           /\ queued' \in BOOLEAN
           /\ backoff' \in BOOLEAN
           /\ requeues' \in 0..MaxControllerQueueRetries
<1>1. events' \subseteq Kinds /\ queued' \in BOOLEAN
  BY DEF FailPass, HandleError, TypeOK, QueueTypeOK
<1>2. backoff' \in BOOLEAN
  BY Zenon DEF FailPass, HandleError, TypeOK, QueueTypeOK
<1>3. requeues' \in 0..MaxControllerQueueRetries
  BY WorkQueueAssumption DEF FailPass, HandleError, TypeOK, QueueTypeOK
<1>4. QED
  BY <1>1, <1>2, <1>3

\* Every step preserves the types.
LEMMA TypesPreserved == TypeOK /\ [Next]_vars => TypeOK'
<1> SUFFICES ASSUME TypeOK, [Next]_vars PROVE TypeOK'
  OBVIOUS
<1> USE ClaimPlanAssumption, ClaimAllocationAssumption, WorkQueueAssumption
    DEF TypeOK, QueueTypeOK
<1>1. ASSUME NEW c \in Claims, CreateClaim(c) PROVE TypeOK'
  BY <1>1 DEF CreateClaim, Change, Notify, passVars, Kinds
<1>2. ASSUME NEW c \in Claims, DeleteClaim(c) PROVE TypeOK'
  BY <1>2 DEF DeleteClaim, Change, Notify, passVars, Kinds
<1>3. ASSUME NEW c \in Claims, WriteClaim(c) PROVE TypeOK'
  BY <1>3 DEF WriteClaim, Change, Notify, passVars, Kinds
<1>4. ASSUME NEW s \in Slices, PublishSlice(s) PROVE TypeOK'
  BY <1>4 DEF PublishSlice, Change, Notify, passVars, Kinds
<1>5. ASSUME NEW k \in Classes, ChangeClass(k) PROVE TypeOK'
  BY <1>5 DEF ChangeClass, Change, Notify, passVars, Kinds
<1>6. ASSUME NEW kind \in Kinds, DeliverEvent(kind) PROVE TypeOK'
  BY <1>6 DEF DeliverEvent, Enqueue, storeVars, passVars
<1>7. CASE BackoffExpires
  BY <1>7 DEF BackoffExpires, AddDelayed, storeVars, passVars
<1>8. CASE GetKey
  BY <1>8 DEF GetKey, Take, storeVars, PCs
<1>9. CASE ListClaims
  BY <1>9 DEF ListClaims, storeVars, queueVars, PCs, NoFault
<1>10. CASE ListSlices
  BY <1>10 DEF ListSlices, storeVars, queueVars, PCs, NoFault
<1>11. CASE ListClasses
  BY <1>11 DEF ListClasses, storeVars, queueVars, PCs, NoFault
<1>12. CASE SkipClaim
  BY <1>12 DEF SkipClaim, storeVars, queueVars, NoFault
<1>13. CASE PlanClaim
  <2>1. index \in Claims /\ plan' \in ClaimPlans(index)
    BY <1>13 DEF PlanClaim, Claims
  <2>2. plan' \subseteq Result
    BY <2>1, PlansAreSafe DEF ClaimPlans
  <2>3. QED
    BY <1>13, <2>2 DEF PlanClaim, storeVars, queueVars, PCs, NoFault
<1>14. CASE WriteAccepted
  <2>0. index \in Claims
    BY <1>14 DEF WriteAccepted, CanWrite
  <2>1. index \in Claims /\ index' \in 1..(NClaims + 1)
    BY <1>14, <2>0 DEF WriteAccepted, Claims
  <2>2. alloc' \in [Claims -> SUBSET Result] /\ view' \in [Claims -> SUBSET Result]
    BY <1>14, <2>1 DEF WriteAccepted, StoreAllocation
  <2>3. pc' \in PCs /\ events' \subseteq Kinds /\ plan' \subseteq Result
    BY <1>14 DEF WriteAccepted, Notify, PCs, Kinds
  <2>4. QED
    BY <1>14, <2>1, <2>2, <2>3 DEF WriteAccepted, Notify, StoreAllocation, NoFault
<1>15. CASE WriteRefused
  <2>1. PICK kind : FailPass(kind)
    BY <1>15 DEF WriteRefused
  <2>2. EndPass
    BY <2>1 DEF FailPass
  <2>3. QED
    BY <1>15, <2>1, <2>2, EndPassTypes, FailPassTypes DEF WriteRefused, storeVars, NoFault
<1>16. CASE PassSucceeds
  BY <1>16, EndPassTypes DEF PassSucceeds, Forget, storeVars, NoFault
<1>17. CASE ListFails
  <2>1. PICK kind : FailPass(kind)
    BY <1>17 DEF ListFails
  <2>2. EndPass
    BY <2>1 DEF FailPass
  <2>3. QED
    BY <1>17, <2>1, <2>2, EndPassTypes, FailPassTypes DEF ListFails, storeVars, Fault
<1>18. CASE WriteFails
  <2>1. PICK kind : FailPass(kind)
    BY <1>18 DEF WriteFails
  <2>2. EndPass
    BY <2>1 DEF FailPass
  <2>3. QED
    BY <1>18, <2>1, <2>2, EndPassTypes, FailPassTypes DEF WriteFails, storeVars, Fault
<1>19. CASE WriteAnswerLost
  <2>1. EndPass /\ index \in Claims
    BY <1>19 DEF WriteAnswerLost, CanWrite
  <2>2. alloc' \in [Claims -> SUBSET Result]
    BY <1>19, <2>1 DEF WriteAnswerLost, StoreAllocation
  <2>3. events' \subseteq Kinds /\ faults' \in 0..MaxFaults
    BY <1>19 DEF WriteAnswerLost, Fault, Kinds
  <2>4. queued' \in BOOLEAN /\ backoff' \in BOOLEAN
    BY <1>19, Zenon DEF WriteAnswerLost, HandleError
  <2>5. requeues' \in 0..MaxControllerQueueRetries
    BY <1>19 DEF WriteAnswerLost, HandleError
  <2>6. UNCHANGED <<present, spec, slices, classes, changes>>
    BY <1>19 DEF WriteAnswerLost, StoreAllocation, Fault
  <2>7. QED
    BY <2>1, <2>2, <2>3, <2>4, <2>5, <2>6, EndPassTypes
<1>20. CASE Restart
  <2>1. EndPass
    BY <1>20 DEF Restart
  <2>2. queued' \in BOOLEAN /\ backoff' \in BOOLEAN
    BY <1>20, Zenon DEF Restart, QueueRestart
  <2>3. /\ events' \subseteq Kinds
        /\ requeues' \in 0..MaxControllerQueueRetries
        /\ faults' \in 0..MaxFaults
    BY <1>20 DEF Restart, QueueRestart, Fault
  <2>4. UNCHANGED <<present, spec, alloc, slices, classes, changes>>
    BY <1>20 DEF Restart, storeVars, Fault
  <2>5. QED
    BY <2>1, <2>2, <2>3, <2>4, EndPassTypes
<1>21. CASE UNCHANGED vars
  BY <1>21 DEF vars, storeVars, queueVars, passVars
<1>22. QED
  BY <1>1, <1>2, <1>3, <1>4, <1>5, <1>6, <1>7, <1>8, <1>9, <1>10, <1>11,
     <1>12, <1>13, <1>14, <1>15, <1>16, <1>17, <1>18, <1>19, <1>20, <1>21
     DEF Next, Environment, Queue, Worker, Failure

\* TypeOK is an invariant of the allocation pipeline.
THEOREM AllocationTypes == Spec => []TypeOK
<1>1. Init => TypeOK
  BY InitInvariant DEF IInv
<1>2. QED
  BY <1>1, TypesPreserved, PTL DEF Spec
-----------------------------------------------------------------------------
\* The environment takes allocations away and leaves the pass alone.
LEMMA EnvironmentShrinks ==
    ASSUME TypeOK, Environment
    PROVE  /\ \A c \in Claims : alloc'[c] \in {alloc[c], {}}
           /\ \/ UNCHANGED alloc
              \/ \E c \in Claims : alloc' = [alloc EXCEPT ![c] = {}]
           /\ UNCHANGED passVars
<1>1. ASSUME NEW c \in Claims, CreateClaim(c)
      PROVE  UNCHANGED <<alloc, passVars>>
  BY <1>1 DEF CreateClaim, Change
<1>2. ASSUME NEW c \in Claims, DeleteClaim(c)
      PROVE  alloc' = [alloc EXCEPT ![c] = {}] /\ UNCHANGED passVars
  BY <1>2 DEF DeleteClaim, Change
<1>3. ASSUME NEW c \in Claims, WriteClaim(c)
      PROVE  (UNCHANGED alloc \/ alloc' = [alloc EXCEPT ![c] = {}]) /\ UNCHANGED passVars
  BY <1>3 DEF WriteClaim, Change
<1>4. ASSUME NEW s \in Slices, PublishSlice(s)
      PROVE  UNCHANGED <<alloc, passVars>>
  BY <1>4 DEF PublishSlice, Change
<1>5. ASSUME NEW k \in Classes, ChangeClass(k)
      PROVE  UNCHANGED <<alloc, passVars>>
  BY <1>5 DEF ChangeClass, Change
<1>6. /\ \/ UNCHANGED alloc
         \/ \E c \in Claims : alloc' = [alloc EXCEPT ![c] = {}]
      /\ UNCHANGED passVars
  BY <1>1, <1>2, <1>3, <1>4, <1>5, Zenon DEF Environment
<1>7. QED
  BY <1>6 DEF TypeOK

\* A stored plan keeps the store in agreement.
LEMMA StoringPlanAgrees ==
    ASSUME IInv, pc = "write", StoreAllocation(index, plan)
    PROVE  /\ StoreAgrees'
           /\ index \in Claims
           /\ alloc[index] = {}
           /\ alloc' = [alloc EXCEPT ![index] = plan]
           /\ \A c \in Claims : c # index => alloc'[c] = alloc[c]
           /\ alloc'[index] = plan
<1> USE DEF IInv
<1>1. /\ index \in Claims
      /\ view[index] = {}
      /\ \A r, q \in plan : r.device = q.device => r = q
      /\ \A c \in Claims : \A r \in plan, q \in view[c] : Agree(r, q)
  BY DEF PlanIsSafe
<1>2. \A c \in Claims : alloc[c] \subseteq view[c]
  BY DEF CopiesCoverStore, Reading
<1>3. alloc[index] = {}
  BY <1>1, <1>2
<1>4. alloc' = [alloc EXCEPT ![index] = plan]
  BY DEF StoreAllocation
<1>5. /\ alloc'[index] = plan
      /\ \A c \in Claims : c # index => alloc'[c] = alloc[c]
  BY <1>1, <1>4 DEF TypeOK
<1>6. \A c \in Claims : \A r, q \in alloc'[c] : r.device = q.device => r = q
  BY <1>1, <1>5 DEF StoreAgrees
<1>7. ASSUME NEW b \in Claims, NEW c \in Claims, b # c,
             NEW r \in alloc'[b], NEW q \in alloc'[c]
      PROVE  Agree(r, q)
  <2>1. CASE b = index
    BY <1>1, <1>2, <1>5, <1>7, <2>1
  <2>2. CASE c = index
    <3>1. Agree(q, r)
      BY <1>1, <1>2, <1>5, <1>7, <2>2
    <3>2. QED
      BY <3>1 DEF Agree
  <2>3. CASE b # index /\ c # index
    BY <1>5, <1>7, <2>3 DEF StoreAgrees
  <2>4. QED
    BY <2>1, <2>2, <2>3
<1>8. StoreAgrees'
  BY <1>6, <1>7 DEF StoreAgrees, Agree
<1>9. QED
  BY <1>1, <1>3, <1>4, <1>5, <1>8

\* Every step preserves the inductive invariant.
LEMMA StepInvariant == IInv /\ [Next]_vars => IInv'
<1> SUFFICES ASSUME IInv, [Next]_vars
             PROVE  CopiesCoverStore' /\ PlanIsSafe' /\ StoreAgrees'
  BY TypesPreserved DEF IInv
<1> USE DEF IInv
<1>e. ASSUME EndPass, UNCHANGED alloc
      PROVE  CopiesCoverStore' /\ PlanIsSafe' /\ StoreAgrees'
  BY <1>e DEF EndPass, CopiesCoverStore, PlanIsSafe, StoreAgrees, Reading, Agree
<1>u. ASSUME UNCHANGED <<alloc, passVars>>
      PROVE  CopiesCoverStore' /\ PlanIsSafe' /\ StoreAgrees'
  BY <1>u DEF passVars, CopiesCoverStore, PlanIsSafe, StoreAgrees, Reading, Agree
<1>1. CASE Environment
  <2>1. /\ \A c \in Claims : alloc'[c] \in {alloc[c], {}}
        /\ UNCHANGED passVars
    BY <1>1, EnvironmentShrinks
  <2>2. StoreAgrees'
    BY <2>1 DEF StoreAgrees, Agree
  <2>3. CopiesCoverStore' /\ PlanIsSafe'
    BY <2>1 DEF passVars, CopiesCoverStore, PlanIsSafe, Reading, Agree
  <2>4. QED
    BY <2>2, <2>3
<1>2. CASE Queue
  BY <1>2, <1>u DEF Queue, DeliverEvent, BackoffExpires, storeVars
<1>3. CASE GetKey
  BY <1>3 DEF GetKey, storeVars, CopiesCoverStore, PlanIsSafe, StoreAgrees, Reading, Agree
<1>4. CASE ListClaims
  BY <1>4 DEF ListClaims, storeVars, CopiesCoverStore, PlanIsSafe, StoreAgrees, Reading, Agree
<1>5. CASE ListSlices
  BY <1>5 DEF ListSlices, storeVars, CopiesCoverStore, PlanIsSafe, StoreAgrees, Reading, Agree
<1>6. CASE ListClasses
  BY <1>6 DEF ListClasses, storeVars, CopiesCoverStore, PlanIsSafe, StoreAgrees, Reading, Agree
<1>7. CASE SkipClaim
  BY <1>7 DEF SkipClaim, storeVars, CopiesCoverStore, PlanIsSafe, StoreAgrees, Reading, Agree
<1>8. CASE PlanClaim
  <2>1. index \in Claims /\ view[index] = {} /\ plan' \in ClaimPlans(index)
    BY <1>8 DEF PlanClaim, TypeOK
  <2>2. /\ plan' # {}
        /\ \A r, q \in plan' : r.device = q.device => r = q
        /\ \A c \in Claims : \A r \in plan', q \in view[c] : Agree(r, q)
    <3>1. /\ listedSpec[index] \in Specs
          /\ view \in [Claims -> SUBSET Result]
          /\ listedSlices \in [Slices -> SliceObject]
      BY <2>1 DEF TypeOK
    <3>2. QED
      BY <2>1, <3>1, PlansAreSafe DEF ClaimPlans
  <2>3. UNCHANGED <<alloc, view, index>> /\ pc = "claim" /\ pc' = "write"
    BY <1>8 DEF PlanClaim, storeVars
  <2>4. PlanIsSafe'
    BY <2>1, <2>2, <2>3 DEF PlanIsSafe, Agree
  <2>5. QED
    BY <2>3, <2>4 DEF CopiesCoverStore, StoreAgrees, Reading, Agree
<1>9. CASE WriteAccepted
  <2>1. /\ pc = "write" /\ pc' = "claim"
        /\ StoreAllocation(index, plan)
        /\ view' = [view EXCEPT ![index] = plan]
    BY <1>9 DEF WriteAccepted
  <2>2. StoreAgrees'
    BY <2>1, StoringPlanAgrees
  <2>3. CopiesCoverStore'
    <3>1. \A c \in Claims : alloc'[c] \subseteq view'[c]
      BY <2>1, StoringPlanAgrees DEF CopiesCoverStore, Reading, TypeOK
    <3>2. QED
      BY <3>1 DEF CopiesCoverStore
  <2>4. PlanIsSafe'
    BY <2>1 DEF PlanIsSafe
  <2>5. QED
    BY <2>2, <2>3, <2>4
<1>10. CASE WriteAnswerLost
  <2>1. pc = "write" /\ pc' = "idle" /\ StoreAllocation(index, plan)
    BY <1>10 DEF WriteAnswerLost, EndPass
  <2>2. StoreAgrees'
    BY <2>1, StoringPlanAgrees
  <2>3. QED
    BY <2>1, <2>2 DEF CopiesCoverStore, PlanIsSafe, Reading
<1>11. CASE WriteRefused \/ PassSucceeds \/ ListFails \/ WriteFails \/ Restart
  <2>1. EndPass /\ UNCHANGED alloc
    BY <1>11 DEF WriteRefused, PassSucceeds, ListFails, WriteFails, Restart,
                 FailPass, storeVars
  <2>2. QED
    BY <2>1, <1>e
<1>12. CASE UNCHANGED vars
  BY <1>12, <1>u DEF vars, storeVars
<1>13. QED
  BY <1>1, <1>2, <1>3, <1>4, <1>5, <1>6, <1>7, <1>8, <1>9, <1>10, <1>11,
     <1>12 DEF Next, Worker, Failure

\* The inductive invariant holds in every reachable state.
THEOREM InductiveInvariant == Spec => []IInv
<1>1. QED
  BY InitInvariant, StepInvariant, PTL DEF Spec

\* No device is ever allocated twice unless all its allocations are shares.
THEOREM NoDoubleAllocationHolds == Spec => []NoDoubleAllocation
<1>1. IInv => NoDoubleAllocation
  <2> SUFFICES ASSUME IInv,
                      NEW g \in HeldResults(alloc), NEW h \in HeldResults(alloc),
                      g # h, g[2].device = h[2].device, ~g[2].shared
               PROVE  FALSE
    BY DEF NoDoubleAllocation, UsageConflict
  <2>1. DOMAIN alloc = Claims
    BY DEF IInv, TypeOK
  <2>2. PICK b \in Claims : g \in {b} \X alloc[b]
    BY <2>1 DEF HeldResults
  <2>3. PICK c \in Claims : h \in {c} \X alloc[c]
    BY <2>1 DEF HeldResults
  <2>4. g[2] \in alloc[b] /\ h[2] \in alloc[c] /\ g = <<b, g[2]>> /\ h = <<c, h[2]>>
    BY <2>2, <2>3
  <2>5. CASE b = c
    BY <2>4, <2>5 DEF IInv, StoreAgrees
  <2>6. CASE b # c
    BY <2>4, <2>6 DEF IInv, StoreAgrees, Agree
  <2>7. QED
    BY <2>5, <2>6
<1>2. QED
  BY <1>1, InductiveInvariant, PTL

\* How a step may change what claims hold.
LEMMA StepOfLedger ==
    ASSUME IInv, [Next]_vars
    PROVE  \/ UNCHANGED alloc
           \/ \E c \in Claims : alloc' = [alloc EXCEPT ![c] = {}]
           \/ /\ pc = "write" /\ StoreAllocation(index, plan)
<1>1. CASE Environment
  BY <1>1, EnvironmentShrinks DEF IInv
<1>2. CASE ~Environment
  BY <1>2 DEF Next, Queue, DeliverEvent, BackoffExpires, Worker, GetKey,
     ListClaims, ListSlices, ListClasses, SkipClaim, PlanClaim, WriteAccepted,
     WriteRefused, PassSucceeds, Failure, ListFails, WriteFails,
     WriteAnswerLost, Restart, storeVars, vars
<1>3. QED
  BY <1>1, <1>2

\* A claim's allocation is never replaced by another one.
THEOREM AllocationsNeverMoveHolds == Spec => AllocationsNeverMove
<1>1. IInv /\ [Next]_vars
        => [\A c \in Claims : alloc[c] # {} => alloc'[c] \in {alloc[c], {}}]_vars
  <2> SUFFICES ASSUME IInv, [Next]_vars, NEW c \in Claims, alloc[c] # {}
               PROVE  alloc'[c] \in {alloc[c], {}}
    OBVIOUS
  <2>1. CASE UNCHANGED alloc
    BY <2>1
  <2>2. CASE \E b \in Claims : alloc' = [alloc EXCEPT ![b] = {}]
    BY <2>2 DEF IInv, TypeOK
  <2>3. CASE pc = "write" /\ StoreAllocation(index, plan)
    BY <2>3, StoringPlanAgrees
  <2>4. QED
    BY <2>1, <2>2, <2>3, StepOfLedger
<1>2. QED
  BY <1>1, InductiveInvariant, PTL DEF Spec, AllocationsNeverMove

\* The pipeline implements the ledger of atomic grants and releases.
THEOREM ImplementsLedgerHolds == Spec => ImplementsLedger
<1>1. Init => Ledger!LedgerInit
  BY DEF Init, NoResults, Ledger!LedgerInit
<1>2. IInv /\ [Next]_vars => [Ledger!LedgerNext]_alloc
  <2> SUFFICES ASSUME IInv, [Next]_vars PROVE [Ledger!LedgerNext]_alloc
    OBVIOUS
  <2>1. CASE UNCHANGED alloc
    BY <2>1
  <2>2. CASE \E c \in Claims : alloc' = [alloc EXCEPT ![c] = {}]
    BY <2>2 DEF Ledger!LedgerNext, Ledger!Release
  <2>3. CASE pc = "write" /\ StoreAllocation(index, plan)
    <3>1. /\ index \in Claims
          /\ alloc[index] = {}
          /\ alloc' = [alloc EXCEPT ![index] = plan]
          /\ alloc'[index] = plan
      BY <2>3, StoringPlanAgrees
    <3>2. /\ plan # {}
          /\ plan \subseteq Result
          /\ \A r, q \in plan : r.device = q.device => r = q
          /\ \A c \in Claims : \A r \in plan, q \in view[c] : Agree(r, q)
      BY <2>3 DEF IInv, PlanIsSafe, TypeOK
    <3>3. \A c \in Claims : alloc[c] \subseteq view[c]
      BY <2>3 DEF IInv, CopiesCoverStore, Reading
    <3>4. \A e, f \in plan : e # f => Ledger!Compatible(e, f)
      BY <3>2 DEF Ledger!Compatible
    <3>5. \A b \in Claims : \A e \in plan, f \in alloc[b] : Ledger!Compatible(e, f)
      BY <3>2, <3>3 DEF Ledger!Compatible, Agree
    <3>6. Ledger!Grant(index)
      BY <3>1, <3>2, <3>4, <3>5 DEF Ledger!Grant
    <3>7. QED
      BY <3>1, <3>6 DEF Ledger!LedgerNext
  <2>4. QED
    BY <2>1, <2>2, <2>3, StepOfLedger
<1>3. QED
  BY <1>1, <1>2, InductiveInvariant, PTL
     DEF Spec, ImplementsLedger, Ledger!LedgerSpec
-----------------------------------------------------------------------------
\* A set of results is a complete answer to a claim spec.
Answers(results, sp) ==
    /\ Cardinality(results) = NormalizedCount(sp.count)
    /\ {r.device : r \in results} \subseteq Selected[sp.class]
    /\ Cardinality({r.node : r \in results}) = 1

\* As long as a claim has its listed version it exists and its spec is the one
\* the pass read.
ListedSpecsAreCurrent ==
    \A c \in unchanged : c \in present /\ listedSpec[c] = spec[c]

\* The plan about to be written answers the spec the pass read.
PlanAnswers == pc = "write" => Answers(plan, listedSpec[index])

\* What makes AllocationAnswersSpec inductive.
AnswerInv == ListedSpecsAreCurrent /\ PlanAnswers /\ AllocationAnswersSpec

\* Sets with as many elements as an image that keeps them apart.
LEMMA ImageKeepsCount ==
    ASSUME NEW S, NEW T, IsFiniteSet(S), NEW f \in [S -> T],
           \A x, y \in S : f[x] = f[y] => x = y,
           \A t \in T : \E x \in S : f[x] = t
    PROVE  Cardinality(T) = Cardinality(S)
<1>1. f \in Bijection(S, T)
  BY DEF Bijection, Injection, Surjection, IsInjective
<1>2. ExistsBijection(S, T)
  BY <1>1 DEF ExistsBijection
<1>3. QED
  BY <1>2, FS_Bijection

\* Candidates are selected by the class, and results name the chosen node.
LEMMA CandidateIsSelected ==
    ASSUME NEW sl \in [Slices -> SliceObject], NEW n \in Nodes,
           NEW sp \in Specs, NEW held \in [Claims -> SUBSET Result],
           NEW d \in Candidates(sl, n, sp, held)
    PROVE  /\ d \in Selected[sp.class]
           /\ ResultFor(sl, n, d, sp, held).node = n
<1>1. \E s \in Slices : Accepts(sl, s, d, sp, held)
  BY DEF Candidates, FirstAccepted
<1>2. d \in Selected[sp.class]
  BY <1>1 DEF Accepts, Offers
<1>3. QED
  BY <1>2 DEF ResultFor

\* Every answer of the planner answers the spec: the right number of devices,
\* all matched by the class, all on one node.
LEMMA PlansAnswer ==
    ASSUME NEW sp \in Specs, NEW held \in [Claims -> SUBSET Result],
           NEW sl \in [Slices -> SliceObject], NEW cl,
           NEW p \in Plans(sp, held, sl, cl)
    PROVE  Answers(p, sp)
<1> DEFINE k == NormalizedCount(sp.count)
<1>0. PICK n \in Nodes :
          \E D \in kSubset(k, Candidates(sl, n, sp, held)) :
              p = {ResultFor(sl, n, d, sp, held) : d \in D}
  BY Zenon DEF Plans, NodePlans
<1>1. PICK D \in kSubset(k, Candidates(sl, n, sp, held)) :
          p = {ResultFor(sl, n, d, sp, held) : d \in D}
  BY <1>0
<1>2. D \subseteq Candidates(sl, n, sp, held) /\ Cardinality(D) = k
  BY <1>1 DEF kSubset
<1>3. IsFiniteSet(D)
  <2>1. D \in SUBSET Devices
    BY <1>2 DEF Candidates
  <2>2. QED
    BY <2>1, FS_Subset, ClaimPlanAssumption
<1> DEFINE f == [d \in D |-> ResultFor(sl, n, d, sp, held)]
<1>4. \A d \in D : /\ f[d].device = d
                   /\ f[d].node = n
                   /\ d \in Selected[sp.class]
  BY <1>2, ResultForCandidate, CandidateIsSelected
<1>5. f \in [D -> p] /\ \A r \in p : \E d \in D : f[d] = r
  BY <1>1
<1> HIDE DEF f
<1>6. Cardinality(p) = k
  <2>1. \A x, y \in D : f[x] = f[y] => x = y
    BY <1>4
  <2>2. QED
    BY <1>2, <1>3, <1>5, <2>1, ImageKeepsCount
<1>7. {r.device : r \in p} \subseteq Selected[sp.class]
  BY <1>4, <1>5
<1>8. {r.node : r \in p} = {n}
  <2>1. p # {}
    BY PlansAreSafe
  <2>2. \A r \in p : r.node = n
    BY <1>4, <1>5
  <2>3. QED
    BY <2>1, <2>2
<1>9. QED
  BY <1>6, <1>7, <1>8, FS_Singleton DEF Answers

\* A write that is accepted stores an answer to the spec the claim has now.
LEMMA StoringAnswers ==
    ASSUME IInv, AnswerInv, pc = "write", CanWrite(index),
           StoreAllocation(index, plan)
    PROVE  AllocationAnswersSpec'
<1>1. /\ index \in Claims
      /\ alloc'[index] = plan
      /\ \A c \in Claims : c # index => alloc'[c] = alloc[c]
  BY StoringPlanAgrees
<1>2. index \in present /\ listedSpec[index] = spec[index]
  BY DEF CanWrite, AnswerInv, ListedSpecsAreCurrent
<1>3. Answers(plan, spec[index])
  BY <1>2 DEF AnswerInv, PlanAnswers
<1>4. present' = present /\ spec' = spec
  BY DEF StoreAllocation
<1>5. ASSUME NEW c \in Claims, alloc'[c] # {}
      PROVE  c \in present' /\ Answers(alloc'[c], spec'[c])
  <2>1. CASE c = index
    BY <1>1, <1>2, <1>3, <1>4, <2>1
  <2>2. CASE c # index
    BY <1>1, <1>4, <1>5, <2>2 DEF AnswerInv, AllocationAnswersSpec, Answers
  <2>3. QED
    BY <2>1, <2>2
<1>6. QED
  BY <1>5 DEF AllocationAnswersSpec, Answers

\* The environment may end a claim or give it another spec, and the claim then
\* has another version and holds nothing.
LEMMA EnvironmentAnswers ==
    ASSUME IInv, AnswerInv, Environment
    PROVE  ListedSpecsAreCurrent' /\ AllocationAnswersSpec'
<1> USE DEF AnswerInv, IInv, TypeOK
<1>0. \A c \in Claims : alloc[c] # {} => c \in present /\ Answers(alloc[c], spec[c])
  BY DEF AllocationAnswersSpec, Answers
<1>1. UNCHANGED listedSpec
  BY EnvironmentShrinks DEF passVars
<1>2. ASSUME NEW c \in Claims, unchanged' \subseteq unchanged, c \notin unchanged',
             \A b \in Claims \ {c} :
                 /\ alloc'[b] = alloc[b] /\ spec'[b] = spec[b]
                 /\ b \in present => b \in present',
             alloc'[c] # {} => /\ alloc'[c] = alloc[c] /\ spec'[c] = spec[c]
                               /\ c \in present'
      PROVE  ListedSpecsAreCurrent' /\ AllocationAnswersSpec'
  <2>1. ListedSpecsAreCurrent'
    BY <1>1, <1>2 DEF ListedSpecsAreCurrent
  <2>2. \A b \in Claims : alloc'[b] # {} => b \in present' /\ Answers(alloc'[b], spec'[b])
    BY <1>0, <1>2
  <2>3. QED
    BY <2>1, <2>2 DEF AllocationAnswersSpec, Answers
<1>3. ASSUME NEW c \in Claims, CreateClaim(c)
      PROVE  ListedSpecsAreCurrent' /\ AllocationAnswersSpec'
  <2>1. alloc[c] = {}
    BY <1>0, <1>3 DEF CreateClaim
  <2>2. QED
    BY <1>2, <1>3, <2>1 DEF CreateClaim
<1>4. ASSUME NEW c \in Claims, DeleteClaim(c)
      PROVE  ListedSpecsAreCurrent' /\ AllocationAnswersSpec'
  BY <1>2, <1>4 DEF DeleteClaim
<1>5. ASSUME NEW c \in Claims, WriteClaim(c)
      PROVE  ListedSpecsAreCurrent' /\ AllocationAnswersSpec'
  BY <1>2, <1>5 DEF WriteClaim
<1>6. ASSUME UNCHANGED <<present, spec, alloc, unchanged>>
      PROVE  ListedSpecsAreCurrent' /\ AllocationAnswersSpec'
  BY <1>1, <1>6 DEF ListedSpecsAreCurrent, AllocationAnswersSpec
<1>7. QED
  BY <1>3, <1>4, <1>5, <1>6 DEF Environment, PublishSlice, ChangeClass

\* Every step preserves it.
LEMMA StepAnswers == IInv /\ AnswerInv /\ [Next]_vars => AnswerInv'
<1> SUFFICES ASSUME IInv, AnswerInv, [Next]_vars PROVE AnswerInv'
  OBVIOUS
<1>a. ASSUME UNCHANGED <<present, spec, alloc>> PROVE AllocationAnswersSpec'
  BY <1>a DEF AnswerInv, AllocationAnswersSpec
<1>l. ASSUME UNCHANGED <<present, spec, listedSpec>>, unchanged' \subseteq unchanged
      PROVE  ListedSpecsAreCurrent'
  BY <1>l DEF AnswerInv, ListedSpecsAreCurrent
<1>p. ASSUME UNCHANGED passVars PROVE PlanAnswers'
  BY <1>p DEF AnswerInv, PlanAnswers, passVars, Answers
<1>e. ASSUME EndPass PROVE ListedSpecsAreCurrent' /\ PlanAnswers'
  BY <1>e DEF EndPass, ListedSpecsAreCurrent, PlanAnswers
<1>1. CASE Environment
  BY <1>1, <1>p, EnvironmentAnswers, EnvironmentShrinks DEF AnswerInv, IInv
<1>2. CASE Queue \/ UNCHANGED vars
  <2>1. UNCHANGED <<storeVars, passVars, unchanged>>
    BY <1>2 DEF Queue, DeliverEvent, BackoffExpires, vars
  <2>2. QED
    BY <2>1, <1>a, <1>l, <1>p DEF storeVars, passVars, AnswerInv
<1>3. CASE GetKey \/ ListSlices \/ ListClasses \/ SkipClaim
  <2>1. /\ UNCHANGED <<present, spec, alloc, listedSpec, unchanged>>
        /\ pc' # "write"
    BY <1>3 DEF GetKey, ListSlices, ListClasses, SkipClaim, storeVars
  <2>2. QED
    BY <2>1, <1>a, <1>l DEF PlanAnswers, AnswerInv
<1>4. CASE ListClaims
  <2>1. ListedSpecsAreCurrent' /\ PlanAnswers'
    BY <1>4 DEF ListClaims, storeVars, ListedSpecsAreCurrent, PlanAnswers
  <2>2. QED
    BY <1>4, <2>1, <1>a DEF ListClaims, storeVars, AnswerInv
<1>5. CASE PlanClaim
  <2>1. /\ index \in Claims /\ plan' \in ClaimPlans(index)
        /\ UNCHANGED <<present, spec, alloc, listedSpec, unchanged, index>>
    BY <1>5 DEF PlanClaim, storeVars, IInv, TypeOK
  <2>2. Answers(plan', listedSpec[index])
    <3>1. /\ listedSpec[index] \in Specs
          /\ view \in [Claims -> SUBSET Result]
          /\ listedSlices \in [Slices -> SliceObject]
      BY <2>1 DEF IInv, TypeOK
    <3>2. QED
      BY <2>1, <3>1, PlansAnswer DEF ClaimPlans
  <2>3. PlanAnswers'
    BY <2>1, <2>2 DEF PlanAnswers, Answers
  <2>4. QED
    BY <2>1, <2>3, <1>a, <1>l DEF AnswerInv
<1>6. CASE WriteAccepted
  <2>1. AllocationAnswersSpec'
    BY <1>6, StoringAnswers DEF WriteAccepted
  <2>2. /\ UNCHANGED <<present, spec, listedSpec, unchanged>>
        /\ pc' # "write"
    BY <1>6 DEF WriteAccepted, StoreAllocation
  <2>3. QED
    BY <2>1, <2>2, <1>l DEF AnswerInv, PlanAnswers
<1>7. CASE WriteAnswerLost
  <2>1. AllocationAnswersSpec'
    BY <1>7, StoringAnswers DEF WriteAnswerLost
  <2>2. QED
    BY <1>7, <2>1, <1>e DEF WriteAnswerLost, AnswerInv
<1>8. CASE WriteRefused \/ PassSucceeds \/ ListFails \/ WriteFails \/ Restart
  <2>1. EndPass /\ UNCHANGED storeVars
    BY <1>8 DEF WriteRefused, PassSucceeds, ListFails, WriteFails, Restart, FailPass
  <2>2. QED
    BY <2>1, <1>a, <1>e DEF storeVars, AnswerInv
<1>9. QED
  BY <1>1, <1>2, <1>3, <1>4, <1>5, <1>6, <1>7, <1>8 DEF Next, Worker, Failure

\* Whatever a claim holds answers the spec it has now, from one node: a plan
\* made for a claim that was deleted and created again never reaches the new
\* claim, with lost answers, retries and restarts.
THEOREM AllocationAnswersSpecHolds == Spec => []AllocationAnswersSpec
<1>1. Init => AnswerInv
  BY DEF Init, AnswerInv, ListedSpecsAreCurrent, PlanAnswers,
         AllocationAnswersSpec, NoResults
<1>2. AnswerInv => AllocationAnswersSpec
  BY DEF AnswerInv
<1>3. QED
  BY <1>1, <1>2, StepAnswers, InductiveInvariant, PTL DEF Spec
-----------------------------------------------------------------------------
\* A sum of amounts is the number of units: one token per unit of each element.
Tokens(S) == UNION {{h} \X (1..h[2].amount) : h \in S}

\* Tokens are finitely many, and monotone.
LEMMA TokensFinite ==
    ASSUME NEW S, IsFiniteSet(S), \A h \in S : h[2].amount \in Nat
    PROVE  IsFiniteSet(Tokens(S))
<1> DEFINE T == {{h} \X (1..h[2].amount) : h \in S}
           f == [h \in S |-> {h} \X (1..h[2].amount)]
<1>1. f \in Surjection(S, T)
  BY DEF Surjection
<1>2. IsFiniteSet(T)
  BY <1>1, FS_Surjection
<1>3. ASSUME NEW h \in S PROVE IsFiniteSet({h} \X (1..h[2].amount))
  <2>1. h[2].amount \in Int
    OBVIOUS
  <2>2. IsFiniteSet(1..h[2].amount)
    BY <2>1, FS_Interval
  <2>3. QED
    BY <2>2, FS_Singleton, FS_Product
<1>4. QED
  BY <1>2, <1>3, FS_UNION DEF Tokens

\* Taking one element out of a set takes its amount of tokens away.
LEMMA TokensSplit ==
    ASSUME NEW S, IsFiniteSet(S), \A h \in S : h[2].amount \in Nat, NEW x \in S
    PROVE  Cardinality(Tokens(S)) = x[2].amount + Cardinality(Tokens(S \ {x}))
<1> DEFINE X == {x} \X (1..x[2].amount)
           R == Tokens(S \ {x})
<1>1. x[2].amount \in Nat /\ x[2].amount \in Int
  OBVIOUS
<1>2. IsFiniteSet(X) /\ Cardinality(X) = x[2].amount
  <2>0. \A n \in Nat : IsFiniteSet(1..n) /\ Cardinality(1..n) = n
    BY FS_Interval
  <2>1. IsFiniteSet({x}) /\ Cardinality({x}) = 1
    BY FS_Singleton
  <2>2. /\ IsFiniteSet(X)
        /\ Cardinality(X) = Cardinality({x}) * Cardinality(1..x[2].amount)
    BY <1>1, <2>0, <2>1, FS_Product
  <2>3. \A n \in Nat : 1 * n = n
    OBVIOUS
  <2>4. Cardinality(X) = 1 * x[2].amount
    BY <1>1, <2>0, <2>1, <2>2, Zenon
  <2>5. QED
    BY <1>1, <2>2, <2>3, <2>4
<1>3. IsFiniteSet(S \ {x})
  BY FS_RemoveElement
<1>4. IsFiniteSet(R)
  BY <1>3, TokensFinite
<1>5. Tokens(S) = X \union R
  BY DEF Tokens
<1>6. X \cap R = {}
  BY DEF Tokens
<1>7. Cardinality(R) \in Nat
  BY <1>4, FS_CardinalityType
<1> HIDE DEF X, R
<1>8. Cardinality(X \union R) = Cardinality(X) + Cardinality(R) - Cardinality({})
  BY <1>2, <1>4, <1>6, FS_Union
<1>9. Cardinality(Tokens(S)) = x[2].amount + Cardinality(R)
  BY <1>1, <1>2, <1>5, <1>7, <1>8, FS_EmptySet
<1>10. QED
  BY <1>9 DEF R

\* The recursive sum has a value, and it is the number of tokens: the count
\* satisfies the recursion, and by well-founded induction on the subsets of S
\* nothing else does.
LEMMA SumCountsTokens ==
    ASSUME NEW S, IsFiniteSet(S), \A h \in S : h[2].amount \in Nat
    PROVE  MapThenSumSet(LAMBDA h : h[2].amount, S) = Cardinality(Tokens(S))
<1> DEFINE Pick(s) == CHOOSE x \in s : TRUE
           Rec(g) == [s \in SUBSET S |->
                        IF s = {} THEN 0
                        ELSE Pick(s)[2].amount + g[s \ {Pick(s)}]]
           f == CHOOSE g : g = Rec(g)
           count == [s \in SUBSET S |-> Cardinality(Tokens(s))]
<1>1. MapThenSumSet(LAMBDA h : h[2].amount, S) = f[S]
  BY Zenon DEF MapThenSumSet, MapThenFoldSet
<1>2. \A s \in SUBSET S : s # {} => Pick(s) \in s
  OBVIOUS
<1> HIDE DEF Pick
<1>3. ASSUME NEW s \in SUBSET S, s # {}
      PROVE  count[s] = Pick(s)[2].amount + count[s \ {Pick(s)}]
  <2>1. IsFiniteSet(s) /\ Pick(s) \in s
    BY <1>2, <1>3, FS_Subset
  <2>2. Cardinality(Tokens(s)) = Pick(s)[2].amount + Cardinality(Tokens(s \ {Pick(s)}))
    BY <2>1, TokensSplit
  <2>3. QED
    BY <2>2
<1>4. count[{}] = 0
  <2>1. Tokens({}) = {}
    BY DEF Tokens
  <2>2. QED
    BY <2>1, FS_EmptySet
<1>5. count = Rec(count)
  <2>1. \A s \in SUBSET S : count[s] = Rec(count)[s]
    <3> HIDE DEF count
    <3>1. QED
      BY <1>3, <1>4
  <2> HIDE DEF count
  <2>2. count = [s \in SUBSET S |-> count[s]]
    BY DEF count
  <2>3. QED
    BY <2>1, <2>2
<1>6. f = Rec(f)
  <2> HIDE DEF Rec, count
  <2>1. QED
    BY <1>5
<1>7. \A s \in SUBSET S : f[s] = count[s]
  <2> DEFINE Bad == {s \in SUBSET S : f[s] # count[s]}
  <2> SUFFICES ASSUME Bad # {} PROVE FALSE
    OBVIOUS
  <2>0. FiniteSubsetsOf(S) = SUBSET S
    BY FS_FiniteSubsetsOfFinite
  <2>1. IsWellFoundedOn(StrictSubsetOrdering(S), SUBSET S)
    BY <2>0, FS_StrictSubsetOrderingWellFounded
  <2>2. \E s \in Bad : \A t \in Bad : ~ (<<t, s>> \in StrictSubsetOrdering(S))
    <3>1. Bad \subseteq SUBSET S
      OBVIOUS
    <3> HIDE DEF Bad
    <3>2. QED
      BY <2>1, <3>1, WFMin
  <2>3. PICK s \in Bad : \A t \in Bad : ~ (<<t, s>> \in StrictSubsetOrdering(S))
    BY <2>2
  <2> HIDE DEF f, count
  <2>4. \A t \in SUBSET S : t \subseteq s /\ t # s => f[t] = count[t]
    BY <2>3 DEF StrictSubsetOrdering
  <2>5. s # {}
    BY <1>4, <1>6, <2>3
  <2>6. f[s] = Pick(s)[2].amount + f[s \ {Pick(s)}]
    BY <1>6, <2>3, <2>5
  <2>7. f[s \ {Pick(s)}] = count[s \ {Pick(s)}]
    BY <1>2, <2>3, <2>4, <2>5
  <2>8. QED
    BY <1>3, <2>3, <2>5, <2>6, <2>7
<1>8. QED
  BY <1>1, <1>7

\* The shares of a device, each with the claim that holds it.
SharesOf(held, d) == {h \in HeldResults(held) : h[2].device = d /\ h[2].shared}

\* What is consumed of a device is the number of tokens of its shares.
LEMMA ConsumedCounts ==
    ASSUME NEW held \in [Claims -> SUBSET Result],
           \A c \in Claims : IsFiniteSet(held[c]), NEW d
    PROVE  /\ IsFiniteSet(SharesOf(held, d))
           /\ \A h \in SharesOf(held, d) : h[2].amount \in Nat
           /\ IsFiniteSet(Tokens(SharesOf(held, d)))
           /\ Consumed(held, d) = Cardinality(Tokens(SharesOf(held, d)))
           /\ Consumed(held, d) \in Nat
<1> DEFINE S == SharesOf(held, d)
<1>1. IsFiniteSet(S)
  <2> DEFINE T == {{c} \X held[c] : c \in Claims}
             f == [c \in Claims |-> {c} \X held[c]]
  <2>1. f \in Surjection(Claims, T)
    BY DEF Surjection
  <2>2. IsFiniteSet(Claims)
    BY FS_Interval, ClaimPlanAssumption DEF Claims
  <2>3. IsFiniteSet(T)
    BY <2>1, <2>2, FS_Surjection
  <2>4. \A t \in T : IsFiniteSet(t)
    <3>1. ASSUME NEW c \in Claims PROVE IsFiniteSet({c} \X held[c])
      BY FS_Singleton, FS_Product
    <3>2. QED
      BY <3>1
  <2>5. IsFiniteSet(UNION T)
    BY <2>3, <2>4, FS_UNION
  <2>6. DOMAIN held = Claims
    OBVIOUS
  <2>7. S \in SUBSET (UNION T)
    BY <2>6 DEF SharesOf, HeldResults
  <2>8. QED
    BY <2>5, <2>7, FS_Subset
<1>2. \A h \in S : h[2].amount \in Nat
  <2>1. ASSUME NEW h \in S PROVE h[2].amount \in Nat
    <3>1. PICK c \in DOMAIN held : h \in {c} \X held[c]
      BY DEF SharesOf, HeldResults
    <3>2. h[2] \in Result
      BY <3>1
    <3>3. QED
      BY <3>2 DEF Result
  <2>2. QED
    BY <2>1
<1>3. Consumed(held, d) = MapThenSumSet(LAMBDA h : h[2].amount, S)
  BY Zenon DEF Consumed, SharesOf
<1> HIDE DEF S
<1>4. Consumed(held, d) = Cardinality(Tokens(S)) /\ IsFiniteSet(Tokens(S))
  BY <1>1, <1>2, <1>3, SumCountsTokens, TokensFinite
<1>5. QED
  BY <1>1, <1>2, <1>4, FS_CardinalityType DEF S

\* Claims that hold less consume less.
LEMMA ConsumedMonotone ==
    ASSUME NEW held \in [Claims -> SUBSET Result],
           NEW wide \in [Claims -> SUBSET Result],
           \A c \in Claims : IsFiniteSet(wide[c]) /\ held[c] \subseteq wide[c],
           NEW d
    PROVE  Consumed(held, d) <= Consumed(wide, d)
<1>1. \A c \in Claims : IsFiniteSet(held[c])
  BY FS_Subset
<1>2. SharesOf(held, d) \subseteq SharesOf(wide, d)
  BY DEF SharesOf, HeldResults
<1>3. Tokens(SharesOf(held, d)) \in SUBSET Tokens(SharesOf(wide, d))
  BY <1>2 DEF Tokens
<1>4. QED
  BY <1>1, <1>3, ConsumedCounts, FS_Subset

\* A plan whose shares each leave enough room can be added as a whole: it takes
\* a device at most once.
LEMMA ConsumedWithPlan ==
    ASSUME NEW held \in [Claims -> SUBSET Result],
           \A b \in Claims : IsFiniteSet(held[b]),
           \A e \in Devices : Consumed(held, e) <= Capacity[e],
           NEW c \in Claims, held[c] = {},
           NEW p \in SUBSET Result, IsFiniteSet(p),
           \A r, q \in p : r.device = q.device => r = q,
           \A r \in p : r.shared =>
               Consumed(held, r.device) + r.amount <= Capacity[r.device],
           NEW d \in Devices
    PROVE  Consumed([held EXCEPT ![c] = p], d) <= Capacity[d]
<1> DEFINE next == [held EXCEPT ![c] = p]
<1>1. /\ next \in [Claims -> SUBSET Result]
      /\ next[c] = p
      /\ \A b \in Claims \ {c} : next[b] = held[b]
      /\ \A b \in Claims : IsFiniteSet(next[b])
  OBVIOUS
<1> HIDE DEF next
<1>2. /\ HeldResults(held) = {h \in HeldResults(next) : h[1] # c}
      /\ \A h : h \in HeldResults(next) /\ h[1] = c <=> \E r \in p : h = <<c, r>>
  <2>1. /\ \A h : h \in HeldResults(held) <=> \E b \in Claims : \E r \in held[b] : h = <<b, r>>
        /\ \A h : h \in HeldResults(next) <=> \E b \in Claims : \E r \in next[b] : h = <<b, r>>
    BY <1>1 DEF HeldResults
  <2>2. QED
    BY <1>1, <2>1
<1>3. ASSUME \A r \in p : ~(r.device = d /\ r.shared)
      PROVE  Consumed(next, d) <= Capacity[d]
  <2>1. SharesOf(next, d) = SharesOf(held, d)
    BY <1>2, <1>3 DEF SharesOf
  <2>2. Consumed(next, d) = Consumed(held, d)
    BY <1>1, <2>1, ConsumedCounts
  <2>3. QED
    BY <2>2
<1>4. ASSUME NEW r \in p, r.device = d, r.shared
      PROVE  Consumed(next, d) <= Capacity[d]
  <2>1. <<c, r>> \in SharesOf(next, d)
    BY <1>2, <1>4 DEF SharesOf
  <2>2. SharesOf(next, d) \ {<<c, r>>} = SharesOf(held, d)
    BY <1>2, <1>4 DEF SharesOf
  <2>3. Cardinality(Tokens(SharesOf(next, d)))
          = r.amount + Cardinality(Tokens(SharesOf(held, d)))
    <3>1. /\ IsFiniteSet(SharesOf(next, d))
          /\ \A h \in SharesOf(next, d) : h[2].amount \in Nat
      BY <1>1, ConsumedCounts
    <3>2. Cardinality(Tokens(SharesOf(next, d)))
            = <<c, r>>[2].amount + Cardinality(Tokens(SharesOf(next, d) \ {<<c, r>>}))
      BY <2>1, <3>1, TokensSplit
    <3>3. QED
      BY <2>2, <3>2
  <2>4. Consumed(next, d) = r.amount + Consumed(held, d) /\ Consumed(held, d) \in Nat
    BY <1>1, <2>3, ConsumedCounts
  <2>5. r.amount \in Nat
    BY DEF Result
  <2>6. QED
    BY <1>4, <2>4, <2>5
<1>5. QED
  BY <1>3, <1>4 DEF next

\* Each share of a planner's answer leaves enough room.
LEMMA PlansFit ==
    ASSUME NEW sp \in Specs, NEW held \in [Claims -> SUBSET Result],
           \A c \in Claims : IsFiniteSet(held[c]),
           NEW sl \in [Slices -> SliceObject], NEW cl,
           NEW p \in Plans(sp, held, sl, cl)
    PROVE  /\ IsFiniteSet(p)
           /\ \A r \in p : r.shared =>
                  Consumed(held, r.device) + r.amount <= Capacity[r.device]
<1> DEFINE k == NormalizedCount(sp.count)
           ResFor(n, d) == ResultFor(sl, n, d, sp, held)
<1>1. PICK n \in Nodes :
          \E D \in kSubset(k, Candidates(sl, n, sp, held)) :
              p = {ResFor(n, d) : d \in D}
  BY Zenon DEF Plans, NodePlans
<1>2. PICK D \in SUBSET Candidates(sl, n, sp, held) : p = {ResFor(n, d) : d \in D}
  BY <1>1 DEF kSubset
<1>3. IsFiniteSet(p)
  <2>1. D \in SUBSET Devices
    BY <1>2 DEF Candidates
  <2>2. IsFiniteSet(D)
    BY <2>1, FS_Subset, ClaimPlanAssumption
  <2>3. [d \in D |-> ResFor(n, d)] \in Surjection(D, p)
    BY <1>2 DEF Surjection
  <2>4. QED
    BY <2>2, <2>3, FS_Surjection
<1>4. ASSUME NEW d \in D, ResFor(n, d).shared
      PROVE  Consumed(held, d) + ResFor(n, d).amount <= Capacity[d]
  <2> DEFINE s == CHOOSE s \in Slices : FirstAccepted(sl, s, d, sp, held)
             share == sl[s].mode[d] = "shareable"
  <2>1. d \in Devices /\ \E t \in Slices : FirstAccepted(sl, t, d, sp, held)
    BY <1>2 DEF Candidates
  <2>2. s \in Slices /\ FirstAccepted(sl, s, d, sp, held)
    BY <2>1
  <2>3. Accepts(sl, s, d, sp, held)
    BY <2>2 DEF FirstAccepted
  <2>4. ResFor(n, d) = [device |-> d, node |-> n, shared |-> share,
                     amount |-> IF share THEN ShareAmount(sp, d) ELSE 0]
    BY DEF ResultFor
  <2> HIDE DEF s
  <2>5. share /\ ResFor(n, d).amount = ShareAmount(sp, d)
    <3>0. share \in BOOLEAN
      OBVIOUS
    <3>1. ResFor(n, d).shared = share
      BY <2>4, <3>0
    <3>2. share
      BY <1>4, <3>1, Zenon
    <3>3. QED
      BY <2>4, <3>2
  <2>6. ~(Consumed(held, d) + ShareAmount(sp, d) > Capacity[d])
    BY <2>3, <2>5 DEF Accepts, CapacityExceeded
  <2>7. ShareAmount(sp, d) \in Nat /\ Capacity[d] \in Nat
    BY <2>1, ClaimPlanAssumption DEF ShareAmount
  <2>8. Consumed(held, d) \in Nat
    BY ConsumedCounts
  <2>9. QED
    BY <2>5, <2>6, <2>7, <2>8
<1>5. ASSUME NEW d \in D PROVE ResFor(n, d).device = d
  BY <1>2, ResultForCandidate
<1>6. QED
  BY <1>2, <1>3, <1>4, <1>5

\* What makes CapacityRespected inductive: the copies of a pass respect the
\* capacities too, and each share about to be written fits beside them.
CapacityInv ==
    /\ \A c \in Claims : IsFiniteSet(alloc[c])
    /\ \A c \in Claims : IsFiniteSet(view[c])
    /\ IsFiniteSet(plan)
    /\ CapacityRespected
    /\ Reading => \A d \in Devices : Consumed(view, d) <= Capacity[d]
    /\ pc = "write" => \A r \in plan : r.shared =>
           Consumed(view, r.device) + r.amount <= Capacity[r.device]

\* The copies with the plan added cover the store with the plan stored.
LEMMA StoringFits ==
    ASSUME IInv, CapacityInv, pc = "write", StoreAllocation(index, plan)
    PROVE  /\ \A c \in Claims : IsFiniteSet(alloc'[c])
           /\ \A c \in Claims : IsFiniteSet([view EXCEPT ![index] = plan][c])
           /\ CapacityRespected'
           /\ \A d \in Devices :
                  Consumed([view EXCEPT ![index] = plan], d) <= Capacity[d]
<1> DEFINE next == [view EXCEPT ![index] = plan]
<1>1. /\ index \in Claims /\ view[index] = {}
      /\ \A r, q \in plan : r.device = q.device => r = q
      /\ plan \in SUBSET Result /\ IsFiniteSet(plan)
      /\ view \in [Claims -> SUBSET Result]
      /\ \A c \in Claims : IsFiniteSet(view[c])
  BY DEF IInv, PlanIsSafe, TypeOK, CapacityInv
<1>2. \A d \in Devices : Consumed(next, d) <= Capacity[d]
  <2>1. /\ \A d \in Devices : Consumed(view, d) <= Capacity[d]
        /\ \A r \in plan : r.shared =>
               Consumed(view, r.device) + r.amount <= Capacity[r.device]
    BY DEF CapacityInv, Reading
  <2>2. QED
    BY <1>1, <2>1, ConsumedWithPlan
<1>3. /\ next \in [Claims -> SUBSET Result]
      /\ \A c \in Claims : IsFiniteSet(next[c])
      /\ next[index] = plan
      /\ \A c \in Claims : c # index => next[c] = view[c]
  BY <1>1
<1>4. /\ alloc' \in [Claims -> SUBSET Result]
      /\ alloc'[index] = plan
      /\ \A c \in Claims : c # index => alloc'[c] = alloc[c]
  BY <1>1, StoringPlanAgrees DEF IInv, TypeOK
<1>5. \A c \in Claims : alloc[c] \subseteq view[c]
  BY DEF IInv, CopiesCoverStore, Reading
<1> HIDE DEF next
<1>6. \A c \in Claims : alloc'[c] \subseteq next[c]
  BY <1>3, <1>4, <1>5
<1>7. \A c \in Claims : IsFiniteSet(alloc'[c])
  BY <1>3, <1>6, FS_Subset
<1>8. ASSUME NEW d \in Devices PROVE Consumed(alloc', d) <= Capacity[d]
  <2>1. Consumed(alloc', d) <= Consumed(next, d)
    BY <1>3, <1>4, <1>6, ConsumedMonotone
  <2>2. Consumed(alloc', d) \in Nat /\ Consumed(next, d) \in Nat
    BY <1>3, <1>4, <1>7, ConsumedCounts
  <2>3. Capacity[d] \in Nat
    BY ClaimPlanAssumption
  <2>4. QED
    BY <1>2, <2>1, <2>2, <2>3
<1>9. CapacityRespected'
  BY <1>8 DEF CapacityRespected
<1>10. QED
  BY <1>2, <1>3, <1>7, <1>9 DEF next

\* Every step preserves it.
LEMMA StepCapacity == IInv /\ CapacityInv /\ [Next]_vars => CapacityInv'
<1> SUFFICES ASSUME IInv, CapacityInv, [Next]_vars PROVE CapacityInv'
  OBVIOUS
<1>0. TypeOK'
  BY TypesPreserved DEF IInv
<1>s. ASSUME \A c \in Claims : alloc'[c] \subseteq alloc[c]
      PROVE  CapacityRespected' /\ \A c \in Claims : IsFiniteSet(alloc'[c])
  <2>1. \A c \in Claims : IsFiniteSet(alloc'[c])
    BY <1>s, FS_Subset DEF CapacityInv
  <2>2. ASSUME NEW d \in Devices PROVE Consumed(alloc', d) <= Capacity[d]
    <3>1. /\ alloc \in [Claims -> SUBSET Result]
          /\ alloc' \in [Claims -> SUBSET Result]
      BY <1>0 DEF IInv, TypeOK
    <3>2. Consumed(alloc', d) <= Consumed(alloc, d)
      BY <1>s, <3>1, ConsumedMonotone DEF CapacityInv
    <3>3. Consumed(alloc', d) \in Nat /\ Consumed(alloc, d) \in Nat
      BY <2>1, <3>1, ConsumedCounts DEF CapacityInv
    <3>4. Capacity[d] \in Nat /\ Consumed(alloc, d) <= Capacity[d]
      BY ClaimPlanAssumption DEF CapacityInv, CapacityRespected
    <3>5. QED
      BY <3>2, <3>3, <3>4
  <2>3. QED
    BY <2>1, <2>2 DEF CapacityRespected
<1>e. ASSUME EndPass,
             CapacityRespected' /\ \A c \in Claims : IsFiniteSet(alloc'[c])
      PROVE  CapacityInv'
  <2>1. pc' = "idle" /\ view' = NoResults /\ plan' = {}
    BY <1>e DEF EndPass
  <2>2. \A c \in Claims : IsFiniteSet(view'[c])
    BY <2>1, FS_EmptySet DEF NoResults
  <2>3. IsFiniteSet(plan')
    BY <2>1, FS_EmptySet
  <2>4. QED
    BY <1>e, <2>1, <2>2, <2>3 DEF CapacityInv, Reading
<1>1. CASE Environment
  <2>1. UNCHANGED <<pc, view, plan>> /\ \A c \in Claims : alloc'[c] \subseteq alloc[c]
    BY <1>1, EnvironmentShrinks DEF IInv, passVars
  <2>2. QED
    BY <1>s, <2>1 DEF CapacityInv, Reading
<1>2. CASE Queue \/ UNCHANGED vars
  <2>1. UNCHANGED <<alloc, pc, view, plan>>
    BY <1>2 DEF Queue, DeliverEvent, BackoffExpires, vars, storeVars, passVars
  <2>2. QED
    BY <2>1 DEF CapacityInv, CapacityRespected, Reading
<1>3. CASE GetKey
  <2>1. UNCHANGED <<alloc, view, plan>> /\ pc' = "listClaims"
    BY <1>3 DEF GetKey, storeVars
  <2>2. QED
    BY <2>1 DEF CapacityInv, CapacityRespected, Reading
<1>4. CASE ListClaims
  <2>1. UNCHANGED <<alloc, plan>> /\ view' = alloc /\ pc' = "listSlices"
    BY <1>4 DEF ListClaims, storeVars
  <2>2. QED
    BY <2>1 DEF CapacityInv, CapacityRespected, Reading
<1>5. CASE ListSlices \/ ListClasses \/ SkipClaim
  <2>1. UNCHANGED <<alloc, view, plan>> /\ Reading /\ pc' # "write"
    BY <1>5 DEF ListSlices, ListClasses, SkipClaim, storeVars, Reading
  <2>2. QED
    BY <2>1 DEF CapacityInv, CapacityRespected
<1>6. CASE PlanClaim
  <2>1. /\ index \in Claims /\ plan' \in ClaimPlans(index)
        /\ UNCHANGED <<alloc, view>> /\ Reading
    BY <1>6 DEF PlanClaim, storeVars, IInv, TypeOK, Reading
  <2>2. /\ IsFiniteSet(plan')
        /\ \A r \in plan' : r.shared =>
               Consumed(view, r.device) + r.amount <= Capacity[r.device]
    <3>1. /\ listedSpec[index] \in Specs
          /\ view \in [Claims -> SUBSET Result]
          /\ listedSlices \in [Slices -> SliceObject]
          /\ \A c \in Claims : IsFiniteSet(view[c])
      BY <2>1 DEF IInv, TypeOK, CapacityInv
    <3>2. QED
      BY <2>1, <3>1, PlansFit DEF ClaimPlans
  <2>3. QED
    BY <2>1, <2>2 DEF CapacityInv, CapacityRespected
<1>7. CASE WriteAccepted
  <2>1. /\ pc = "write" /\ pc' = "claim" /\ plan' = {}
        /\ StoreAllocation(index, plan)
        /\ view' = [view EXCEPT ![index] = plan]
    BY <1>7 DEF WriteAccepted
  <2>2. /\ \A c \in Claims : IsFiniteSet(alloc'[c])
        /\ \A c \in Claims : IsFiniteSet(view'[c])
        /\ CapacityRespected'
        /\ \A d \in Devices : Consumed(view', d) <= Capacity[d]
    BY <2>1, StoringFits
  <2>3. IsFiniteSet(plan')
    BY <2>1, FS_EmptySet
  <2>4. QED
    BY <2>1, <2>2, <2>3 DEF CapacityInv
<1>8. CASE WriteAnswerLost
  <2>1. pc = "write" /\ EndPass /\ StoreAllocation(index, plan)
    BY <1>8 DEF WriteAnswerLost
  <2>2. QED
    BY <1>e, <2>1, StoringFits
<1>9. CASE WriteRefused \/ PassSucceeds \/ ListFails \/ WriteFails \/ Restart
  <2>1. EndPass /\ UNCHANGED alloc
    BY <1>9 DEF WriteRefused, PassSucceeds, ListFails, WriteFails, Restart,
                FailPass, storeVars
  <2>2. QED
    BY <1>e, <1>s, <2>1
<1>10. QED
  BY <1>1, <1>2, <1>3, <1>4, <1>5, <1>6, <1>7, <1>8, <1>9 DEF Next, Worker, Failure

\* The shares of a device never add up to more than its capacity, whatever a
\* pass knew of the store when it planned them.
THEOREM CapacityRespectedHolds == Spec => []CapacityRespected
<1>1. Init => CapacityInv
  <2> SUFFICES ASSUME Init PROVE CapacityInv
    OBVIOUS
  <2>1. /\ alloc = NoResults /\ view = NoResults /\ plan = {} /\ pc = "idle"
    BY DEF Init
  <2>2. NoResults \in [Claims -> SUBSET Result] /\ \A c \in Claims : IsFiniteSet(NoResults[c])
    BY FS_EmptySet DEF NoResults
  <2>3. ASSUME NEW d \in Devices PROVE Consumed(alloc, d) <= Capacity[d]
    <3>1. SharesOf(NoResults, d) = {}
      BY DEF SharesOf, HeldResults, NoResults
    <3>2. Tokens(SharesOf(NoResults, d)) = {}
      BY <3>1 DEF Tokens
    <3>3. Consumed(NoResults, d) = 0
      BY <2>2, <3>2, ConsumedCounts, FS_EmptySet
    <3>4. QED
      BY <2>1, <3>3, ClaimPlanAssumption
  <2>4. QED
    BY <2>1, <2>2, <2>3, FS_EmptySet DEF CapacityInv, CapacityRespected, Reading
<1>2. CapacityInv => CapacityRespected
  BY DEF CapacityInv
<1>3. QED
  BY <1>1, <1>2, StepCapacity, InductiveInvariant, PTL DEF Spec
=============================================================================

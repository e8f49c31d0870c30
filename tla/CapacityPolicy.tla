---------------------------- MODULE CapacityPolicy ----------------------------
(***************************************************************************)
(* The request policies of consumable capacities                           *)
(* (internal/simulator/capacity_policy.go): which policies are accepted,   *)
(* and how much of a shareable device a request consumes.                  *)
(*                                                                         *)
(* A quantity is an integer number of fractions; Unit fractions make one   *)
(* whole, so Quantity.Value, which rounds up to a whole, loses something.  *)
(* An optional field is a set with at most one element.                    *)
(***************************************************************************)
EXTENDS Integers, Sequences, FiniteSets, FiniteSetsExt

CONSTANTS
    Unit,                          \* fractions in one whole
    maxCapacityPolicyValidValues   \* Kubernetes' limit on validValues (10)

ASSUME CapacityPolicyAssumption ==
    /\ Unit \in Nat \ {0}
    /\ maxCapacityPolicyValidValues \in Nat

\* Quantity.Value.
Value(q) == -((-q) \div Unit)

\* The element of a field that is set.
The(field) == CHOOSE x \in field : TRUE
-----------------------------------------------------------------------------
\* A capacity is [name, value, policy]; a policy is [default, validValues,
\* validRange], a range [min, max, step].

quantityWithinRange(q, range) ==
    /\ q >= The(range.min)
    /\ \A max \in range.max : q <= max

quantityAlignedToRange(q, range) ==
    \A step \in range.step : (Value(q) - Value(The(range.min))) % Value(step) = 0

\* validateCapacityValidValues.
ValidValuesAreValid(total, policy) ==
    LET values == policy.validValues IN
    /\ Len(values) <= maxCapacityPolicyValidValues
    /\ policy.default # {}
    /\ \A i \in DOMAIN values : values[i] \in 0..total
    /\ \A i \in 2..Len(values) : values[i - 1] < values[i]
    /\ \E i \in DOMAIN values : values[i] \in policy.default

\* validateCapacityRangeStep.  The step is positive before anything is divided
\* by it.
StepIsValid(total, default, range) ==
    \A step \in range.step :
        /\ step > 0
        /\ The(range.min) + step <= total
        /\ quantityAlignedToRange(default, range)
        /\ \A max \in range.max : quantityAlignedToRange(max, range)

\* validateCapacityValidRange, validateCapacityRangeBounds.
ValidRangeIsValid(total, policy) ==
    LET range == The(policy.validRange) IN
    /\ range.min # {}
    /\ policy.default # {}
    /\ The(range.min) \in 0..total
    /\ \A max \in range.max : max \in The(range.min)..total
    /\ quantityWithinRange(The(policy.default), range)
    /\ StepIsValid(total, The(policy.default), range)

\* validateDeviceCapacityPolicy.
PolicyIsValid(capacity) ==
    /\ capacity.value >= 0
    /\ \A policy \in capacity.policy :
        /\ policy.validValues = <<>> \/ policy.validRange = {}
        /\ CASE policy.validValues # <<>> ->
                    ValidValuesAreValid(capacity.value, policy)
             [] policy.validRange # {} ->
                    ValidRangeIsValid(capacity.value, policy)
             [] OTHER -> \A q \in policy.default : q \in 0..capacity.value
-----------------------------------------------------------------------------
\* The smallest amount of the range that covers the request, if there is one.
roundCapacityToValidRange(requested, range) ==
    LET min == The(range.min)
        step == Value(The(range.step))
        steps == -((Value(min) - Value(requested)) \div step)
        rounded == IF range.step = {}
                   THEN requested
                   ELSE Unit * (Value(min) + steps * step)
    IN  IF requested < min THEN {min}
        ELSE {q \in {rounded} : quantityWithinRange(q, range)}

\* consumedCapacityForRequest: what a request consumes; {} when the policy
\* allows no amount that covers it.
consumedCapacityForRequest(capacity, requested) ==
    LET policy == The(capacity.policy)
        amount == The(requested)
        values == policy.validValues
        enough == {i \in DOMAIN values : amount <= values[i]}
    IN  CASE requested = {} ->
                IF capacity.policy # {} /\ policy.default # {}
                THEN policy.default
                ELSE {capacity.value}
          [] requested # {} /\ capacity.policy = {} -> requested
          [] requested # {} /\ capacity.policy # {} /\ values # <<>> ->
                IF enough = {} THEN {} ELSE {values[Min(enough)]}
          [] requested # {} /\ capacity.policy # {} /\ values = <<>> ->
                IF policy.validRange = {}
                THEN requested
                ELSE roundCapacityToValidRange(amount, The(policy.validRange))
=============================================================================

---------------------------- MODULE ReadinessProbe ----------------------------
(***************************************************************************)
(* The readiness probe of the API server (internal/health/readiness.go):   *)
(* checks of the Kubernetes API, several at a time, that share the time of *)
(* the last success.  Time is a counter from startedAt = 1; 0 is the zero  *)
(* time.                                                                   *)
(***************************************************************************)
EXTENDS Naturals

CONSTANTS
    Probers,     \* who asks /readyz, one request at a time each
    Timeout,     \* of one check
    Grace,       \* ReadinessGracePeriod
    MaxClock     \* bound: the clock stops here

VARIABLES
    cancelled,    \* the request's context has ended
    reachable,    \* the Kubernetes API answers
    clock,
    check,        \* where each prober's request is
    mark,         \* when its check began; once it has a result, checkedAt
    lastSuccess,
    successes     \* history: when checks succeeded

StartedAt == 1

ProbeTypeOK ==
    /\ reachable \in BOOLEAN
    /\ clock \in 1..MaxClock
    /\ check \in [Probers -> {"off", "idle", "checking", "passed", "failed"}]
    /\ mark \in [Probers -> 0..MaxClock]
    /\ lastSuccess \in 0..MaxClock
    /\ successes \subseteq 1..MaxClock

ProbeInit ==
    /\ reachable = TRUE
    /\ clock = StartedAt
    /\ check \in [Probers -> {"off", "idle"}]
    /\ mark = [p \in Probers |-> 0]
    /\ lastSuccess = 0
    /\ successes = {}

Asked == \E p \in Probers : check[p] # "off"

\* The API becomes unreachable, or reachable again.
Flip ==
    /\ Asked
    /\ reachable' = ~reachable
    /\ UNCHANGED <<cancelled, clock, check, mark, lastSuccess, successes>>

\* Mutant of BeginCheck: the deadline is kept in place of the start.
BeginCheckAtDeadline(p) ==
    /\ check[p] = "idle"
    /\ ~cancelled
    /\ check' = [check EXCEPT ![p] = "checking"]
    /\ mark' = [mark EXCEPT ![p] = clock + Timeout]
    /\ UNCHANGED <<cancelled, reachable, clock, lastSuccess, successes>>

\* A request whose context has ended is answered at once and checks nothing.
BeginCheck(p) ==
    /\ check[p] = "idle"
    /\ ~cancelled
    /\ check' = [check EXCEPT ![p] = "checking"]
    /\ mark' = [mark EXCEPT ![p] = clock]
    /\ UNCHANGED <<cancelled, reachable, clock, lastSuccess, successes>>

\* The list succeeds, or it fails: the API does not answer, is too slow, or the
\* request ends.  checkedAt is read before the lock is taken.
FinishCheck(p) ==
    /\ check[p] = "checking"
    /\ \/ /\ reachable
          /\ check' = [check EXCEPT ![p] = "passed"]
          /\ successes' = successes \union {clock}
       \/ /\ ~reachable \/ cancelled \/ clock = mark[p] + Timeout
          /\ check' = [check EXCEPT ![p] = "failed"]
          /\ UNCHANGED successes
    /\ mark' = [mark EXCEPT ![p] = clock]
    /\ UNCHANGED <<cancelled, reachable, clock, lastSuccess>>

Reference == IF lastSuccess = 0 THEN StartedAt ELSE lastSuccess

\* checkedAt - reference < grace.
WithinGrace(p) == Grace > 0 /\ mark[p] < Reference + Grace

\* What a check with a result is answered.
Verdict(p) ==
    CASE check[p] = "passed" -> "ready"
      [] check[p] = "failed" /\ cancelled -> "canceled"
      [] check[p] = "failed" /\ ~cancelled /\ WithinGrace(p) -> "degraded"
      [] OTHER -> "not_ready"

\* Mutant of Answer: lastSuccess follows every check.
AnswerRecordingAll(p) ==
    /\ check[p] \in {"passed", "failed"}
    /\ check' = [check EXCEPT ![p] = "idle"]
    /\ mark' = [mark EXCEPT ![p] = 0]
    /\ lastSuccess' = mark[p]
    /\ UNCHANGED <<cancelled, reachable, clock, successes>>

\* Under the lock the verdict is given and a success is recorded, in whatever
\* order the checks get the lock.
Answer(p) ==
    /\ check[p] \in {"passed", "failed"}
    /\ check' = [check EXCEPT ![p] = "idle"]
    /\ mark' = [mark EXCEPT ![p] = 0]
    /\ lastSuccess' = IF check[p] = "passed" THEN mark[p] ELSE lastSuccess
    /\ UNCHANGED <<cancelled, reachable, clock, successes>>

\* Time passes; a check has a result within Timeout.
ProbeTick ==
    /\ Asked
    /\ clock < MaxClock
    /\ \A p \in Probers : check[p] = "checking" => clock < mark[p] + Timeout
    /\ clock' = clock + 1
    /\ UNCHANGED <<cancelled, reachable, check, mark, lastSuccess, successes>>

Probe(p) == BeginCheck(p) \/ FinishCheck(p) \/ Answer(p)

ProbeNext ==
    \/ \E p \in Probers : Probe(p)
    \/ Flip
    \/ ProbeTick
-----------------------------------------------------------------------------
(* Properties.                                                             *)

\* An answer that says ready, degraded included, rests on a check that did
\* succeed less than Grace before, or on the start of the process: concurrent
\* checks never extend the grace period.
ReadyIsRecent ==
    \A p \in Probers :
        check[p] \in {"passed", "failed"} /\ Verdict(p) \in {"ready", "degraded"}
            => \E s \in successes \union {StartedAt} :
                   mark[p] < s + Grace \/ mark[p] = s
=============================================================================

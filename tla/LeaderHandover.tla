---------------------------- MODULE LeaderHandover ----------------------------
(***************************************************************************)
(* Several controller replicas that share one Lease                        *)
(* (cmd/draforge-controller/leader_election.go): who may run allocation    *)
(* passes, when a replica gives up, how long its requests may still be     *)
(* under way, and when another one takes over.  Time is a counter; the     *)
(* deadlines of the code are conditions on Tick.  client-go's elector is   *)
(* modelled from how leader_election.go configures it, and the allocation  *)
(* pass (ClaimAllocation) by its list and its writes.                      *)
(***************************************************************************)
EXTENDS Naturals

CONSTANTS
    Replicas,       \* controller processes, by leader-election identity
    NoReplica,      \* no holder
    Claims,
    Devices,
    LeaseDuration,  \* leaderElectionOptions
    RenewDeadline,
    RetryPeriod,
    MaxDrain,       \* how long a request outlives the context it was sent with
    RestartDelay,   \* the least time in which a dead process is replaced
    MaxTime         \* bound: the clock stops here

VARIABLES
    clock,
    lease,       \* the Lease: its holder and the time of the last renewal
    phase,       \* of each replica
    since,       \* when its phase began; while it leads, its last renewal
    observed,    \* the Lease as a replica last saw it change, ...
    observedAt,  \* ... and when
    view,        \* the allocations the running pass decides on
    fresh,       \* claims whose version in the pass's list is still current
    listed,      \* the replica runs a pass that has listed the claims
    flight,      \* the write a replica waits for
    late,        \* writes of dead processes that the API server may still store
    alloc        \* the allocations in the store

leaseVars == <<lease, phase, since, observed, observedAt>>
passVars == <<view, fresh, listed, flight, late>>
handoverVars == <<clock, leaseVars, passVars, alloc>>

\* options.validate; the factor is client-go's JitterFactor, 1.2.
ValidOptions ==
    /\ {LeaseDuration, RenewDeadline, RetryPeriod} \subseteq Nat \ {0}
    /\ LeaseDuration > RenewDeadline
    /\ 5 * RenewDeadline > 6 * RetryPeriod

ASSUME HandoverAssumption ==
    /\ ValidOptions
    /\ {MaxDrain, RestartDelay, MaxTime} \subseteq Nat
    /\ NoReplica \notin Replicas

\* What a safe handover needs beyond what validate checks.  A leader renews
\* RetryPeriod after its last success, tries for RenewDeadline, and what it has
\* sent is settled MaxDrain later, all within the lease: the defaults (15 s,
\* 10 s, 2 s) leave three seconds for MaxDrain.
DrainMargin == LeaseDuration > RetryPeriod + RenewDeadline + MaxDrain

\* A process that starts in the Pod of a dead one leads at once, because the
\* Lease bears its identity: by then what the dead one had sent is settled.
RestartMargin == RestartDelay > MaxDrain

Entry == [device : Devices, shared : {FALSE}]
Write == [claim : Claims, entry : Entry]
LateWrite == [by : Replicas, claim : Claims, entry : Entry, until : Nat]
LeaseRecord == [holder : Replicas \union {NoReplica}, renewed : Nat]

HandoverTypeOK ==
    /\ clock \in Nat
    /\ lease \in LeaseRecord
    /\ phase \in [Replicas -> {"down", "standby", "leading", "draining"}]
    /\ since \in [Replicas -> Nat]
    /\ observed \in [Replicas -> LeaseRecord]
    /\ observedAt \in [Replicas -> Nat]
    /\ view \in [Replicas -> [Claims -> SUBSET Entry]]
    /\ fresh \in [Replicas -> SUBSET Claims]
    /\ listed \in [Replicas -> BOOLEAN]
    /\ flight \in [Replicas -> SUBSET Write]
    /\ late \subseteq LateWrite
    /\ alloc \in [Claims -> SUBSET Entry]

NoLease == [holder |-> NoReplica, renewed |-> 0]
Nothing == [c \in Claims |-> {}]

HandoverInit ==
    /\ clock = 0
    /\ lease = NoLease
    /\ phase = [r \in Replicas |-> "standby"]
    /\ since = [r \in Replicas |-> 0]
    /\ observed = [r \in Replicas |-> NoLease]
    /\ observedAt = [r \in Replicas |-> 0]
    /\ view = [r \in Replicas |-> Nothing]
    /\ fresh = [r \in Replicas |-> {}]
    /\ listed = [r \in Replicas |-> FALSE]
    /\ flight = [r \in Replicas |-> {}]
    /\ late = {}
    /\ alloc = Nothing
-----------------------------------------------------------------------------
(* client-go's LeaderElector, as newControllerLeaderElector configures it. *)

\* The time by which a leader that cannot renew has given up.
GiveUpAt(r) == since[r] + RetryPeriod + RenewDeadline

\* A candidate reads the Lease and notes when it last saw it change.
Observe(r) ==
    /\ phase[r] = "standby"
    /\ observed[r] # lease
    /\ observed' = [observed EXCEPT ![r] = lease]
    /\ observedAt' = [observedAt EXCEPT ![r] = clock]
    /\ UNCHANGED <<clock, lease, phase, since, passVars, alloc>>

\* A candidate takes a Lease that nobody holds, that it has not seen change for
\* LeaseDuration, or that already bears its identity: a container restarted in
\* the same Pod.
AcquireLease(r) ==
    /\ phase[r] = "standby"
    /\ observed[r] = lease
    /\ \/ lease.holder \in {NoReplica, r}
       \/ clock >= observedAt[r] + LeaseDuration
    /\ lease' = [holder |-> r, renewed |-> clock]
    /\ observed' = [observed EXCEPT ![r] = lease']
    /\ observedAt' = [observedAt EXCEPT ![r] = clock]
    /\ phase' = [phase EXCEPT ![r] = "leading"]
    /\ since' = [since EXCEPT ![r] = clock]
    /\ UNCHANGED <<clock, passVars, alloc>>

\* The leader renews; the update carries the version it read.
Renew(r) ==
    /\ phase[r] = "leading"
    /\ lease.holder = r
    /\ since[r] < clock
    /\ lease' = [holder |-> r, renewed |-> clock]
    /\ since' = [since EXCEPT ![r] = clock]
    /\ UNCHANGED <<clock, phase, observed, observedAt, passVars, alloc>>

\* Mutant of StopLeading: ReleaseOnCancel, the Lease is given back at once.
StopLeadingAndRelease(r) ==
    /\ phase[r] = "leading"
    /\ phase' = [phase EXCEPT ![r] = "draining"]
    /\ since' = [since EXCEPT ![r] = clock]
    /\ lease' = NoLease
    /\ listed' = [listed EXCEPT ![r] = FALSE]
    /\ UNCHANGED <<clock, observed, observedAt, view, fresh, flight, late, alloc>>

\* The elector returns, because RenewDeadline has passed or the process was
\* told to stop, and the pass's context is cancelled: the pass sends nothing
\* more, and what it has sent may still be stored.  ReleaseOnCancel is false:
\* the Lease keeps its holder.
StopLeading(r) ==
    /\ phase[r] = "leading"
    /\ phase' = [phase EXCEPT ![r] = "draining"]
    /\ since' = [since EXCEPT ![r] = clock]
    /\ listed' = [listed EXCEPT ![r] = FALSE]
    /\ UNCHANGED <<clock, lease, observed, observedAt, view, fresh, flight,
                   late, alloc>>

\* The lifecycle waits for the active controller, and the process exits.
Exit(r) ==
    /\ phase[r] = "draining"
    /\ flight[r] = {}
    /\ phase' = [phase EXCEPT ![r] = "down"]
    /\ since' = [since EXCEPT ![r] = clock]
    /\ UNCHANGED <<clock, lease, observed, observedAt, passVars, alloc>>

\* The writes under way from a process that dies in this state.  Their time is
\* running already if their context was cancelled before; one whose claim has
\* changed since it was listed is refused whenever it arrives.
Orphaned(r) ==
    LET from == IF phase[r] = "draining" THEN since[r] ELSE clock
    IN  {[by |-> r, claim |-> w.claim, entry |-> w.entry, until |-> from + MaxDrain] :
            w \in {v \in flight[r] : v.claim \in fresh[r]}}

\* The process dies at any point; its request may already be on its way.
Crash(r) ==
    /\ phase[r] # "down"
    /\ phase' = [phase EXCEPT ![r] = "down"]
    /\ since' = [since EXCEPT ![r] = clock]
    /\ listed' = [listed EXCEPT ![r] = FALSE]
    /\ flight' = [flight EXCEPT ![r] = {}]
    /\ late' = late \union Orphaned(r)
    /\ UNCHANGED <<clock, lease, observed, observedAt, view, fresh, alloc>>

\* The Deployment starts it again as a fresh candidate with the same identity.
\* Nothing makes it wait for the requests of the dead process.
Restart(r) ==
    /\ phase[r] = "down"
    /\ clock >= since[r] + RestartDelay
    /\ phase' = [phase EXCEPT ![r] = "standby"]
    /\ since' = [since EXCEPT ![r] = clock]
    /\ observed' = [observed EXCEPT ![r] = NoLease]
    /\ observedAt' = [observedAt EXCEPT ![r] = clock]
    /\ UNCHANGED <<clock, lease, passVars, alloc>>
-----------------------------------------------------------------------------
(* Allocation passes, of whoever believes to lead.                         *)

\* The pass lists the claims.
List(r) ==
    /\ phase[r] = "leading"
    /\ flight[r] = {}
    /\ view' = [view EXCEPT ![r] = alloc]
    /\ fresh' = [fresh EXCEPT ![r] = Claims]
    /\ listed' = [listed EXCEPT ![r] = TRUE]
    /\ UNCHANGED <<clock, leaseVars, flight, late, alloc>>

\* Mutant of Send: what the pass has granted is not noted for later claims.
SendForgotten(r, c, d) ==
    /\ phase[r] = "leading"
    /\ listed[r]
    /\ flight[r] = {}
    /\ view[r][c] = {}
    /\ \A b \in Claims : \A e \in view[r][b] : e.device # d
    /\ LET entry == [device |-> d, shared |-> FALSE]
       IN  flight' = [flight EXCEPT ![r] = {[claim |-> c, entry |-> entry]}]
    /\ UNCHANGED <<clock, leaseVars, view, fresh, listed, late, alloc>>

\* A claim without an allocation is given a device no listed claim has, and the
\* copy is updated for the claims that follow.
Send(r, c, d) ==
    /\ phase[r] = "leading"
    /\ listed[r]
    /\ flight[r] = {}
    /\ view[r][c] = {}
    /\ \A b \in Claims : \A e \in view[r][b] : e.device # d
    /\ LET entry == [device |-> d, shared |-> FALSE]
       IN  /\ flight' = [flight EXCEPT ![r] = {[claim |-> c, entry |-> entry]}]
           /\ view' = [view EXCEPT ![r][c] = {entry}]
    /\ UNCHANGED <<clock, leaseVars, fresh, listed, late, alloc>>

\* A claim that is written has a new version: no earlier list is current, and no
\* write that is still under way will be stored.
Outdate(c) ==
    /\ fresh' = [r \in Replicas |-> fresh[r] \ {c}]
    /\ late' = {w \in late : w.claim # c}

\* The API server stores the write if the claim still has the listed version;
\* the pass learns of it, or its answer is lost and the pass ends.
Store(r, w) ==
    /\ w \in flight[r]
    /\ w.claim \in fresh[r]
    /\ alloc' = [alloc EXCEPT ![w.claim] = {w.entry}]
    /\ Outdate(w.claim)
    /\ flight' = [flight EXCEPT ![r] = {}]
    /\ listed' \in {listed, [listed EXCEPT ![r] = FALSE]}
    /\ UNCHANGED <<clock, leaseVars, view>>

\* The write conflicts, fails or is lost; the error ends the pass.
Drop(r, w) ==
    /\ w \in flight[r]
    /\ flight' = [flight EXCEPT ![r] = {}]
    /\ listed' = [listed EXCEPT ![r] = FALSE]
    /\ UNCHANGED <<clock, leaseVars, view, fresh, late, alloc>>

\* The write of a dead process is stored, or is lost.
StoreLate(w) ==
    /\ w \in late
    /\ alloc' = [alloc EXCEPT ![w.claim] = {w.entry}]
    /\ Outdate(w.claim)
    /\ UNCHANGED <<clock, leaseVars, view, listed, flight>>

DropLate(w) ==
    /\ w \in late
    /\ late' = late \ {w}
    /\ UNCHANGED <<clock, leaseVars, view, fresh, listed, flight, alloc>>

\* The claim's consumer is done: it is deallocated.
Release(c) ==
    /\ alloc[c] # {}
    /\ alloc' = [alloc EXCEPT ![c] = {}]
    /\ Outdate(c)
    /\ UNCHANGED <<clock, leaseVars, view, listed, flight>>
-----------------------------------------------------------------------------
\* Time passes, but not beyond a deadline: a leader that has not renewed gives
\* up in time, and what was under way when a replica stopped is settled.
Tick ==
    /\ clock < MaxTime
    /\ \A r \in Replicas :
        /\ phase[r] = "leading" => clock < GiveUpAt(r)
        /\ phase[r] = "draining" => clock < since[r] + MaxDrain
    /\ \A w \in late : clock < w.until
    /\ clock' = clock + 1
    /\ UNCHANGED <<leaseVars, passVars, alloc>>

Elect(r) ==
    \/ Observe(r) \/ AcquireLease(r) \/ Renew(r) \/ StopLeading(r) \/ Exit(r)
    \/ Crash(r) \/ Restart(r)

Pass(r) ==
    \/ List(r)
    \/ \E c \in Claims, d \in Devices : Send(r, c, d)
    \/ \E w \in flight[r] : Store(r, w) \/ Drop(r, w)

HandoverNext ==
    \/ \E r \in Replicas : Elect(r) \/ Pass(r)
    \/ \E w \in late : StoreLate(w) \/ DropLate(w)
    \/ \E c \in Claims : Release(c)
    \/ Tick

HandoverSpec == HandoverInit /\ [][HandoverNext]_handoverVars
-----------------------------------------------------------------------------
(* Properties.                                                             *)

\* A replica that can still change allocations.
Active(r) == phase[r] \in {"leading", "draining"}

\* No replacement becomes active while the old leader, or a request it has
\* sent, can still change the cluster; a replacement is another replica or a new
\* process in the Pod of the old one.
NoOverlap ==
    /\ \A r, s \in Replicas : Active(r) /\ Active(s) => r = s
    /\ late # {} => \A r \in Replicas : ~Active(r)

Ledger == INSTANCE AllocationLedger
    WITH Claimants <- Claims, Entries <- Entry, held <- alloc

\* Whoever leads, and however the lead changes hands, the allocations are those
\* of one ledger with atomic grants: no device is given to two claims because
\* an old and a new leader decided on different lists.
HandoverKeepsLedger == Ledger!LedgerSpec
=============================================================================

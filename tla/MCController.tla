----------------------------- MODULE MCController -----------------------------
(* One controller process, with and without leader election, and the event   *)
(* controller it runs, with two pipelines and one informer handler.  The     *)
(* process knows the controller by what it promises (ActiveReturns) and the  *)
(* controller the process by a context, so a behaviour has one of them move  *)
(* while the other one has ended.                                            *)
EXTENDS EventController, ControllerLifecycle, TLC

CONSTANTS poolSync, allocationSync, h1

OneHandler == h1 :> poolSync

\* A process that has exited.
Exited ==
    /\ elect = FALSE /\ stopped = TRUE /\ runDone = TRUE /\ leadDone = FALSE
    /\ elector = "off" /\ state = 0 /\ callback = "none"
    /\ activeErr = "nil" /\ activeDone = "empty"
    /\ lifecycle = "exit" /\ lifeErr = "nil" /\ lifecycleDone = "empty"
    /\ main = "exited" /\ leader = FALSE /\ server = FALSE

\* A controller whose Run has returned.
Returned ==
    /\ cancelled = TRUE /\ run = "returned"
    /\ toEnqueue = {} /\ stored = Pipelines /\ shut = Pipelines
    /\ dirty = {} /\ processing = {} /\ delayed = {} /\ requeues = Zero
    /\ pending = {} /\ hpc = [h \in Handlers |-> "idle"]
    /\ hlen = [h \in Handlers |-> 0]
    /\ wpc = [p \in Pipelines |-> "exit"] /\ wlen = Zero
    /\ inFlight = Zero /\ depth = Zero /\ stale = {}
    /\ errors = 0 /\ retries = 0 /\ terminals = 0 /\ happened = 0

ProcessInit == (Init /\ Exited) \/ (LifecycleInit /\ Returned)

ProcessNext ==
    \/ Next /\ main = "exited" /\ UNCHANGED lifecycleVars
    \/ LifecycleNext /\ UNCHANGED vars

ProcessSpec ==
    /\ ProcessInit
    /\ [][ProcessNext]_<<vars, lifecycleVars>>
    /\ Fairness
    /\ LifecycleFairness
=============================================================================

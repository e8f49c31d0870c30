-------------------------- MODULE ControllerLifecycle --------------------------
(***************************************************************************)
(* The life of one draforge-controller process                             *)
(* (cmd/draforge-controller/main.go, leader_election.go): main, the        *)
(* lifecycle goroutine, client-go's leader elector and the goroutine it    *)
(* starts the active controller on.  The elector and the active controller *)
(* (EventController) appear by what they promise to this code: the elector *)
(* returns after its context is done or the lease is lost and cancels the  *)
(* context it gave to the callback; the controller returns after its       *)
(* context is done, or earlier with or without an error.                   *)
(***************************************************************************)
EXTENDS Naturals

CONSTANT LeaderElect      \* the values of -leader-elect to consider

VARIABLES
    elect,      \* leaderElectionOptions.Enabled
    stopped,    \* main's ctx is done: a signal, or stop()
    runDone,    \* runContext is done: ctx, or cancelRun
    leadDone,   \* the elector has cancelled the callback's context
    elector,    \* elector.Run
    state,      \* the atomic state: 0 may start, 1 active, 2 stopped
    callback,   \* the goroutine of OnStartedLeading (runActiveLeader)
    activeErr,  \* the error that goroutine is about to report
    activeDone, \* channel of capacity one
    lifecycle,  \* runControllerLifecycle
    lifeErr,    \* the error it returns
    lifecycleDone, \* main's channel of capacity one
    main,       \* main, from its select on
    leader,     \* Reconciler.leaderState, the leader gauge
    server      \* the runtime server (/healthz, /readyz, /metrics) is up

lifecycleVars == <<elect, stopped, runDone, leadDone, elector, state, callback,
          activeErr, activeDone, lifecycle, lifeErr, lifecycleDone, main,
          leader, server>>
ctxVars == <<elect, stopped, runDone, leadDone>>
activeVars == <<state, callback, activeErr, activeDone>>
mainVars == <<lifecycle, lifeErr, lifecycleDone, main, server>>

ASSUME LifecycleAssumption == LeaderElect \subseteq BOOLEAN

Errors == {"nil", "error"}
Channel == Errors \union {"empty"}

LifecycleTypeOK ==
    /\ elect \in BOOLEAN
    /\ stopped \in BOOLEAN
    /\ runDone \in BOOLEAN
    /\ leadDone \in BOOLEAN
    /\ elector \in {"off", "acquire", "renew", "returned"}
    /\ state \in 0..2
    /\ callback \in {"none", "started", "setLeader", "active", "unsetLeader",
                     "storeState", "send", "cancelRun", "exit"}
    /\ activeErr \in Errors
    /\ activeDone \in Channel
    /\ lifecycle \in {"electing", "single", "cas", "receive", "send", "exit"}
    /\ lifeErr \in Errors
    /\ lifecycleDone \in Channel
    /\ main \in {"select", "receive", "shutdown", "exited"}
    /\ leader \in BOOLEAN
    /\ server \in BOOLEAN

\* runControllerLifecycle has validated the options and chosen the mode; the
\* single mode runs the active controller in the lifecycle goroutine itself,
\* as leader.
LifecycleInit ==
    /\ elect \in LeaderElect
    /\ stopped = FALSE
    /\ runDone = FALSE
    /\ leadDone = FALSE
    /\ elector = IF elect THEN "acquire" ELSE "off"
    /\ state = 0
    /\ callback = "none"
    /\ activeErr = "nil"
    /\ activeDone = "empty"
    /\ lifecycle = IF elect THEN "electing" ELSE "single"
    /\ lifeErr = "nil"
    /\ lifecycleDone = "empty"
    /\ main = "select"
    /\ leader = ~elect
    /\ server = TRUE
-----------------------------------------------------------------------------
(* The process and its contexts.                                           *)

\* SIGTERM or SIGINT, or the runtime server failed and called stop.
Stop ==
    /\ ~stopped
    /\ stopped' = TRUE
    /\ runDone' = TRUE
    /\ UNCHANGED <<elect, leadDone, elector, activeVars, mainVars, leader>>

RuntimeServerFails ==
    /\ server
    /\ server' = FALSE
    /\ stopped' = TRUE
    /\ runDone' = TRUE
    /\ UNCHANGED <<elect, leadDone, elector, activeVars, lifecycle, lifeErr,
                   lifecycleDone, main, leader>>
-----------------------------------------------------------------------------
(* client-go's LeaderElector.Run.                                          *)

\* The lease is acquired: the callback gets a goroutine and a context.
Acquire ==
    /\ elector = "acquire"
    /\ ~runDone
    /\ elector' = "renew"
    /\ callback' = "started"
    /\ UNCHANGED <<ctxVars, state, activeErr, activeDone, mainVars, leader>>

\* acquire gives up because the context is done.
AcquireStopped ==
    /\ elector = "acquire"
    /\ runDone
    /\ elector' = "returned"
    /\ UNCHANGED <<ctxVars, activeVars, mainVars, leader>>

\* renew ends: the lease is lost or the context is done.  ReleaseOnCancel is
\* false; the callback's context is cancelled.
RenewEnds ==
    /\ elector = "renew"
    /\ elector' = "returned"
    /\ leadDone' = TRUE
    /\ UNCHANGED <<elect, stopped, runDone, activeVars, mainVars, leader>>
-----------------------------------------------------------------------------
(* runActiveLeader.                                                        *)

\* Mutant of CallbackStarts: the state is not checked.
CallbackStartsAnyway ==
    /\ callback = "started"
    /\ state' = 1
    /\ callback' = "setLeader"
    /\ UNCHANGED <<ctxVars, elector, activeErr, activeDone, mainVars, leader>>

\* state.CompareAndSwap(0, 1).
CallbackStarts ==
    /\ callback = "started"
    /\ IF state = 0
       THEN state' = 1 /\ callback' = "setLeader"
       ELSE callback' = "exit" /\ UNCHANGED state
    /\ UNCHANGED <<ctxVars, elector, activeErr, activeDone, mainVars, leader>>

CallbackSetsLeader ==
    /\ callback = "setLeader"
    /\ leader' = TRUE
    /\ callback' = "active"
    /\ UNCHANGED <<ctxVars, elector, state, activeErr, activeDone, mainVars>>

\* The callback's context is a child of runContext.
ActiveCtxDone == runDone \/ leadDone

\* The active controller returns.  Once its context is done, cancellation is
\* not an error (normalizeActiveControllerError); before, even a nil return is.
ActiveReturns ==
    /\ callback = "active"
    /\ \E err \in Errors :
        activeErr' = IF ActiveCtxDone THEN err ELSE "error"
    /\ callback' = "unsetLeader"
    /\ UNCHANGED <<ctxVars, elector, state, activeDone, mainVars, leader>>

CallbackUnsetsLeader ==
    /\ callback = "unsetLeader"
    /\ leader' = FALSE
    /\ callback' = "storeState"
    /\ UNCHANGED <<ctxVars, elector, state, activeErr, activeDone, mainVars>>

CallbackStoresState ==
    /\ callback = "storeState"
    /\ state' = 2
    /\ callback' = "send"
    /\ UNCHANGED <<ctxVars, elector, activeErr, activeDone, mainVars, leader>>

CallbackSends ==
    /\ callback = "send"
    /\ activeDone = "empty"
    /\ activeDone' = activeErr
    /\ callback' = "cancelRun"
    /\ UNCHANGED <<ctxVars, elector, state, activeErr, mainVars, leader>>

\* Mutant of CallbackCancelsRun: the elector is not told.
CallbackForgetsRun ==
    /\ callback = "cancelRun"
    /\ callback' = "exit"
    /\ UNCHANGED <<ctxVars, elector, state, activeErr, activeDone, mainVars,
                   leader>>

CallbackCancelsRun ==
    /\ callback = "cancelRun"
    /\ runDone' = TRUE
    /\ callback' = "exit"
    /\ UNCHANGED <<elect, stopped, leadDone, elector, state, activeErr,
                   activeDone, mainVars, leader>>
-----------------------------------------------------------------------------
(* runLeaseControllerLifecycle and runSingleControllerLifecycle.           *)

\* elector.Run returned.
ElectorReturned ==
    /\ lifecycle = "electing"
    /\ elector = "returned"
    /\ lifecycle' = "cas"
    /\ UNCHANGED <<ctxVars, elector, activeVars, lifeErr, lifecycleDone, main,
                   leader, server>>

\* state.CompareAndSwap(0, 2): no callback will start any more, or one has
\* started and is waited for.  A return runs the deferred cancelRun.
LifecycleCAS ==
    /\ lifecycle = "cas"
    /\ IF state = 0
       THEN state' = 2 /\ lifecycle' = "send" /\ runDone' = TRUE
       ELSE lifecycle' = "receive" /\ UNCHANGED <<state, runDone>>
    /\ UNCHANGED <<elect, stopped, leadDone, elector, callback, activeErr,
                   activeDone, lifeErr, lifecycleDone, main, leader, server>>

LifecycleReceives ==
    /\ lifecycle = "receive"
    /\ activeDone # "empty"
    /\ lifeErr' = activeDone
    /\ activeDone' = "empty"
    /\ lifecycle' = "send"
    /\ runDone' = TRUE
    /\ UNCHANGED <<elect, stopped, leadDone, elector, state, callback,
                   activeErr, lifecycleDone, main, leader, server>>

\* Without leader election, the controller's context is main's; the deferred
\* SetLeader(false) runs when it returns.
SingleReturns ==
    /\ lifecycle = "single"
    /\ \E err \in Errors : lifeErr' = IF stopped THEN err ELSE "error"
    /\ leader' = FALSE
    /\ lifecycle' = "send"
    /\ UNCHANGED <<ctxVars, elector, activeVars, lifecycleDone, main, server>>

LifecycleSends ==
    /\ lifecycle = "send"
    /\ lifecycleDone = "empty"
    /\ lifecycleDone' = lifeErr
    /\ lifecycle' = "exit"
    /\ UNCHANGED <<ctxVars, elector, activeVars, lifeErr, main, leader, server>>
-----------------------------------------------------------------------------
(* main.                                                                   *)

\* The select takes the lifecycle's result, and calls stop, ...
MainReceives ==
    /\ main = "select"
    /\ lifecycleDone # "empty"
    /\ lifecycleDone' = "empty"
    /\ stopped' = TRUE
    /\ runDone' = TRUE
    /\ main' = "shutdown"
    /\ UNCHANGED <<elect, leadDone, elector, activeVars, lifecycle, lifeErr,
                   leader, server>>

\* ... or sees ctx done, and then waits for the lifecycle.
MainStopped ==
    /\ main = "select"
    /\ stopped
    /\ main' = "receive"
    /\ UNCHANGED <<ctxVars, elector, activeVars, lifecycle, lifeErr,
                   lifecycleDone, leader, server>>

MainWaits ==
    /\ main = "receive"
    /\ lifecycleDone # "empty"
    /\ lifecycleDone' = "empty"
    /\ main' = "shutdown"
    /\ UNCHANGED <<ctxVars, elector, activeVars, lifecycle, lifeErr, leader,
                   server>>

\* The runtime server is shut down within shutdownTimeout and main returns.
MainExits ==
    /\ main = "shutdown"
    /\ server' = FALSE
    /\ main' = "exited"
    /\ UNCHANGED <<ctxVars, elector, activeVars, lifecycle, lifeErr,
                   lifecycleDone, leader>>
-----------------------------------------------------------------------------
Callback ==
    \/ CallbackStarts \/ CallbackSetsLeader \/ CallbackUnsetsLeader
    \/ CallbackStoresState \/ CallbackSends \/ CallbackCancelsRun

Lifecycle ==
    \/ ElectorReturned \/ LifecycleCAS \/ LifecycleReceives \/ LifecycleSends

Main == MainReceives \/ MainStopped \/ MainWaits \/ MainExits

LifecycleNext ==
    /\ main # "exited"
    /\ \/ Stop \/ RuntimeServerFails
       \/ Acquire \/ AcquireStopped \/ RenewEnds
       \/ Callback \/ ActiveReturns
       \/ Lifecycle \/ SingleReturns \/ Main

\* Goroutines are scheduled; the elector and the active controller return once
\* their contexts are done.
LifecycleFairness ==
    /\ WF_lifecycleVars(Callback)
    /\ WF_lifecycleVars(Lifecycle)
    /\ WF_lifecycleVars(Main)
    /\ WF_lifecycleVars(AcquireStopped)
    /\ WF_lifecycleVars(runDone /\ RenewEnds)
    /\ WF_lifecycleVars(ActiveCtxDone /\ ActiveReturns)
    /\ WF_lifecycleVars(stopped /\ SingleReturns)

LifecycleSpec ==
    LifecycleInit /\ [][LifecycleNext]_lifecycleVars /\ LifecycleFairness
-----------------------------------------------------------------------------
(* Properties.                                                             *)

Working ==
    \/ callback \in {"setLeader", "active", "unsetLeader"}
    \/ lifecycle = "single"

\* Once the lifecycle has returned, the active controller does not run and a
\* callback goroutine that was late will not start it, so that main may shut
\* the endpoints and exit; and the leader gauge those endpoints show is up only
\* while the active controller may run, hence down from then on.
NothingActiveAfterLifecycle ==
    /\ (lifecycle \in {"send", "exit"} \/ main \in {"shutdown", "exited"})
        => ~Working
    /\ leader => Working

\* The process ends after a signal, after the lease is lost, and after the
\* active controller returned, whichever goroutine is faster: nobody waits on
\* a channel nobody will fill.
EveryEndIsReached ==
    /\ stopped ~> main = "exited"
    /\ elector = "returned" ~> main = "exited"
    /\ callback = "unsetLeader" ~> main = "exited"
=============================================================================

------------------------------ MODULE APIServer ------------------------------
(***************************************************************************)
(* The API server process and its users: the event stream and the          *)
(* readiness probe, which share the context that a signal cancels, and the *)
(* explanations a dashboard asks for.                                      *)
(***************************************************************************)
EXTENDS EventStream

CONSTANTS Probers, Timeout, Grace, MaxClock, Claims, NoClaim, MaxAsks

ASSUME ProbeAssumption ==
    /\ Timeout \in Nat \ {0}
    /\ Grace \in Nat
    /\ MaxClock \in Nat \ {0}

ASSUME PaneAssumption ==
    /\ NoClaim \notin Claims
    /\ MaxAsks \in Nat

VARIABLES reachable, clock, check, mark, lastSuccess, successes
VARIABLES page, selected, asked, pending, active, pane

INSTANCE ReadinessProbe
INSTANCE ExplanationPane

probeState == <<reachable, clock, check, mark, lastSuccess, successes>>
paneState == <<page, selected, asked, pending, active, pane>>
vars == <<streamVars, probeState, paneState>>

TypeOK == StreamTypeOK /\ ProbeTypeOK /\ PaneTypeOK

Init == StreamInit /\ ProbeInit /\ PaneInit

Next ==
    \/ StreamNext /\ UNCHANGED <<probeState, paneState>>
    \/ ProbeNext /\ server # "starting" /\ UNCHANGED <<streamVars, paneState>>
    \/ PaneNext /\ server # "starting" /\ UNCHANGED <<streamVars, probeState>>
    \/ (Signal \/ AcceptFails) /\ UNCHANGED <<probeState, paneState>>

Spec == Init /\ [][Next]_vars /\ StreamFairness
=============================================================================

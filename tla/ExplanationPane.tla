--------------------------- MODULE ExplanationPane ---------------------------
(***************************************************************************)
(* The dashboard's choice of a claim and its explanation (web/src/App.tsx, *)
(* useDashboardData for the list of claims, useClaimExplanation).  The     *)
(* server answers requests in any order; callbacks and the effects they    *)
(* cause run to completion.                                                *)
(***************************************************************************)
EXTENDS Naturals

CONSTANTS
    Claims,      \* identities, namespace and name
    NoClaim,     \* null
    MaxAsks      \* bound on the explanations asked for

VARIABLES
    page,        \* there is no dashboard, it waits for the claims, or has them
    selected,    \* selectedClaim
    asked,       \* the claims whose explanation was asked for, one after another
    pending,     \* the asks that have no answer yet
    active,      \* the ask whose effect has not been cleaned up, or 0
    pane         \* result, error and loading

Pane == [result : Claims \union {NoClaim}, error : BOOLEAN, loading : BOOLEAN]

Blank == [result |-> NoClaim, error |-> FALSE, loading |-> FALSE]

PaneTypeOK ==
    /\ page \in {"closed", "loading", "loaded"}
    /\ selected \in Claims \union {NoClaim}
    /\ asked \in [1..MaxAsks -> Claims \union {NoClaim}]
    /\ pending \subseteq 1..MaxAsks
    /\ active \in 0..MaxAsks
    /\ pane \in Pane

PaneInit ==
    /\ page \in {"closed", "loading"}
    /\ selected = NoClaim
    /\ asked = [n \in 1..MaxAsks |-> NoClaim]
    /\ pending = {}
    /\ active = 0
    /\ pane = Blank

\* setSelectedClaim with another identity: the cleanup of the previous effect
\* deactivates its ask, and the new effect asks or clears the pane.
Select(c) ==
    /\ selected' = c
    /\ IF c = NoClaim
       THEN /\ active' = 0
            /\ pane' = Blank
            /\ UNCHANGED <<asked, pending>>
       ELSE \E n \in 1..MaxAsks :
              /\ asked[n] = NoClaim
              /\ \A k \in 1..(n - 1) : asked[k] # NoClaim
              /\ asked' = [asked EXCEPT ![n] = c]
              /\ pending' = pending \union {n}
              /\ active' = n
              /\ pane' = [pane EXCEPT !.loading = TRUE, !.error = FALSE]

\* The user picks from the list, or a claim of the graph, which the list need not
\* have.  Picking the same claim again changes nothing.
Pick(c) ==
    /\ page # "closed"
    /\ c # selected
    /\ Select(c)
    /\ UNCHANGED page

\* The list arrives and the effect of App keeps the selection if the list has
\* it, else selects the first claim.
ListArrives(S) ==
    /\ page = "loading"
    /\ page' = "loaded"
    /\ IF selected \in S \/ (S = {} /\ selected = NoClaim)
       THEN UNCHANGED <<selected, asked, pending, active, pane>>
       ELSE \E c \in IF S = {} THEN {NoClaim} ELSE S : Select(c)

\* Its request fails: the list stays the empty one it was, so no effect runs.
ListFails ==
    /\ page = "loading"
    /\ page' = "loaded"
    /\ UNCHANGED <<selected, asked, pending, active, pane>>

\* Mutant of Settle: the answer is applied whatever is selected by now.
SettleAnyway(n) ==
    /\ n \in pending
    /\ pending' = pending \ {n}
    /\ \/ pane' = [result |-> asked[n], error |-> FALSE, loading |-> FALSE]
       \/ pane' = [result |-> NoClaim, error |-> TRUE, loading |-> FALSE]
    /\ UNCHANGED <<page, selected, asked, active>>

\* fetchExplain resolves or rejects; then, catch and finally act on the pane
\* only for the ask that is active.
Settle(n) ==
    /\ n \in pending
    /\ pending' = pending \ {n}
    /\ \/ /\ n = active
          /\ \/ pane' = [result |-> asked[n], error |-> FALSE, loading |-> FALSE]
             \/ pane' = [result |-> NoClaim, error |-> TRUE, loading |-> FALSE]
       \/ n # active /\ UNCHANGED pane
    /\ UNCHANGED <<page, selected, asked, active>>

PaneNext ==
    \/ \E c \in Claims \union {NoClaim} : Pick(c)
    \/ \E S \in SUBSET Claims : ListArrives(S)
    \/ ListFails
    \/ \E n \in 1..MaxAsks : Settle(n)
-----------------------------------------------------------------------------
(* Properties.                                                             *)

\* In whatever order answers come, a pane that is not loading shows the
\* explanation of the claim that is selected, or the error of asking for it, and
\* nothing when no claim is selected.
PaneShowsSelection ==
    ~pane.loading =>
        CASE selected = NoClaim -> pane = Blank
          [] pane.error -> pane.result = NoClaim
          [] OTHER -> pane.result = selected
=============================================================================

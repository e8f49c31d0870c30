----------------------------- MODULE MCAPIServer -----------------------------
(* Two dashboards, one of which may stop reading, on two connections; or two *)
(* probers; or the explanation pane of a dashboard.  The kinds share at most *)
(* the context, so a behaviour has one kind.                                 *)
EXTENDS APIServer

CONSTANTS t1, t2, p1, p2, c1, c2

NoDashboard == \A t \in Tabs : tab[t] = "absent"
NoProber == \A p \in Probers : check[p] = "off"
NoPane == page = "closed"

MCInit ==
    /\ Init
    /\ \/ /\ NoDashboard /\ NoPane
          /\ version = MaxVersion
          /\ \A p \in Probers : check[p] # "off"
       \/ /\ NoProber /\ NoPane
          /\ version = 0
          /\ \A t \in Tabs : tab[t] # "absent"
       \/ /\ NoDashboard /\ NoProber
          /\ version = MaxVersion
          /\ ~NoPane

MCSpec == MCInit /\ [][Next]_vars /\ StreamFairness
=============================================================================

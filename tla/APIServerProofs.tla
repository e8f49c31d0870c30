--------------------------- MODULE APIServerProofs ---------------------------
(***************************************************************************)
(* Proofs about APIServer: the event stream, the readiness probe and the   *)
(* explanation pane, for any number of dashboards, connections, probers,   *)
(* claims and requests.                                                    *)
(***************************************************************************)
EXTENDS APIServer, TLAPS

-----------------------------------------------------------------------------
(* The event stream.                                                       *)

Initial(m) == m # None /\ m.initial
Later(m) == m # None /\ ~m.initial

\* A connection is registered until its handler leaves, and its channel open
\* until the handler closes it.
Registered ==
    /\ \A k \in clients : pc[k] \in {"building", "writing", "waiting", "leaving"}
    /\ \A k \in Conns : pc[k] \in {"building", "writing", "waiting", "leaving",
                                   "closing"} => k \in open

\* No graph is newer than the cluster.
GraphsExist ==
    /\ news # None => news <= version
    /\ \A k \in Conns : /\ chan[k] # None => chan[k] <= version
                        /\ out[k] # None => out[k].graph <= version
                        /\ wire[k] # None => wire[k].graph <= version
    /\ \A t \in Tabs : shown[t] # None => shown[t].graph <= version

\* A dashboard holds one connection at most, and none while it retries.
OneConnection ==
    /\ \A j, k \in Conns : peer[j] = peer[k] /\ peer[j] # NoTab => j = k
    /\ \A k \in Conns : peer[k] # NoTab => tab[peer[k]] = "streaming"

\* The initial graph is the first message of a connection.
InitialIsFirst ==
    \A k \in Conns :
        /\ pc[k] # "writing" => out[k] = None
        /\ pc[k] \in {"free", "building"} => wire[k] = None
        /\ Initial(out[k]) => wire[k] = None

\* What was broadcast earlier is not newer.
BroadcastsInOrder ==
    \A k \in Conns :
        /\ Later(wire[k]) /\ Later(out[k]) => wire[k].graph <= out[k].graph
        /\ Later(wire[k]) /\ chan[k] # None => wire[k].graph <= chan[k]
        /\ Later(out[k]) /\ chan[k] # None => out[k].graph <= chan[k]

\* The graph the broadcaster holds is at least as new as all it sent before.
NewsIsNewest ==
    news # None =>
        /\ \A k \in Conns : /\ chan[k] # None => chan[k] <= news
                            /\ Later(out[k]) => out[k].graph <= news
                            /\ Later(wire[k]) => wire[k].graph <= news
        /\ \A t \in Tabs : Later(shown[t]) => shown[t].graph <= news

\* The dashboard has been shown the initial graph of connection k.
Begun(k) ==
    /\ pc[k] \notin {"free", "building"}
    /\ ~Initial(out[k])
    /\ ~Initial(wire[k])

\* The initial graph of a connection is not older than what the dashboard shows
\* when it comes, and no broadcast on it is older than one shown before.
ShownInOrder ==
    \A k \in Conns : \A t \in Tabs :
        peer[k] = t =>
            /\ Initial(out[k]) /\ shown[t] # None => shown[t].graph <= out[k].graph
            /\ Initial(wire[k]) /\ shown[t] # None => shown[t].graph <= wire[k].graph
            /\ Begun(k) /\ Later(shown[t]) =>
                  /\ Later(wire[k]) => shown[t].graph <= wire[k].graph
                  /\ Later(out[k]) => shown[t].graph <= out[k].graph
                  /\ chan[k] # None => shown[t].graph <= chan[k]

\* The inductive invariant of the event stream.
StreamIInv ==
    /\ StreamTypeOK
    /\ Registered
    /\ GraphsExist
    /\ OneConnection
    /\ InitialIsFirst
    /\ BroadcastsInOrder
    /\ NewsIsNewest
    /\ ShownInOrder

\* The parts of the invariant a step may disturb, action by action: first what
\* every step preserves, the types.
LEMMA StreamTypes ==
    ASSUME StreamTypeOK, StreamNext \/ Signal \/ AcceptFails \/ UNCHANGED streamVars
    PROVE  StreamTypeOK'
<1> USE StreamAssumption DEF StreamTypeOK, Conns, Graph, handlerVars, socketVars,
        casterVars, tabVars
<1>0. UNCHANGED cancelled \/ cancelled' = TRUE => cancelled' \in BOOLEAN
  BY Zenon
<1>1. ASSUME NEW k \in Conns, Handle(k) PROVE StreamTypeOK'
  <2>1. CASE BuildInitial(k)
    <3>1. [graph |-> version, initial |-> TRUE] \in Message
      BY DEF Message
    <3> QED
      BY <1>0, <2>1, <3>1 DEF BuildInitial
  <2>2. CASE WriteEvent(k)
    BY <1>0, <2>2 DEF WriteEvent
  <2>3. CASE Receive(k)
    <3>1. [graph |-> chan[k], initial |-> FALSE] \in Message
      BY <2>3 DEF Message, Receive
    <3> QED
      BY <1>0, <2>3, <3>1 DEF Receive
  <2>4. CASE SeeDone(k) \/ Unregister(k) \/ CloseChannel(k)
    BY <1>0, <2>4 DEF SeeDone, Unregister, CloseChannel
  <2> QED
    BY <1>1, <2>1, <2>2, <2>3, <2>4 DEF Handle
<1>2. CASE Cast
  BY <1>0, <1>2 DEF Cast, BuildNews, Broadcast, StopBroadcaster
<1>3. CASE Serve \/ Signal \/ AcceptFails
  <2>1. cancelled' \in BOOLEAN
    BY <1>0, <1>3, Zenon DEF Serve, Signal, AcceptFails, Listen, Drained, TimedOut
  <2> QED
    BY <1>3, <2>1 DEF Serve, Signal, AcceptFails, Listen, Drained, TimedOut
<1>4. CASE Change
  BY <1>0, <1>4 DEF Change
<1>5. ASSUME NEW t \in Tabs, NEW k \in Conns, Connect(t, k) PROVE StreamTypeOK'
  BY <1>0, <1>5 DEF Connect
<1>6. ASSUME NEW t \in Tabs, NEW k \in Conns, Show(t, k) PROVE StreamTypeOK'
  BY <1>0, <1>6 DEF Show
<1>7. ASSUME NEW t \in Tabs, NEW k \in Conns, HangUp(t, k) PROVE StreamTypeOK'
  BY <1>0, <1>7 DEF HangUp
<1>8. CASE UNCHANGED streamVars
  BY <1>8 DEF streamVars
<1> QED
  BY <1>1, <1>2, <1>3, <1>4, <1>5, <1>6, <1>7, <1>8 DEF StreamNext, Browse

\* Handlers register before they build and close only what they unregistered.
LEMMA StepRegistered ==
    ASSUME StreamIInv, StreamTypeOK',
           StreamNext \/ Signal \/ AcceptFails \/ UNCHANGED streamVars
    PROVE  Registered'
<1> USE StreamAssumption DEF StreamIInv, StreamTypeOK, Message, Graph, Conns, handlerVars,
        socketVars, casterVars, tabVars, Initial, Later,
        Registered
<1>1. ASSUME NEW k \in Conns, BuildInitial(k) PROVE Registered'
  BY <1>1 DEF BuildInitial
<1>2. ASSUME NEW k \in Conns, WriteEvent(k) PROVE Registered'
  BY <1>2 DEF WriteEvent
<1>3. ASSUME NEW k \in Conns, Receive(k) PROVE Registered'
  BY <1>3 DEF Receive
<1>4. ASSUME NEW k \in Conns, SeeDone(k) PROVE Registered'
  BY <1>4 DEF SeeDone
<1>5. ASSUME NEW k \in Conns, Unregister(k) PROVE Registered'
  BY <1>5 DEF Unregister
<1>6. ASSUME NEW k \in Conns, CloseChannel(k) PROVE Registered'
  BY <1>6 DEF CloseChannel
<1>7. CASE BuildNews
  BY <1>7 DEF BuildNews
<1>8. CASE Broadcast
  BY <1>8 DEF Broadcast
<1>9. CASE StopBroadcaster
  BY <1>9 DEF StopBroadcaster
<1>10. CASE Listen \/ Drained \/ Signal \/ AcceptFails \/ Change
  BY <1>10 DEF Listen, Drained, Signal, AcceptFails, Change
<1>11. CASE TimedOut
  BY <1>11 DEF TimedOut
<1>12. ASSUME NEW t \in Tabs, NEW k \in Conns, Connect(t, k) PROVE Registered'
  BY <1>12 DEF Connect
<1>13. ASSUME NEW t \in Tabs, NEW k \in Conns, Show(t, k) PROVE Registered'
  BY <1>13 DEF Show
<1>14. ASSUME NEW t \in Tabs, NEW k \in Conns, HangUp(t, k) PROVE Registered'
  BY <1>14 DEF HangUp
<1>15. CASE UNCHANGED streamVars
  BY <1>15 DEF streamVars
<1> QED
  BY <1>1, <1>2, <1>3, <1>4, <1>5, <1>6, <1>7, <1>8, <1>9,
     <1>10, <1>11, <1>12, <1>13, <1>14, <1>15
  DEF StreamNext, Handle, Cast, Serve, Browse

\* Graphs are built from the cluster as it is.
LEMMA StepGraphsExist ==
    ASSUME StreamIInv, StreamTypeOK',
           StreamNext \/ Signal \/ AcceptFails \/ UNCHANGED streamVars
    PROVE  GraphsExist'
<1> USE StreamAssumption DEF StreamIInv, StreamTypeOK, Message, Graph, Conns, handlerVars,
        socketVars, casterVars, tabVars, Initial, Later,
        GraphsExist
<1>1. ASSUME NEW k \in Conns, BuildInitial(k) PROVE GraphsExist'
  BY <1>1 DEF BuildInitial
<1>2. ASSUME NEW k \in Conns, WriteEvent(k) PROVE GraphsExist'
  BY <1>2 DEF WriteEvent
<1>3. ASSUME NEW k \in Conns, Receive(k) PROVE GraphsExist'
  BY <1>3 DEF Receive
<1>4. ASSUME NEW k \in Conns, SeeDone(k) PROVE GraphsExist'
  BY <1>4 DEF SeeDone
<1>5. ASSUME NEW k \in Conns, Unregister(k) PROVE GraphsExist'
  BY <1>5 DEF Unregister
<1>6. ASSUME NEW k \in Conns, CloseChannel(k) PROVE GraphsExist'
  BY <1>6 DEF CloseChannel
<1>7. CASE BuildNews
  BY <1>7 DEF BuildNews
<1>8. CASE Broadcast
  BY <1>8 DEF Broadcast
<1>9. CASE StopBroadcaster
  BY <1>9 DEF StopBroadcaster
<1>10. CASE Listen \/ Drained \/ Signal \/ AcceptFails \/ Change
  BY <1>10 DEF Listen, Drained, Signal, AcceptFails, Change
<1>11. CASE TimedOut
  BY <1>11 DEF TimedOut
<1>12. ASSUME NEW t \in Tabs, NEW k \in Conns, Connect(t, k) PROVE GraphsExist'
  BY <1>12 DEF Connect
<1>13. ASSUME NEW t \in Tabs, NEW k \in Conns, Show(t, k) PROVE GraphsExist'
  BY <1>13 DEF Show
<1>14. ASSUME NEW t \in Tabs, NEW k \in Conns, HangUp(t, k) PROVE GraphsExist'
  BY <1>14 DEF HangUp
<1>15. CASE UNCHANGED streamVars
  BY <1>15 DEF streamVars
<1> QED
  BY <1>1, <1>2, <1>3, <1>4, <1>5, <1>6, <1>7, <1>8, <1>9,
     <1>10, <1>11, <1>12, <1>13, <1>14, <1>15
  DEF StreamNext, Handle, Cast, Serve, Browse

\* onerror closes the source before the timer connects again.
LEMMA StepOneConnection ==
    ASSUME StreamIInv, StreamTypeOK',
           StreamNext \/ Signal \/ AcceptFails \/ UNCHANGED streamVars
    PROVE  OneConnection'
<1> USE StreamAssumption DEF StreamIInv, StreamTypeOK, Message, Graph, Conns, handlerVars,
        socketVars, casterVars, tabVars, Initial, Later,
        OneConnection
<1>1. ASSUME NEW k \in Conns, BuildInitial(k) PROVE OneConnection'
  BY <1>1 DEF BuildInitial
<1>2. ASSUME NEW k \in Conns, WriteEvent(k) PROVE OneConnection'
  BY <1>2 DEF WriteEvent
<1>3. ASSUME NEW k \in Conns, Receive(k) PROVE OneConnection'
  BY <1>3 DEF Receive
<1>4. ASSUME NEW k \in Conns, SeeDone(k) PROVE OneConnection'
  BY <1>4 DEF SeeDone
<1>5. ASSUME NEW k \in Conns, Unregister(k) PROVE OneConnection'
  BY <1>5 DEF Unregister
<1>6. ASSUME NEW k \in Conns, CloseChannel(k) PROVE OneConnection'
  BY <1>6 DEF CloseChannel
<1>7. CASE BuildNews
  BY <1>7 DEF BuildNews
<1>8. CASE Broadcast
  BY <1>8 DEF Broadcast
<1>9. CASE StopBroadcaster
  BY <1>9 DEF StopBroadcaster
<1>10. CASE Listen \/ Drained \/ Signal \/ AcceptFails \/ Change
  BY <1>10 DEF Listen, Drained, Signal, AcceptFails, Change
<1>11. CASE TimedOut
  BY <1>11 DEF TimedOut
<1>12. ASSUME NEW t \in Tabs, NEW k \in Conns, Connect(t, k) PROVE OneConnection'
  BY <1>12 DEF Connect
<1>13. ASSUME NEW t \in Tabs, NEW k \in Conns, Show(t, k) PROVE OneConnection'
  BY <1>13 DEF Show
<1>14. ASSUME NEW t \in Tabs, NEW k \in Conns, HangUp(t, k) PROVE OneConnection'
  BY <1>14 DEF HangUp
<1>15. CASE UNCHANGED streamVars
  BY <1>15 DEF streamVars
<1> QED
  BY <1>1, <1>2, <1>3, <1>4, <1>5, <1>6, <1>7, <1>8, <1>9,
     <1>10, <1>11, <1>12, <1>13, <1>14, <1>15
  DEF StreamNext, Handle, Cast, Serve, Browse

\* handleStream writes the initial graph before it enters its loop.
LEMMA StepInitialIsFirst ==
    ASSUME StreamIInv, StreamTypeOK',
           StreamNext \/ Signal \/ AcceptFails \/ UNCHANGED streamVars
    PROVE  InitialIsFirst'
<1> USE StreamAssumption DEF StreamIInv, StreamTypeOK, Message, Graph, Conns, handlerVars,
        socketVars, casterVars, tabVars, Initial, Later,
        InitialIsFirst
<1>1. ASSUME NEW k \in Conns, BuildInitial(k) PROVE InitialIsFirst'
  BY <1>1 DEF BuildInitial
<1>2. ASSUME NEW k \in Conns, WriteEvent(k) PROVE InitialIsFirst'
  BY <1>2 DEF WriteEvent
<1>3. ASSUME NEW k \in Conns, Receive(k) PROVE InitialIsFirst'
  BY <1>3 DEF Receive
<1>4. ASSUME NEW k \in Conns, SeeDone(k) PROVE InitialIsFirst'
  BY <1>4 DEF SeeDone
<1>5. ASSUME NEW k \in Conns, Unregister(k) PROVE InitialIsFirst'
  BY <1>5 DEF Unregister
<1>6. ASSUME NEW k \in Conns, CloseChannel(k) PROVE InitialIsFirst'
  BY <1>6 DEF CloseChannel
<1>7. CASE BuildNews
  BY <1>7 DEF BuildNews
<1>8. CASE Broadcast
  BY <1>8 DEF Broadcast
<1>9. CASE StopBroadcaster
  BY <1>9 DEF StopBroadcaster
<1>10. CASE Listen \/ Drained \/ Signal \/ AcceptFails \/ Change
  BY <1>10 DEF Listen, Drained, Signal, AcceptFails, Change
<1>11. CASE TimedOut
  BY <1>11 DEF TimedOut
<1>12. ASSUME NEW t \in Tabs, NEW k \in Conns, Connect(t, k) PROVE InitialIsFirst'
  BY <1>12 DEF Connect
<1>13. ASSUME NEW t \in Tabs, NEW k \in Conns, Show(t, k) PROVE InitialIsFirst'
  BY <1>13 DEF Show
<1>14. ASSUME NEW t \in Tabs, NEW k \in Conns, HangUp(t, k) PROVE InitialIsFirst'
  BY <1>14 DEF HangUp
<1>15. CASE UNCHANGED streamVars
  BY <1>15 DEF streamVars
<1> QED
  BY <1>1, <1>2, <1>3, <1>4, <1>5, <1>6, <1>7, <1>8, <1>9,
     <1>10, <1>11, <1>12, <1>13, <1>14, <1>15
  DEF StreamNext, Handle, Cast, Serve, Browse

\* Buffer, handler and socket keep the order of the broadcasts.
LEMMA StepBroadcastsInOrder ==
    ASSUME StreamIInv, StreamTypeOK',
           StreamNext \/ Signal \/ AcceptFails \/ UNCHANGED streamVars
    PROVE  BroadcastsInOrder'
<1> USE StreamAssumption DEF StreamIInv, StreamTypeOK, Message, Graph, Conns, handlerVars,
        socketVars, casterVars, tabVars, Initial, Later,
        GraphsExist, InitialIsFirst, NewsIsNewest, BroadcastsInOrder
<1>1. ASSUME NEW k \in Conns, BuildInitial(k) PROVE BroadcastsInOrder'
  BY <1>1 DEF BuildInitial
<1>2. ASSUME NEW k \in Conns, WriteEvent(k) PROVE BroadcastsInOrder'
  BY <1>2 DEF WriteEvent
<1>3. ASSUME NEW k \in Conns, Receive(k) PROVE BroadcastsInOrder'
  BY <1>3 DEF Receive
<1>4. ASSUME NEW k \in Conns, SeeDone(k) PROVE BroadcastsInOrder'
  BY <1>4 DEF SeeDone
<1>5. ASSUME NEW k \in Conns, Unregister(k) PROVE BroadcastsInOrder'
  BY <1>5 DEF Unregister
<1>6. ASSUME NEW k \in Conns, CloseChannel(k) PROVE BroadcastsInOrder'
  BY <1>6 DEF CloseChannel
<1>7. CASE BuildNews
  BY <1>7 DEF BuildNews
<1>8. CASE Broadcast
  BY <1>8 DEF Broadcast
<1>9. CASE StopBroadcaster
  BY <1>9 DEF StopBroadcaster
<1>10. CASE Listen \/ Drained \/ Signal \/ AcceptFails \/ Change
  BY <1>10 DEF Listen, Drained, Signal, AcceptFails, Change
<1>11. CASE TimedOut
  BY <1>11 DEF TimedOut
<1>12. ASSUME NEW t \in Tabs, NEW k \in Conns, Connect(t, k) PROVE BroadcastsInOrder'
  BY <1>12 DEF Connect
<1>13. ASSUME NEW t \in Tabs, NEW k \in Conns, Show(t, k) PROVE BroadcastsInOrder'
  BY <1>13 DEF Show
<1>14. ASSUME NEW t \in Tabs, NEW k \in Conns, HangUp(t, k) PROVE BroadcastsInOrder'
  BY <1>14 DEF HangUp
<1>15. CASE UNCHANGED streamVars
  BY <1>15 DEF streamVars
<1> QED
  BY <1>1, <1>2, <1>3, <1>4, <1>5, <1>6, <1>7, <1>8, <1>9,
     <1>10, <1>11, <1>12, <1>13, <1>14, <1>15
  DEF StreamNext, Handle, Cast, Serve, Browse

\* A broadcast is built after the one before it was sent.
LEMMA StepNewsIsNewest ==
    ASSUME StreamIInv, StreamTypeOK',
           StreamNext \/ Signal \/ AcceptFails \/ UNCHANGED streamVars
    PROVE  NewsIsNewest'
<1> USE StreamAssumption DEF StreamIInv, StreamTypeOK, Message, Graph, Conns, handlerVars,
        socketVars, casterVars, tabVars, Initial, Later,
        GraphsExist, NewsIsNewest
<1>1. ASSUME NEW k \in Conns, BuildInitial(k) PROVE NewsIsNewest'
  BY <1>1 DEF BuildInitial
<1>2. ASSUME NEW k \in Conns, WriteEvent(k) PROVE NewsIsNewest'
  BY <1>2 DEF WriteEvent
<1>3. ASSUME NEW k \in Conns, Receive(k) PROVE NewsIsNewest'
  BY <1>3 DEF Receive
<1>4. ASSUME NEW k \in Conns, SeeDone(k) PROVE NewsIsNewest'
  BY <1>4 DEF SeeDone
<1>5. ASSUME NEW k \in Conns, Unregister(k) PROVE NewsIsNewest'
  BY <1>5 DEF Unregister
<1>6. ASSUME NEW k \in Conns, CloseChannel(k) PROVE NewsIsNewest'
  BY <1>6 DEF CloseChannel
<1>7. CASE BuildNews
  BY <1>7 DEF BuildNews
<1>8. CASE Broadcast
  BY <1>8 DEF Broadcast
<1>9. CASE StopBroadcaster
  BY <1>9 DEF StopBroadcaster
<1>10. CASE Listen \/ Drained \/ Signal \/ AcceptFails \/ Change
  BY <1>10 DEF Listen, Drained, Signal, AcceptFails, Change
<1>11. CASE TimedOut
  BY <1>11 DEF TimedOut
<1>12. ASSUME NEW t \in Tabs, NEW k \in Conns, Connect(t, k) PROVE NewsIsNewest'
  BY <1>12 DEF Connect
<1>13. ASSUME NEW t \in Tabs, NEW k \in Conns, Show(t, k) PROVE NewsIsNewest'
  BY <1>13 DEF Show
<1>14. ASSUME NEW t \in Tabs, NEW k \in Conns, HangUp(t, k) PROVE NewsIsNewest'
  BY <1>14 DEF HangUp
<1>15. CASE UNCHANGED streamVars
  BY <1>15 DEF streamVars
<1> QED
  BY <1>1, <1>2, <1>3, <1>4, <1>5, <1>6, <1>7, <1>8, <1>9,
     <1>10, <1>11, <1>12, <1>13, <1>14, <1>15
  DEF StreamNext, Handle, Cast, Serve, Browse

\* A new connection starts from a graph built after the last one was shown.
LEMMA StepShownInOrder ==
    ASSUME StreamIInv, StreamTypeOK',
           StreamNext \/ Signal \/ AcceptFails \/ UNCHANGED streamVars
    PROVE  ShownInOrder'
<1> USE StreamAssumption DEF StreamIInv, StreamTypeOK, Message, Graph, Conns, handlerVars,
        socketVars, casterVars, tabVars, Initial, Later,
        GraphsExist, OneConnection, InitialIsFirst, BroadcastsInOrder,
        NewsIsNewest, Begun, ShownInOrder
<1>1. ASSUME NEW k \in Conns, BuildInitial(k) PROVE ShownInOrder'
  <2>1. /\ out' = [out EXCEPT ![k] = [graph |-> version, initial |-> TRUE]]
        /\ pc' = [pc EXCEPT ![k] = "writing"]
        /\ wire[k] = None /\ chan' = chan /\ wire' = wire
        /\ peer' = peer /\ shown' = shown
    BY <1>1 DEF BuildInitial
  <2>2. /\ out'[k] \in Message /\ out'[k].initial = TRUE
        /\ out'[k].graph = version
        /\ \A j \in Conns \ {k} : out'[j] = out[j] /\ pc'[j] = pc[j]
    BY <2>1
  <2>3. Initial(out'[k])
    BY <2>2
  <2> QED
    BY <2>1, <2>2, <2>3
<1>2. ASSUME NEW k \in Conns, WriteEvent(k) PROVE ShownInOrder'
  BY <1>2 DEF WriteEvent
<1>3. ASSUME NEW k \in Conns, Receive(k) PROVE ShownInOrder'
  <2>1. /\ out' = [out EXCEPT ![k] = [graph |-> chan[k], initial |-> FALSE]]
        /\ pc' = [pc EXCEPT ![k] = "writing"] /\ pc[k] = "waiting"
        /\ chan' = [chan EXCEPT ![k] = None] /\ chan[k] # None
        /\ wire' = wire /\ peer' = peer /\ shown' = shown
    BY <1>3 DEF Receive
  <2>2. /\ out'[k].graph = chan[k] /\ ~Initial(out'[k]) /\ chan'[k] = None
        /\ \A j \in Conns \ {k} :
              out'[j] = out[j] /\ pc'[j] = pc[j] /\ chan'[j] = chan[j]
    BY <2>1
  <2> QED
    BY <2>1, <2>2
<1>4. ASSUME NEW k \in Conns, SeeDone(k) PROVE ShownInOrder'
  BY <1>4 DEF SeeDone
<1>5. ASSUME NEW k \in Conns, Unregister(k) PROVE ShownInOrder'
  BY <1>5 DEF Unregister
<1>6. ASSUME NEW k \in Conns, CloseChannel(k) PROVE ShownInOrder'
  BY <1>6 DEF CloseChannel
<1>7. CASE BuildNews
  BY <1>7 DEF BuildNews
<1>8. CASE Broadcast
  BY <1>8 DEF Broadcast
<1>9. CASE StopBroadcaster
  BY <1>9 DEF StopBroadcaster
<1>10. CASE Listen \/ Drained \/ Signal \/ AcceptFails \/ Change
  BY <1>10 DEF Listen, Drained, Signal, AcceptFails, Change
<1>11. CASE TimedOut
  BY <1>11 DEF TimedOut
<1>12. ASSUME NEW t \in Tabs, NEW k \in Conns, Connect(t, k) PROVE ShownInOrder'
  BY <1>12 DEF Connect
<1>13. ASSUME NEW t \in Tabs, NEW k \in Conns, Show(t, k) PROVE ShownInOrder'
  BY <1>13 DEF Show
<1>14. ASSUME NEW t \in Tabs, NEW k \in Conns, HangUp(t, k) PROVE ShownInOrder'
  BY <1>14 DEF HangUp
<1>15. CASE UNCHANGED streamVars
  BY <1>15 DEF streamVars
<1> QED
  BY <1>1, <1>2, <1>3, <1>4, <1>5, <1>6, <1>7, <1>8, <1>9,
     <1>10, <1>11, <1>12, <1>13, <1>14, <1>15
  DEF StreamNext, Handle, Cast, Serve, Browse

\* The invariant of the event stream is inductive.
LEMMA StreamStep ==
    ASSUME StreamIInv, StreamNext \/ Signal \/ AcceptFails \/ UNCHANGED streamVars
    PROVE  StreamIInv'
<1>1. StreamTypeOK'
  BY StreamTypes DEF StreamIInv
<1> QED
  BY <1>1, StepRegistered, StepGraphsExist, StepOneConnection, StepInitialIsFirst,
     StepBroadcastsInOrder, StepNewsIsNewest, StepShownInOrder DEF StreamIInv

\* It holds when the server starts.
LEMMA StreamBegins == StreamInit => StreamIInv
<1> SUFFICES ASSUME StreamInit PROVE StreamIInv
  OBVIOUS
<1>1. cancelled \in BOOLEAN
  BY Zenon DEF StreamInit
<1>2. StreamTypeOK
  BY <1>1, StreamAssumption DEF StreamInit, StreamTypeOK, Graph, Conns
<1> QED
  BY <1>2, StreamAssumption DEF StreamInit, StreamIInv, Registered, GraphsExist,
     OneConnection, InitialIsFirst, BroadcastsInOrder, NewsIsNewest,
     ShownInOrder, Initial, Later, Conns
-----------------------------------------------------------------------------
(* The readiness probe.                                                    *)

\* What is recorded as the last success was one, and so was every check that
\* passed and still waits for the lock.
ProbeIInv ==
    /\ ProbeTypeOK
    /\ lastSuccess # 0 => lastSuccess \in successes
    /\ \A p \in Probers : check[p] = "passed" => mark[p] \in successes

\* The probe keeps its invariant.
LEMMA ProbeStep ==
    ASSUME ProbeIInv, ProbeNext \/ UNCHANGED probeState
    PROVE  ProbeIInv'
<1> USE ProbeAssumption DEF ProbeIInv, ProbeTypeOK
<1>1. ASSUME NEW p \in Probers, BeginCheck(p) PROVE ProbeIInv'
  BY <1>1 DEF BeginCheck
<1>2. ASSUME NEW p \in Probers, FinishCheck(p) PROVE ProbeIInv'
  <2>1. CASE successes' = successes \union {clock}
    BY <1>2, <2>1 DEF FinishCheck
  <2>2. CASE check' = [check EXCEPT ![p] = "failed"] /\ successes' = successes
    BY <1>2, <2>2 DEF FinishCheck
  <2> QED
    BY <1>2, <2>1, <2>2 DEF FinishCheck
<1>3. ASSUME NEW p \in Probers, Answer(p) PROVE ProbeIInv'
  BY <1>3 DEF Answer
<1>4. CASE Flip
  <2>1. reachable' \in BOOLEAN
    BY <1>4, Zenon DEF Flip
  <2> QED
    BY <1>4, <2>1 DEF Flip
<1>5. CASE ProbeTick
  BY <1>5 DEF ProbeTick
<1>6. CASE UNCHANGED probeState
  BY <1>6 DEF probeState
<1> QED
  BY <1>1, <1>2, <1>3, <1>4, <1>5, <1>6 DEF ProbeNext, Probe

\* It holds before the first check.
LEMMA ProbeBegins == ProbeInit => ProbeIInv
<1> SUFFICES ASSUME ProbeInit PROVE ProbeIInv
  OBVIOUS
<1>1. reachable \in BOOLEAN
  BY Zenon DEF ProbeInit
<1> QED
  BY <1>1, ProbeAssumption DEF ProbeInit, ProbeIInv, ProbeTypeOK, StartedAt
-----------------------------------------------------------------------------
(* The explanation pane.                                                   *)

\* The ask that is active is the one for the selected claim, and what the pane
\* shows when it does not load is its answer.
PaneIInv ==
    /\ PaneTypeOK
    /\ selected = NoClaim => active = 0 /\ pane = Blank
    /\ active # 0 => asked[active] = selected
    /\ selected # NoClaim /\ ~pane.loading =>
          pane.result = IF pane.error THEN NoClaim ELSE selected

\* A change of the selection keeps the invariant.
LEMMA SelectStep ==
    ASSUME PaneIInv, NEW c \in Claims \union {NoClaim}, Select(c),
           page' \in {"closed", "loading", "loaded"}
    PROVE  PaneIInv'
<1> USE PaneAssumption DEF PaneIInv, PaneTypeOK
<1>1. CASE c = NoClaim
  <2>1. Blank \in Pane
    BY DEF Blank, Pane
  <2> QED
    BY <1>1, <2>1 DEF Select
<1>2. CASE c # NoClaim
  <2>1. PICK n \in 1..MaxAsks :
            /\ asked' = [asked EXCEPT ![n] = c]
            /\ pending' = pending \union {n}
            /\ active' = n
            /\ pane' = [pane EXCEPT !.loading = TRUE, !.error = FALSE]
    BY <1>2 DEF Select
  <2>2. pane' \in Pane /\ pane'.loading = TRUE
    BY <2>1 DEF Pane
  <2>3. pane'.loading
    BY <2>2
  <2> QED
    BY <1>2, <2>1, <2>2, <2>3 DEF Select
<1> QED
  BY <1>1, <1>2

\* The pane keeps its invariant.
LEMMA PaneStep ==
    ASSUME PaneIInv, PaneNext \/ UNCHANGED paneState
    PROVE  PaneIInv'
<1> USE PaneAssumption DEF PaneIInv, PaneTypeOK
<1>1. ASSUME NEW c \in Claims \union {NoClaim}, Pick(c) PROVE PaneIInv'
  BY <1>1, SelectStep DEF Pick
<1>2. ASSUME NEW S \in SUBSET Claims, ListArrives(S) PROVE PaneIInv'
  <2>1. CASE UNCHANGED <<selected, asked, pending, active, pane>>
    BY <1>2, <2>1 DEF ListArrives
  <2>2. ASSUME NEW c \in Claims \union {NoClaim}, Select(c) PROVE PaneIInv'
    BY <1>2, <2>2, SelectStep DEF ListArrives
  <2> QED
    BY <1>2, <2>1, <2>2 DEF ListArrives
<1>3. CASE ListFails
  BY <1>3 DEF ListFails
<1>4. ASSUME NEW n \in 1..MaxAsks, Settle(n) PROVE PaneIInv'
  <2>1. CASE n # active
    BY <1>4, <2>1 DEF Settle
  <2>2. CASE n = active /\ pane' = [result |-> asked[n], error |-> FALSE, loading |-> FALSE]
    <3>1. pane' \in Pane /\ ~pane'.error /\ pane'.result = asked[n]
      BY <2>2 DEF Pane
    <3> QED
      BY <1>4, <2>2, <3>1 DEF Settle
  <2>3. CASE n = active /\ pane' = [result |-> NoClaim, error |-> TRUE, loading |-> FALSE]
    <3>1. pane' \in Pane /\ pane'.error = TRUE /\ pane'.result = NoClaim
      BY <2>3 DEF Pane
    <3> QED
      BY <1>4, <2>3, <3>1 DEF Settle
  <2> QED
    BY <1>4, <2>1, <2>2, <2>3 DEF Settle
<1>5. CASE UNCHANGED paneState
  BY <1>5 DEF paneState
<1> QED
  BY <1>1, <1>2, <1>3, <1>4, <1>5 DEF PaneNext

\* It holds before a dashboard is opened.
LEMMA PaneBegins == PaneInit => PaneIInv
  BY PaneAssumption DEF PaneInit, PaneIInv, PaneTypeOK, Pane, Blank
-----------------------------------------------------------------------------
(* The server.                                                             *)

IInv == StreamIInv /\ ProbeIInv /\ PaneIInv

\* The three invariants hold together.
LEMMA InductiveInvariant == Spec => []IInv
<1>1. Init => IInv
  BY StreamBegins, ProbeBegins, PaneBegins DEF Init, IInv
<1>2. IInv /\ [Next]_vars => IInv'
  <2> SUFFICES ASSUME IInv, [Next]_vars PROVE IInv'
    OBVIOUS
  <2>1. StreamNext \/ Signal \/ AcceptFails \/ UNCHANGED streamVars
    BY DEF Next, vars
  <2>2. ProbeNext \/ UNCHANGED probeState
    BY DEF Next, vars
  <2>3. PaneNext \/ UNCHANGED paneState
    BY DEF Next, vars
  <2> QED
    BY <2>1, <2>2, <2>3, StreamStep, ProbeStep, PaneStep DEF IInv
<1> QED
  BY <1>1, <1>2, PTL DEF Spec

\* Every reachable state of the API server and its users is well typed.
THEOREM ServerTypes == Spec => []TypeOK
<1>1. IInv => TypeOK
  BY DEF IInv, StreamIInv, ProbeIInv, PaneIInv, TypeOK
<1> QED
  BY <1>1, InductiveInvariant, PTL

\* handleStream's cleanup and the broadcaster, whatever their interleaving with
\* any number of connections: no channel in the client map is closed.
THEOREM NoSendOnClosedChannelHolds == Spec => []NoSendOnClosedChannel
<1>1. IInv => NoSendOnClosedChannel
  BY DEF IInv, StreamIInv, StreamTypeOK, Registered, NoSendOnClosedChannel
<1> QED
  BY <1>1, InductiveInvariant, PTL

\* A dashboard's view goes back in time only from the graph built for its
\* connection to the first broadcast after it, never when it reconnects and
\* never between broadcasts, for any number of dashboards and connections.
THEOREM ShownGoesBackOnlyOnceHolds == Spec => ShownGoesBackOnlyOnce
<1>1. ASSUME IInv, [Next]_vars,
             NEW t \in Tabs, shown[t] # None, shown'[t].graph < shown[t].graph
      PROVE  shown[t].initial /\ ~shown'[t].initial
  <2> USE StreamAssumption DEF IInv, StreamIInv, StreamTypeOK, Message, Graph,
          Conns, Initial, Later
  <2>1. CASE \E k \in Conns : Show(t, k)
    <3>1. PICK k \in Conns : Show(t, k)
      BY <2>1
    <3>2. /\ shown'[t] = wire[k] /\ wire[k] \in Message /\ shown[t] \in Message
          /\ peer[k] = t
      BY <1>1, <3>1 DEF Show
    <3>3. ~Initial(wire[k])
      BY <1>1, <3>2 DEF ShownInOrder
    <3>4. Later(wire[k]) /\ wire[k] # None
      BY <3>1, <3>2, <3>3 DEF Show
    <3>5. Begun(k)
      BY <1>1, <3>3, <3>4 DEF Begun, InitialIsFirst
    <3>6. ~Later(shown[t])
      BY <1>1, <3>2, <3>4, <3>5 DEF ShownInOrder
    <3> QED
      BY <1>1, <3>2, <3>4, <3>6
  <2>2. CASE ~\E k \in Conns : Show(t, k)
    <3>1. StreamNext \/ Signal \/ AcceptFails \/ UNCHANGED streamVars
      BY <1>1 DEF Next, vars
    <3>2. shown'[t] = shown[t]
      <4> USE DEF handlerVars, socketVars, casterVars, tabVars
      <4>1. ASSUME NEW k \in Conns, Handle(k) PROVE shown' = shown
        BY <4>1 DEF Handle, BuildInitial, WriteEvent, Receive, SeeDone,
           Unregister, CloseChannel
      <4>2. CASE Cast \/ Serve \/ Change \/ Signal \/ AcceptFails
        BY <4>2 DEF Cast, BuildNews, Broadcast, StopBroadcaster, Serve, Listen,
           Drained, TimedOut, Change, Signal, AcceptFails
      <4>3. ASSUME NEW s \in Tabs, NEW k \in Conns,
                   Connect(s, k) \/ HangUp(s, k) \/ Show(s, k)
            PROVE  shown'[t] = shown[t]
        <5>1. CASE Connect(s, k) \/ HangUp(s, k)
          BY <5>1 DEF Connect, HangUp
        <5>2. CASE Show(s, k)
          <6>1. s # t
            BY <2>2, <5>2
          <6> QED
            BY <5>2, <6>1 DEF Show
        <5> QED
          BY <4>3, <5>1, <5>2
      <4>4. CASE UNCHANGED streamVars
        BY <4>4 DEF streamVars
      <4> QED
        BY <3>1, <4>1, <4>2, <4>3, <4>4 DEF StreamNext, Browse
    <3> QED
      BY <1>1, <3>2
  <2> QED
    BY <2>1, <2>2
<1>2. IInv /\ [Next]_vars =>
        [\A t \in Tabs :
            /\ shown[t] # None
            /\ shown'[t].graph < shown[t].graph
            => shown[t].initial /\ ~shown'[t].initial]_streamVars
  BY <1>1
<1> QED
  BY <1>2, InductiveInvariant, PTL DEF Spec, ShownGoesBackOnlyOnce

\* In whatever order concurrent checks begin, end and get the lock of
\* readiness.go, an answer that says ready or degraded rests on a success less
\* than the grace period before its check ended, or on the start.
THEOREM ReadyIsRecentHolds == Spec => []ReadyIsRecent
<1>1. ASSUME ProbeIInv PROVE ReadyIsRecent
  <2> SUFFICES ASSUME NEW p \in Probers, check[p] \in {"passed", "failed"},
                      Verdict(p) \in {"ready", "degraded"}
               PROVE  \E s \in successes \union {StartedAt} :
                          mark[p] < s + Grace \/ mark[p] = s
    BY DEF ReadyIsRecent
  <2>1. CASE check[p] = "passed"
    BY <1>1, <2>1 DEF ProbeIInv
  <2>2. CASE check[p] = "failed"
    <3>1. WithinGrace(p)
      BY <2>2 DEF Verdict
    <3>2. Reference \in successes \union {StartedAt}
      BY <1>1 DEF ProbeIInv, Reference
    <3> QED
      BY <3>1, <3>2 DEF WithinGrace
  <2> QED
    BY <2>1, <2>2
<1> QED
  BY <1>1, InductiveInvariant, PTL DEF IInv

\* In whatever order the server answers, a pane that is not loading shows the
\* explanation of the selected claim, or the error of asking for it.
THEOREM PaneShowsSelectionHolds == Spec => []PaneShowsSelection
<1>1. ASSUME PaneIInv PROVE PaneShowsSelection
  <2> SUFFICES ASSUME ~pane.loading
               PROVE  CASE selected = NoClaim -> pane = Blank
                        [] pane.error -> pane.result = NoClaim
                        [] OTHER -> pane.result = selected
    BY DEF PaneShowsSelection
  <2>1. CASE selected = NoClaim
    <3>1. pane = Blank /\ ~pane.error
      BY <1>1, <2>1 DEF PaneIInv, Blank
    <3> QED
      BY <2>1, <3>1, Zenon
  <2>2. CASE selected # NoClaim /\ pane.error
    BY <1>1, <2>2, Zenon DEF PaneIInv
  <2>3. CASE selected # NoClaim /\ ~pane.error
    BY <1>1, <2>3, Zenon DEF PaneIInv
  <2> QED
    BY <2>1, <2>2, <2>3
<1> QED
  BY <1>1, InductiveInvariant, PTL DEF IInv
=============================================================================

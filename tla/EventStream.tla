----------------------------- MODULE EventStream -----------------------------
(***************************************************************************)
(* The API server's event stream (internal/server/server.go): the handler  *)
(* of every /api/stream connection, the one broadcaster, the client map    *)
(* they share under s.mu, shutdown, and the dashboard's useSSE hook at the *)
(* other end.  A graph is the version of what the cluster shows; a change  *)
(* of availability is a new version too.  Each critical section of s.mu is *)
(* one step: nothing in it waits, and it excludes only the other ones.     *)
(***************************************************************************)
EXTENDS Naturals

CONSTANTS
    Tabs,        \* dashboards
    Stuck,       \* those that stay connected and never read
    MaxConns,    \* bound on the connections that are made, one after another
    NoTab,       \* nobody at the other end
    None,        \* no graph or message
    MaxVersion   \* bound on changes of the cluster

Conns == 1..MaxConns
Graph == 0..MaxVersion
Message == [graph : Graph, initial : BOOLEAN]

ASSUME StreamAssumption ==
    /\ Stuck \subseteq Tabs
    /\ NoTab \notin Tabs
    /\ MaxVersion \in Nat /\ MaxConns \in Nat
    /\ None \notin Nat \union Message

VARIABLES
    version,    \* what a graph built now shows
    server,     \* where Start is
    cancelled,  \* the process's context, and every request's with it
    clients,    \* s.clients
    pc,         \* of each connection's handler
    chan,       \* its channel's buffered event
    open,       \* channels that are not closed
    out,        \* the message the handler writes
    wire,       \* the message in the socket's buffers
    peer,       \* the dashboard that holds the connection
    caster,     \* where the broadcaster is
    news,       \* the graph it has built
    tab,        \* of each dashboard: useSSE
    shown       \* the message a dashboard shows

handlerVars == <<clients, pc, chan, open, out>>
socketVars == <<wire, peer>>
casterVars == <<caster, news>>
tabVars == <<tab, shown>>
streamVars == <<version, server, cancelled, handlerVars, socketVars, casterVars,
                tabVars>>

StreamTypeOK ==
    /\ version \in 0..MaxVersion
    /\ server \in {"starting", "serving", "draining", "returned"}
    /\ cancelled \in BOOLEAN
    /\ clients \subseteq Conns
    /\ pc \in [Conns -> {"free", "building", "writing", "waiting",
                         "leaving", "closing", "ended"}]
    /\ chan \in [Conns -> Graph \union {None}]
    /\ open \subseteq Conns
    /\ out \in [Conns -> Message \union {None}]
    /\ wire \in [Conns -> Message \union {None}]
    /\ peer \in [Conns -> Tabs \union {NoTab}]
    /\ caster \in {"idle", "built", "stopped"}
    /\ news \in Graph \union {None}
    /\ tab \in [Tabs -> {"absent", "retrying", "streaming"}]
    /\ shown \in [Tabs -> Message \union {None}]

StreamInit ==
    /\ version \in 0..MaxVersion
    /\ server = "starting"
    /\ cancelled = FALSE
    /\ clients = {}
    /\ pc = [k \in Conns |-> "free"]
    /\ chan = [k \in Conns |-> None]
    /\ open = {}
    /\ out = [k \in Conns |-> None]
    /\ wire = [k \in Conns |-> None]
    /\ peer = [k \in Conns |-> NoTab]
    /\ caster = "idle"
    /\ news = None
    /\ tab \in [Tabs -> {"absent", "retrying"}]
    /\ shown = [t \in Tabs |-> None]

\* Something in the cluster changes.
Change ==
    /\ version < MaxVersion
    /\ version' = version + 1
    /\ UNCHANGED <<server, cancelled, handlerVars, socketVars, casterVars,
                   tabVars>>
-----------------------------------------------------------------------------
(* The handler of one connection.                                          *)

\* The channel is registered before the initial graph is built, so that no
\* broadcast is missed in between.
BuildInitial(k) ==
    /\ pc[k] = "building"
    /\ out' = [out EXCEPT ![k] = [graph |-> version, initial |-> TRUE]]
    /\ pc' = [pc EXCEPT ![k] = "writing"]
    /\ UNCHANGED <<version, server, cancelled, clients, chan, open, socketVars,
                   casterVars, tabVars>>

\* writeSSEEvent: no deadline applies, so it waits for room in the socket; it
\* fails once the connection is broken.
WriteEvent(k) ==
    /\ pc[k] = "writing"
    /\ \/ /\ peer[k] # NoTab
          /\ wire[k] = None
          /\ wire' = [wire EXCEPT ![k] = out[k]]
          /\ pc' = [pc EXCEPT ![k] = "waiting"]
       \/ /\ peer[k] = NoTab
          /\ pc' = [pc EXCEPT ![k] = "leaving"]
          /\ UNCHANGED wire
    /\ out' = [out EXCEPT ![k] = None]
    /\ UNCHANGED <<version, server, cancelled, clients, chan, open, peer,
                   casterVars, tabVars>>

\* The select of the loop takes an event, ...
Receive(k) ==
    /\ pc[k] = "waiting"
    /\ chan[k] # None
    /\ out' = [out EXCEPT ![k] = [graph |-> chan[k], initial |-> FALSE]]
    /\ chan' = [chan EXCEPT ![k] = None]
    /\ pc' = [pc EXCEPT ![k] = "writing"]
    /\ UNCHANGED <<version, server, cancelled, clients, open, socketVars,
                   casterVars, tabVars>>

\* ... or sees the request's context end.
SeeDone(k) ==
    /\ pc[k] = "waiting"
    /\ cancelled \/ peer[k] = NoTab
    /\ pc' = [pc EXCEPT ![k] = "leaving"]
    /\ UNCHANGED <<version, server, cancelled, clients, chan, open, out,
                   socketVars, casterVars, tabVars>>

\* Mutant of Unregister: the channel is closed before it leaves the map.
CloseThenUnregister(k) ==
    /\ pc[k] = "leaving"
    /\ open' = open \ {k}
    /\ pc' = [pc EXCEPT ![k] = "closing"]
    /\ UNCHANGED <<version, server, cancelled, clients, chan, out, socketVars,
                   casterVars, tabVars>>

\* The deferred cleanup removes the channel under s.mu ...
Unregister(k) ==
    /\ pc[k] = "leaving"
    /\ clients' = clients \ {k}
    /\ pc' = [pc EXCEPT ![k] = "closing"]
    /\ UNCHANGED <<version, server, cancelled, chan, open, out, socketVars,
                   casterVars, tabVars>>

\* ... and closes it after the unlock.  The response ends; the dashboard may
\* still read what is in the socket.
CloseChannel(k) ==
    /\ pc[k] = "closing"
    /\ open' = open \ {k}
    /\ chan' = [chan EXCEPT ![k] = None]
    /\ pc' = [pc EXCEPT ![k] = "ended"]
    /\ UNCHANGED <<version, server, cancelled, clients, out, socketVars,
                   casterVars, tabVars>>
-----------------------------------------------------------------------------
(* The broadcaster.                                                        *)

\* A tick with clients: the graph is built outside the lock.
BuildNews ==
    /\ caster = "idle"
    /\ clients # {}
    /\ news' = version
    /\ caster' = "built"
    /\ UNCHANGED <<version, server, cancelled, handlerVars, socketVars, tabVars>>

\* Mutant of Broadcast: the send waits for room in every buffer.
BroadcastBlocking ==
    /\ caster = "built"
    /\ \A k \in clients : chan[k] = None
    /\ chan' = [k \in Conns |-> IF k \in clients THEN news ELSE chan[k]]
    /\ caster' = "idle"
    /\ news' = None
    /\ UNCHANGED <<version, server, cancelled, clients, pc, open, out,
                   socketVars, tabVars>>

\* A full buffer keeps the event it has.
Broadcast ==
    /\ caster = "built"
    /\ chan' = [k \in Conns |-> IF k \in clients /\ chan[k] = None
                                THEN news ELSE chan[k]]
    /\ caster' = "idle"
    /\ news' = None
    /\ UNCHANGED <<version, server, cancelled, clients, pc, open, out,
                   socketVars, tabVars>>

StopBroadcaster ==
    /\ caster = "idle"
    /\ cancelled
    /\ caster' = "stopped"
    /\ UNCHANGED <<version, server, cancelled, handlerVars, socketVars, news,
                   tabVars>>
-----------------------------------------------------------------------------
(* Start and runHTTPServer.                                                *)

\* ListenAndServe serves, or fails and Start returns its error.
Listen ==
    /\ server = "starting"
    /\ \/ server' = "serving" /\ UNCHANGED cancelled
       \/ server' = "returned" /\ cancelled' = TRUE
    /\ UNCHANGED <<version, handlerVars, socketVars, casterVars, tabVars>>

\* SIGTERM: the contexts of all requests derive from the process's and end with
\* it, and Start calls Shutdown, which stops listening.
Signal ==
    /\ server = "serving"
    /\ cancelled' = TRUE
    /\ server' = "draining"
    /\ UNCHANGED <<version, handlerVars, socketVars, casterVars, tabVars>>

\* Serve returns because Accept failed: the requests are cancelled and Start
\* returns the error; nothing is shut down or closed.
AcceptFails ==
    /\ server = "serving"
    /\ cancelled' = TRUE
    /\ server' = "returned"
    /\ UNCHANGED <<version, handlerVars, socketVars, casterVars, tabVars>>

Running(k) == pc[k] \notin {"free", "ended"}

\* Shutdown returns once no request is served.
Drained ==
    /\ server = "draining"
    /\ \A k \in Conns : ~Running(k)
    /\ server' = "returned"
    /\ UNCHANGED <<version, cancelled, handlerVars, socketVars, casterVars,
                   tabVars>>

\* Mutant of TimedOut: Start returns and leaves the connections as they are.
TimedOutWithoutClose ==
    /\ server = "draining"
    /\ \E k \in Conns : Running(k)
    /\ server' = "returned"
    /\ UNCHANGED <<version, cancelled, handlerVars, socketVars, casterVars,
                   tabVars>>

\* ShutdownTimeout passes first: Close breaks every connection.
TimedOut ==
    /\ server = "draining"
    /\ \E k \in Conns : Running(k)
    /\ server' = "returned"
    /\ peer' = [k \in Conns |-> NoTab]
    /\ wire' = [k \in Conns |-> None]
    /\ tab' = [t \in Tabs |-> IF \E k \in Conns : peer[k] = t
                              THEN "retrying" ELSE tab[t]]
    /\ UNCHANGED <<version, cancelled, handlerVars, casterVars, shown>>
-----------------------------------------------------------------------------
(* The dashboard: useSSE.                                                  *)

\* connect: the server accepts while it listens.  The handler makes a channel
\* with a buffer of one and registers it under s.mu.  The handler of an earlier
\* connection of the same dashboard may still be on its way out.
Connect(t, k) ==
    /\ tab[t] = "retrying"
    /\ server = "serving"
    /\ pc[k] = "free"
    /\ \A j \in 1..(k - 1) : pc[j] # "free"
    /\ peer' = [peer EXCEPT ![k] = t]
    /\ tab' = [tab EXCEPT ![t] = "streaming"]
    /\ clients' = clients \union {k}
    /\ open' = open \union {k}
    /\ pc' = [pc EXCEPT ![k] = "building"]
    /\ UNCHANGED <<version, server, cancelled, chan, out, wire, casterVars, shown>>

\* onmessage.
Show(t, k) ==
    /\ t \notin Stuck
    /\ peer[k] = t
    /\ wire[k] # None
    /\ shown' = [shown EXCEPT ![t] = wire[k]]
    /\ wire' = [wire EXCEPT ![k] = None]
    /\ UNCHANGED <<version, server, cancelled, handlerVars, peer, casterVars,
                   tab>>

\* Mutant of HangUp: onerror does not close the source.
HangUpKeepingSource(t, k) ==
    /\ peer[k] = t
    /\ tab' = [tab EXCEPT ![t] = "retrying"]
    /\ UNCHANGED <<version, server, cancelled, handlerVars, socketVars,
                   casterVars, shown>>

\* onerror, at either end of the connection, closes the source and starts the
\* timer that connects again; the cleanup of the effect closes it for good.
HangUp(t, k) ==
    /\ peer[k] = t
    /\ peer' = [peer EXCEPT ![k] = NoTab]
    /\ wire' = [wire EXCEPT ![k] = None]
    /\ tab' = [tab EXCEPT ![t] = "retrying"]
    /\ UNCHANGED <<version, server, cancelled, handlerVars, casterVars, shown>>

Handle(k) ==
    \/ BuildInitial(k) \/ WriteEvent(k) \/ Receive(k) \/ SeeDone(k)
    \/ Unregister(k) \/ CloseChannel(k)

Cast == BuildNews \/ Broadcast \/ StopBroadcaster

Serve == Listen \/ Drained \/ TimedOut

Browse(t) == \E k \in Conns : Connect(t, k) \/ Show(t, k) \/ HangUp(t, k)

StreamNext ==
    \/ \E k \in Conns : Handle(k)
    \/ Cast \/ Serve \/ Change
    \/ \E t \in Tabs : Browse(t)

\* Goroutines run, timers fire, and a dashboard that is not stuck reads what
\* it is sent.  A select with several ready cases picks at random, so a context that
\* has ended is seen in the end.  Nothing makes the cluster change, a connection
\* or Accept fail, or a signal come.
StreamFairness ==
    /\ \A k \in Conns : WF_streamVars(Handle(k)) /\ SF_streamVars(SeeDone(k))
    /\ WF_streamVars(BuildNews \/ Broadcast)
    /\ SF_streamVars(StopBroadcaster)
    /\ WF_streamVars(Serve)
    /\ \A t \in Tabs \ Stuck :
           WF_streamVars(\E k \in Conns : Show(t, k))
-----------------------------------------------------------------------------
(* Properties.                                                             *)

\* The broadcaster sends to the channels of the map only, and a send on a
\* closed channel would panic: handleStream closes none that is in the map.
NoSendOnClosedChannel == clients \subseteq open

\* What a dashboard shows goes back in time only from the graph built for its
\* connection to the first broadcast after it, which may have been built
\* before; reconnecting never does it.
ShownGoesBackOnlyOnce ==
    [][\A t \in Tabs :
          /\ shown[t] # None
          /\ shown'[t].graph < shown[t].graph
          => shown[t].initial /\ ~shown'[t].initial]_streamVars

\* The dashboard keeps its connection and the server runs.
Live(t) ==
    /\ ~cancelled
    /\ \E k \in Conns : peer[k] = t /\ Running(k)

\* A dashboard that reads is shown the latest graph in the end, however many
\* events its full buffer missed and whatever dashboards that do not read do.
ReadersCatchUp ==
    \A t \in Tabs \ Stuck :
        <>[]Live(t) => <>[](shown[t] # None /\ shown[t].graph = version)

\* After a signal Start returns and no handler, channel or registration is
\* left, even of a dashboard that stopped reading.
ShutdownEndsStreams ==
    server = "draining" ~> /\ server = "returned"
                           /\ clients = {} /\ open = {}
                           /\ \A k \in Conns : ~Running(k)
=============================================================================

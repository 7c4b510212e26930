---------------------------- MODULE WebSocketHub ----------------------------
(***************************************************************************)
(* The fan-out of events to dashboards (controller/api/websocket.go).  The *)
(* hub's goroutine takes registrations, deregistrations and events one at  *)
(* a time.  Register and unregister are rendezvous channels; the event     *)
(* channel and each client's send channel are bounded.  A client whose     *)
(* send channel is full loses its registration: the hub never waits for a  *)
(* client.  Each connection has a handler, which registers the client,     *)
(* sends it a welcome and starts a reader and a writer goroutine.          *)
(*                                                                         *)
(* The hub starts with the HTTP server, after the scheduler, so events may *)
(* have been published before it runs.                                     *)
(***************************************************************************)
EXTENDS Naturals, Sequences

CONSTANTS Clients,       \* wsClient values; one is used again once forgotten
          Publishers,    \* goroutines that call BroadcastEvent
          BroadcastCap,  \* capacity of hub.broadcast (256)
          SendCap,       \* capacity of a client's send channel (256)
          MaxChanges,    \* bound: changes of the tables, announced or not
          MaxBreaks      \* bound: connections broken from outside

ASSUME HubAssumptions ==
    /\ BroadcastCap \in Nat \ {0}
    /\ SendCap \in Nat \ {0}
    /\ MaxChanges \in Nat
    /\ MaxBreaks \in Nat

VARIABLES running,    \* has server.Start started the hub's goroutine?
          clients,    \* hub.clients
          broadcast,  \* hub.broadcast: numbers of events
          writes,     \* changes of the tables so far
          pending,    \* the number of the change a publisher has made and has
                      \* still to announce, 0 if none
          published,  \* events published so far; the next one's number less 1
          handler,    \* the next thing the connection's handler does
          conn,       \* the connection
          send,       \* the client's send channel
          closes,     \* how often that channel was closed
          reader,     \* readPump
          writer,     \* writePump
          breaks      \* counts towards MaxBreaks
hubVars == <<running, clients, broadcast>>
publisherVars == <<writes, pending, published>>
clientVars == <<handler, conn, send, closes, reader, writer>>

\* History: events the hub has taken, and for each client how many of them
\* before it was registered and what its peer has received.
VARIABLES handled, since, got
feedVars == <<handled, since, got>>

vars == <<hubVars, publisherVars, clientVars, breaks, feedVars>>

Welcome == 0
Event == 1..MaxChanges
Message == Event \cup {Welcome}

HubTypeOK ==
    /\ running \in BOOLEAN
    /\ clients \subseteq Clients
    /\ broadcast \in Seq(Event) /\ Len(broadcast) <= BroadcastCap
    /\ writes \in 0..MaxChanges /\ published \in 0..writes
    /\ pending \in [Publishers -> 0..writes]
    /\ handler \in [Clients -> {"none", "registering", "welcoming", "done",
                                "panicked"}]
    /\ conn \in [Clients -> {"none", "up", "broken", "closed"}]
    /\ send \in [Clients -> Seq(Message)]
    /\ \A c \in Clients : Len(send[c]) <= SendCap
    /\ closes \in [Clients -> Nat]
    /\ reader \in [Clients -> {"none", "reading", "unregistering", "done"}]
    /\ writer \in [Clients -> {"none", "writing", "done"}]
    /\ breaks \in 0..MaxBreaks
    /\ handled \in 0..published
    /\ since \in [Clients -> 0..MaxChanges]
    /\ got \in [Clients -> Seq(Message)]

\* No connection has been opened and no table changed.
NothingYet ==
    /\ clients = {}
    /\ broadcast = <<>>
    /\ writes = 0 /\ published = 0
    /\ pending = [p \in Publishers |-> 0]
    /\ handler = [c \in Clients |-> "none"]
    /\ conn = [c \in Clients |-> "none"]
    /\ send = [c \in Clients |-> <<>>]
    /\ closes = [c \in Clients |-> 0]
    /\ reader = [c \in Clients |-> "none"]
    /\ writer = [c \in Clients |-> "none"]
    /\ breaks = 0
    /\ handled = 0
    /\ since = [c \in Clients |-> 0]
    /\ got = [c \in Clients |-> <<>>]

HubInit == running = FALSE /\ NothingYet

-----------------------------------------------------------------------------
(* Publishers: a handler or the scheduler changes a table, then calls        *)
(* BroadcastEvent, which waits while the event channel is full.              *)

Change(p) ==
    /\ pending[p] = 0
    /\ writes < MaxChanges
    /\ writes' = writes + 1
    /\ pending' = [pending EXCEPT ![p] = writes']
    /\ UNCHANGED <<published, hubVars, clientVars, breaks, feedVars>>

\* Some changes have no event: a node reserved or given back, the marks of a
\* poll, a split or its failure.
ChangeQuietly ==
    /\ writes < MaxChanges
    /\ writes' = writes + 1
    /\ UNCHANGED <<pending, published, hubVars, clientVars, breaks, feedVars>>

BroadcastEvent(p) ==
    /\ pending[p] # 0
    /\ Len(broadcast) < BroadcastCap
    /\ broadcast' = Append(broadcast, published + 1)
    /\ published' = published + 1
    /\ pending' = [pending EXCEPT ![p] = 0]
    /\ UNCHANGED <<writes, running, clients, clientVars, breaks, feedVars>>

-----------------------------------------------------------------------------
(* The hub's goroutine: the three cases of Run's select. *)

\* Mutant: the hub is started by the first connection, once it is served.
StartMutant ==
    /\ ~running
    /\ \E c \in Clients : handler[c] = "done"
    /\ running' = TRUE
    /\ UNCHANGED <<clients, broadcast, publisherVars, clientVars, breaks,
                   feedVars>>

Start ==
    /\ ~running
    /\ running' = TRUE
    /\ UNCHANGED <<clients, broadcast, publisherVars, clientVars, breaks,
                   feedVars>>

HubRegister(c) ==
    /\ running
    /\ handler[c] = "registering"
    /\ clients' = clients \cup {c}
    /\ handler' = [handler EXCEPT ![c] = "welcoming"]
    /\ since' = [since EXCEPT ![c] = handled]
    /\ UNCHANGED <<running, broadcast, publisherVars, conn, send, closes,
                   reader, writer, breaks, handled, got>>

\* Mutant: the channel is closed without looking whether c is registered.
HubUnregisterMutant(c) ==
    /\ running
    /\ reader[c] = "unregistering"
    /\ clients' = clients \ {c}
    /\ closes' = [closes EXCEPT ![c] = @ + 1]
    /\ reader' = [reader EXCEPT ![c] = "done"]
    /\ conn' = [conn EXCEPT ![c] = "closed"]
    /\ UNCHANGED <<running, broadcast, publisherVars, handler, send, writer,
                   breaks, feedVars>>

\* The reader then closes the connection.
HubUnregister(c) ==
    /\ running
    /\ reader[c] = "unregistering"
    /\ clients' = clients \ {c}
    /\ closes' = [closes EXCEPT ![c] = IF c \in clients THEN @ + 1 ELSE @]
    /\ reader' = [reader EXCEPT ![c] = "done"]
    /\ conn' = [conn EXCEPT ![c] = "closed"]
    /\ UNCHANGED <<running, broadcast, publisherVars, handler, send, writer,
                   breaks, feedVars>>

\* The registered clients whose send channel has room.
Ready == {c \in clients : Len(send[c]) < SendCap}

\* Mutant: a client that is not ready misses the event and stays.
HubBroadcastSkipMutant ==
    /\ running
    /\ broadcast # <<>>
    /\ send' = [c \in Clients |-> IF c \in Ready
                                  THEN Append(send[c], Head(broadcast))
                                  ELSE send[c]]
    /\ broadcast' = Tail(broadcast)
    /\ handled' = handled + 1
    /\ UNCHANGED <<running, clients, publisherVars, handler, conn, closes,
                   reader, writer, breaks, since, got>>

\* Mutant: a client that is not ready is forgotten, its channel left open.
HubBroadcastForgetMutant ==
    /\ running
    /\ broadcast # <<>>
    /\ clients' = Ready
    /\ send' = [c \in Clients |-> IF c \in Ready
                                  THEN Append(send[c], Head(broadcast))
                                  ELSE send[c]]
    /\ broadcast' = Tail(broadcast)
    /\ handled' = handled + 1
    /\ UNCHANGED <<running, publisherVars, handler, conn, closes, reader,
                   writer, breaks, since, got>>

\* The loop over the clients is one step: what it does to one client does not
\* depend on the others.
HubBroadcast ==
    /\ running
    /\ broadcast # <<>>
    /\ clients' = Ready
    /\ send' = [c \in Clients |-> IF c \in Ready
                                  THEN Append(send[c], Head(broadcast))
                                  ELSE send[c]]
    /\ closes' = [c \in Clients |-> IF c \in clients \ Ready
                                    THEN closes[c] + 1 ELSE closes[c]]
    /\ broadcast' = Tail(broadcast)
    /\ handled' = handled + 1
    /\ UNCHANGED <<running, publisherVars, handler, conn, reader, writer,
                   breaks, since, got>>

Run == \/ \E c \in Clients : HubRegister(c) \/ HubUnregister(c)
       \/ HubBroadcast

-----------------------------------------------------------------------------
(* HandleWebSocket. *)

\* Nothing of the client's last use is left: its value may be used again.
Unused(c) == handler[c] = "none"

Upgrade(c) ==
    /\ Unused(c)
    /\ handler' = [handler EXCEPT ![c] = "registering"]
    /\ conn' = [conn EXCEPT ![c] = "up"]
    /\ UNCHANGED <<hubVars, publisherVars, send, closes, reader, writer,
                   breaks, feedVars>>

StartPumps(c) ==
    /\ handler' = [handler EXCEPT ![c] = "done"]
    /\ reader' = [reader EXCEPT ![c] = "reading"]
    /\ writer' = [writer EXCEPT ![c] = "writing"]

\* Mutant: the channel's capacity is not respected.
SendWelcomeMutant(c) ==
    /\ handler[c] = "welcoming"
    /\ closes[c] = 0
    /\ send' = [send EXCEPT ![c] = Append(@, Welcome)]
    /\ StartPumps(c)
    /\ UNCHANGED <<hubVars, publisherVars, conn, closes, breaks, feedVars>>

\* client.send <- welcome, with nobody receiving yet: waits while it is full.
SendWelcome(c) ==
    /\ handler[c] = "welcoming"
    /\ closes[c] = 0
    /\ Len(send[c]) < SendCap
    /\ send' = [send EXCEPT ![c] = Append(@, Welcome)]
    /\ StartPumps(c)
    /\ UNCHANGED <<hubVars, publisherVars, conn, closes, breaks, feedVars>>

\* A send on the channel the hub has closed panics; the router's Recoverer
\* ends the request, no pump is started and nobody closes the connection.
WelcomePanics(c) ==
    /\ handler[c] = "welcoming"
    /\ closes[c] > 0
    /\ handler' = [handler EXCEPT ![c] = "panicked"]
    /\ UNCHANGED <<hubVars, publisherVars, conn, send, closes, reader, writer,
                   breaks, feedVars>>

\* Nothing refers to such a connection: the runtime's finalizer closes it.
Finalize(c) ==
    /\ handler[c] = "panicked"
    /\ conn[c] # "closed"
    /\ conn' = [conn EXCEPT ![c] = "closed"]
    /\ UNCHANGED <<hubVars, publisherVars, handler, send, closes, reader,
                   writer, breaks, feedVars>>

-----------------------------------------------------------------------------
(* The pumps. *)

\* The peer goes away, or is silent for the 60 s of the read deadline.
Break(c) ==
    /\ conn[c] = "up"
    /\ breaks < MaxBreaks
    /\ breaks' = breaks + 1
    /\ conn' = [conn EXCEPT ![c] = "broken"]
    /\ UNCHANGED <<hubVars, publisherVars, handler, send, closes, reader,
                   writer, feedVars>>

ReadPump(c) ==
    /\ reader[c] = "reading"
    /\ conn[c] # "up"
    /\ reader' = [reader EXCEPT ![c] = "unregistering"]
    /\ UNCHANGED <<hubVars, publisherVars, handler, conn, send, closes, writer,
                   breaks, feedVars>>

\* What is written to a broken connection may be lost without an error.
WriteMessage(c) ==
    /\ writer[c] = "writing"
    /\ send[c] # <<>>
    /\ conn[c] # "closed"
    /\ send' = [send EXCEPT ![c] = Tail(@)]
    /\ got' = [got EXCEPT ![c] = IF conn[c] = "up"
                                 THEN Append(@, Head(send[c])) ELSE @]
    /\ UNCHANGED <<hubVars, publisherVars, handler, conn, closes, reader,
                   writer, breaks, handled, since>>

\* The channel is closed and drained, or a message or a ping fails.
WritePumpEnds(c) ==
    /\ writer[c] = "writing"
    /\ \/ closes[c] > 0 /\ send[c] = <<>>
       \/ conn[c] # "up"
    /\ writer' = [writer EXCEPT ![c] = "done"]
    /\ conn' = [conn EXCEPT ![c] = "closed"]
    /\ UNCHANGED <<hubVars, publisherVars, handler, send, closes, reader,
                   breaks, feedVars>>

\* Every goroutine of the connection has ended and the hub has forgotten the
\* client: its value is garbage.
Forget(c) ==
    /\ c \notin clients
    /\ conn[c] = "closed"
    /\ \/ handler[c] = "panicked"
       \/ reader[c] = "done" /\ writer[c] = "done"
    /\ handler' = [handler EXCEPT ![c] = "none"]
    /\ conn' = [conn EXCEPT ![c] = "none"]
    /\ send' = [send EXCEPT ![c] = <<>>]
    /\ closes' = [closes EXCEPT ![c] = 0]
    /\ reader' = [reader EXCEPT ![c] = "none"]
    /\ writer' = [writer EXCEPT ![c] = "none"]
    /\ since' = [since EXCEPT ![c] = 0]
    /\ got' = [got EXCEPT ![c] = <<>>]
    /\ UNCHANGED <<hubVars, publisherVars, breaks, handled>>

Connection(c) ==
    \/ SendWelcome(c) \/ WelcomePanics(c) \/ Finalize(c)
    \/ ReadPump(c) \/ WriteMessage(c) \/ WritePumpEnds(c)
    \/ Forget(c)

HubNext ==
    \/ \E p \in Publishers : Change(p) \/ BroadcastEvent(p)
    \/ ChangeQuietly
    \/ Start
    \/ Run
    \/ \E c \in Clients : Connection(c) \/ Break(c)

\* The goroutines keep running.
HubFairness ==
    /\ WF_vars(Start)
    /\ WF_vars(Run)
    /\ \A p \in Publishers : WF_vars(BroadcastEvent(p))
    /\ \A c \in Clients : WF_vars(Connection(c))

\* The hub with connections opened by anyone at any time.
HubSpec ==
    /\ HubInit /\ [][HubNext \/ \E c \in Clients : Upgrade(c)]_vars
    /\ HubFairness

-----------------------------------------------------------------------------
(* Properties. *)

\* A feed of the events after event e, in order and without a gap, in which
\* the welcome is, or will be, message number w.
FeedAfter(feed, e, w) ==
    \A k \in DOMAIN feed :
        feed[k] = IF k = w THEN Welcome ELSE e + (IF k < w THEN k ELSE k - 1)

\* A registered client has missed nothing: its peer's feed and its channel hold
\* the events since its registration, in order and without a gap, and among
\* them the welcome at most once; and a client that was dropped got an initial
\* part of that.
NoGapWhileRegistered ==
    \A c \in Clients :
        LET feed == got[c] \o send[c]
        IN  conn[c] = "up" =>
              \E w \in 1..Len(feed) + 1 :
                 /\ FeedAfter(feed, since[c], w)
                 /\ c \in clients =>
                       \/ w > Len(feed) /\ since[c] + Len(feed) = handled
                       \/ w <= Len(feed) /\ since[c] + Len(feed) = handled + 1

\* The hub never sends on, or closes again, a channel it has closed: registered
\* clients have open channels, through slow readers, failing writers and
\* deregistrations that come after the hub dropped the client.
ClosedOnce ==
    \A c \in Clients : closes[c] <= 1 /\ (c \in clients => closes[c] = 0)

\* However slow or stuck the clients, and even before the hub runs, whoever
\* publishes an event (the scheduler's loop among them) gets on with its work.
PublishersProceed == \A p \in Publishers : pending[p] # 0 ~> pending[p] = 0

\* A connection that broke, or whose client the hub dropped, is closed and
\* forgotten, so no client stays registered that nobody reads for.
LostClientsLeave ==
    \A c \in Clients :
        handler[c] = "done" /\ (conn[c] # "up" \/ c \notin clients)
            ~> conn[c] \in {"closed", "none"} /\ c \notin clients
=============================================================================

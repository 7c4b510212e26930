------------------------------ MODULE HubProofs ------------------------------
(***************************************************************************)
(* The channels of the hub and its clients and what goes through them, for *)
(* any number of clients, tabs and publishers and channels of any          *)
(* capacity.                                                               *)
(***************************************************************************)
EXTENDS Dashboard, FiniteSetTheorems, SequenceTheorems, TLAPS

Fresh(c) == handler[c] \in {"none", "registering"}

\* A client that is not yet registered has an open channel too: the hub has
\* neither kept it from an earlier use of its value nor closed its channel.
HubInv ==
    /\ clients \subseteq Clients
    /\ closes \in [Clients -> Nat]
    /\ DOMAIN handler = Clients
    /\ ClosedOnce
    /\ \A c \in Clients : Fresh(c) => c \notin clients /\ closes[c] = 0

LEMMA HubInvInit == Init => HubInv
  BY DEF Init, HubInit, NothingYet, HubInv, ClosedOnce

LEMMA RunInv == HubInv /\ Run => HubInv'
  <1> SUFFICES ASSUME HubInv, Run PROVE HubInv'
    OBVIOUS
  <1> USE DEF HubInv, ClosedOnce, Fresh
  <1>1. ASSUME NEW c \in Clients, HubRegister(c)
        PROVE  HubInv'
    BY <1>1 DEF HubRegister
  <1>2. ASSUME NEW c \in Clients, HubUnregister(c)
        PROVE  HubInv'
    BY <1>2 DEF HubUnregister
  <1>3. CASE HubBroadcast
    BY <1>3 DEF HubBroadcast, Ready
  <1> QED
    BY <1>1, <1>2, <1>3 DEF Run

\* The steps of a connection's own goroutines close no channel; only Forget
\* makes a client fresh, and it resets the channel.
LEMMA ConnectionInv ==
    ASSUME HubInv, NEW c \in Clients, Connection(c) \/ Break(c) \/ Upgrade(c)
    PROVE  HubInv'
  <1> USE DEF HubInv, ClosedOnce, Fresh, hubVars
  <1>1. CASE Forget(c)
    BY <1>1 DEF Forget
  <1>2. CASE Upgrade(c)
    BY <1>2 DEF Upgrade, Unused
  <1>3. CASE SendWelcome(c)
    BY <1>3 DEF SendWelcome, StartPumps
  <1>4. CASE WelcomePanics(c)
    BY <1>4 DEF WelcomePanics
  <1>5. CASE UNCHANGED <<clients, closes, handler>>
    BY <1>5
  <1> QED
    BY <1>1, <1>2, <1>3, <1>4, <1>5
    DEF Connection, Break, Finalize, ReadPump, WriteMessage, WritePumpEnds

LEMMA HubInvStep == HubInv /\ [Next]_allVars => HubInv'
  <1> SUFFICES ASSUME HubInv, [Next]_allVars PROVE HubInv'
    OBVIOUS
  <1>1. CASE UNCHANGED <<clients, closes, handler>>
    BY <1>1 DEF HubInv, ClosedOnce, Fresh
  <1>2. CASE HubNext
    BY <1>1, <1>2, RunInv, ConnectionInv
    DEF HubNext, Change, ChangeQuietly, BroadcastEvent, Start, hubVars,
        clientVars
  <1>3. ASSUME NEW b \in Tabs, NEW c \in Clients, ConnectWS(b, c)
        PROVE  HubInv'
    BY <1>3, ConnectionInv DEF ConnectWS
  <1>4. ASSUME NEW b \in Tabs, TabNext(b)
        PROVE  HubInv'
    BY <1>1, <1>4
    DEF TabNext, Open, OnMessage, OnClose, ClusterStatus, FetchStatus,
        FetchFails, vars, hubVars, clientVars
  <1>5. CASE UNCHANGED allVars
    BY <1>1, <1>5 DEF allVars, vars, hubVars, clientVars
  <1> QED
    BY <1>2, <1>3, <1>4, <1>5 DEF Next, Server

\* Slow clients are dropped by the hub while their reader asks for the same and
\* their handler still has to send the welcome: no channel is closed twice, and
\* none the hub has closed gets another event.
THEOREM ClosedOnceHolds == FairSpec => []ClosedOnce
  <1>1. HubInv => ClosedOnce
    BY DEF HubInv
  <1> QED
    BY <1>1, HubInvInit, HubInvStep, PTL DEF FairSpec

-----------------------------------------------------------------------------
(* The domains of the variables. *)

\* The publishers between their change and its event.
Waiting == {p \in Publishers : pending[p] # 0}

\* Every event has its change, and so has every publisher about to announce one.
\* What was published and not handled is in the hub's channel, in order.
CountInv ==
    /\ IsFiniteSet(Waiting)
    /\ published + Cardinality(Waiting) <= writes
    /\ handled + Len(broadcast) = published
    /\ \A k \in 1..Len(broadcast) : broadcast[k] = handled + k

HubTypeInv == HubTypeOK /\ CountInv

LEMMA PublisherTypes ==
    ASSUME HubTypeInv, NEW p \in Publishers, Change(p) \/ BroadcastEvent(p)
    PROVE  HubTypeInv'
  <1>0. /\ pending \in [Publishers -> 0..writes]
        /\ IsFiniteSet(Waiting) /\ Cardinality(Waiting) \in Nat
    BY FS_CardinalityType DEF HubTypeInv, HubTypeOK, CountInv
  <1>1. CASE Change(p)
    <2>1. Waiting' = Waiting \cup {p} /\ p \notin Waiting
      BY <1>0, <1>1, HubAssumptions DEF Change, Waiting, HubTypeInv, HubTypeOK
    <2>2. /\ IsFiniteSet(Waiting')
          /\ Cardinality(Waiting') = Cardinality(Waiting) + 1
      BY <1>0, <2>1, FS_AddElement
    <2>3. /\ writes' \in 0..MaxChanges /\ published \in 0..writes'
          /\ pending' \in [Publishers -> 0..writes']
      BY <1>0, <1>1, HubAssumptions DEF Change, HubTypeInv, HubTypeOK
    <2>4. published + Cardinality(Waiting') <= writes'
      BY <1>0, <1>1, <2>2, HubAssumptions
      DEF Change, HubTypeInv, HubTypeOK, CountInv
    <2> QED
      BY <1>1, <2>2, <2>3, <2>4
      DEF Change, HubTypeInv, HubTypeOK, CountInv, hubVars, clientVars, feedVars
  <1>2. CASE BroadcastEvent(p)
    <2>0. Waiting' = Waiting \ {p} /\ p \in Waiting
      BY <1>0, <1>2 DEF BroadcastEvent, Waiting
    <2>1. /\ IsFiniteSet(Waiting')
          /\ Cardinality(Waiting') = Cardinality(Waiting) - 1
      BY <1>0, <2>0, FS_RemoveElement
    <2>2. Cardinality(Waiting) \in Nat /\ Cardinality(Waiting') \in Nat
      BY <1>0, <2>1, FS_CardinalityType
    <2>3. published' \in 0..writes /\ published + 1 \in Event
      BY <1>2, <2>1, <2>2, HubAssumptions
      DEF BroadcastEvent, HubTypeInv, HubTypeOK, CountInv, Event
    <2>4. /\ broadcast' \in Seq(Event)
          /\ Len(broadcast') = Len(broadcast) + 1
          /\ Len(broadcast') <= BroadcastCap
      BY <1>2, <2>3, HubAssumptions DEF BroadcastEvent, HubTypeInv, HubTypeOK
    <2>5. \A k \in 1..Len(broadcast') : broadcast'[k] = handled + k
      <3>1. /\ broadcast \in Seq(Event)
            /\ broadcast' = Append(broadcast, published + 1)
            /\ handled + Len(broadcast) = published
            /\ \A k \in 1..Len(broadcast) : broadcast[k] = handled + k
        BY <1>2 DEF BroadcastEvent, HubTypeInv, HubTypeOK, CountInv
      <3>2. handled \in Nat
        BY HubAssumptions DEF HubTypeInv, HubTypeOK
      <3>3. ASSUME NEW k \in 1..Len(broadcast')
            PROVE  broadcast'[k] = handled + k
        <4>1. CASE k = Len(broadcast) + 1
          BY <2>3, <2>4, <3>1, <3>2, <4>1
        <4>2. CASE k \in 1..Len(broadcast)
          BY <2>3, <3>1, <4>2
        <4> QED
          BY <2>4, <3>1, <4>1, <4>2
      <3> QED
        BY <3>3
    <2>6. HubTypeOK'
      <3>1. pending' \in [Publishers -> 0..writes']
        BY <1>0, <1>2, HubAssumptions DEF BroadcastEvent, HubTypeInv, HubTypeOK
      <3> QED
        BY <1>2, <2>3, <2>4, <3>1
        DEF BroadcastEvent, HubTypeInv, HubTypeOK, clientVars, feedVars
    <2>7. CountInv'
      <3>1. /\ UNCHANGED <<writes, handled>>
            /\ published' = published + 1
            /\ published \in Nat /\ handled \in Nat /\ writes \in Nat
            /\ Len(broadcast) \in Nat
        BY <1>2, HubAssumptions
        DEF BroadcastEvent, HubTypeInv, HubTypeOK, feedVars
      <3> QED
        BY <2>1, <2>2, <2>4, <2>5, <3>1 DEF HubTypeInv, CountInv
    <2> QED
      BY <2>6, <2>7 DEF HubTypeInv
  <1> QED
    BY <1>1, <1>2

LEMMA QuietTypes ==
    ASSUME HubTypeInv, ChangeQuietly
    PROVE  HubTypeInv'
  <1>1. /\ writes' \in 0..MaxChanges /\ published \in 0..writes'
        /\ pending' \in [Publishers -> 0..writes']
    BY HubAssumptions DEF ChangeQuietly, HubTypeInv, HubTypeOK
  <1>2. Waiting' = Waiting
    BY DEF ChangeQuietly, Waiting
  <1>3. IsFiniteSet(Waiting) /\ Cardinality(Waiting) \in Nat
    BY FS_CardinalityType DEF HubTypeInv, CountInv
  <1>4. published + Cardinality(Waiting') <= writes'
    BY <1>2, <1>3, HubAssumptions
    DEF ChangeQuietly, HubTypeInv, HubTypeOK, CountInv
  <1> QED
    BY <1>1, <1>2, <1>3, <1>4
    DEF ChangeQuietly, HubTypeInv, HubTypeOK, CountInv, hubVars, clientVars,
        feedVars

LEMMA BroadcastTypes ==
    ASSUME HubTypeInv, HubInv, HubBroadcast
    PROVE  HubTypeInv'
  <1>1. /\ broadcast \in Seq(Event) /\ broadcast # <<>>
        /\ Head(broadcast) \in Message
        /\ handled \in Nat /\ published \in Nat
    BY HubAssumptions
    DEF HubTypeInv, HubTypeOK, HubBroadcast, Message, Event
  <1>2. /\ broadcast' = Tail(broadcast)
        /\ broadcast' \in Seq(Event)
        /\ Len(broadcast') = Len(broadcast) - 1
        /\ \A k \in 1..Len(broadcast') : broadcast'[k] = broadcast[k + 1]
    BY <1>1 DEF HubBroadcast
  <1>3. CountInv'
    <2>1. /\ UNCHANGED <<pending, published, writes, Waiting>>
          /\ handled' = handled + 1
      BY DEF HubBroadcast, publisherVars, Waiting
    <2>2. Len(broadcast) \in Nat
      BY <1>1
    <2>3. \A k \in 1..Len(broadcast') : broadcast'[k] = handled' + k
      BY <1>1, <1>2, <2>1, <2>2 DEF HubTypeInv, CountInv
    <2> QED
      BY <1>1, <1>2, <2>1, <2>2, <2>3 DEF HubTypeInv, CountInv
  <1>4. ASSUME NEW c \in Clients
        PROVE  send'[c] \in Seq(Message) /\ Len(send'[c]) <= SendCap
    <2>1. send[c] \in Seq(Message) /\ Len(send[c]) <= SendCap
      BY DEF HubTypeInv, HubTypeOK
    <2>2. CASE c \in Ready
      <3>1. send'[c] = Append(send[c], Head(broadcast))
        BY <2>2 DEF HubBroadcast
      <3>2. Len(send[c]) < SendCap
        BY <2>2 DEF Ready
      <3> QED
        BY <1>1, <2>1, <3>1, <3>2, HubAssumptions
    <2>3. CASE c \notin Ready
      BY <2>1, <2>3 DEF HubBroadcast
    <2> QED
      BY <2>2, <2>3
  <1>5. send' \in [Clients -> Seq(Message)] /\ clients' \subseteq Clients
    BY <1>4 DEF HubBroadcast, HubTypeInv, HubTypeOK, Ready
  <1>6. closes' \in [Clients -> Nat]
    BY DEF HubBroadcast, HubTypeInv, HubTypeOK
  <1>7. handled' \in 0..published' /\ Len(broadcast') <= BroadcastCap
    BY <1>1, <1>2, HubAssumptions
    DEF HubBroadcast, HubTypeInv, HubTypeOK, CountInv, publisherVars
  <1> QED
    BY <1>2, <1>3, <1>4, <1>5, <1>6, <1>7
    DEF HubBroadcast, HubTypeInv, HubTypeOK, publisherVars

LEMMA RunTypes ==
    ASSUME HubTypeInv, HubInv, Run
    PROVE  HubTypeInv'
  <1> USE DEF HubTypeInv, HubTypeOK, CountInv, Waiting
  <1>1. ASSUME NEW c \in Clients, HubRegister(c)
        PROVE  HubTypeInv'
    <2>1. handled \in 0..MaxChanges
      BY HubAssumptions
    <2> QED
      BY <1>1, <2>1 DEF HubRegister, publisherVars
  <1>2. ASSUME NEW c \in Clients, HubUnregister(c)
        PROVE  HubTypeInv'
    <2>1. clients' \subseteq Clients /\ closes' \in [Clients -> Nat]
      BY <1>2 DEF HubUnregister
    <2>2. /\ reader' \in [Clients -> {"none", "reading", "unregistering", "done"}]
          /\ conn' \in [Clients -> {"none", "up", "broken", "closed"}]
      BY <1>2 DEF HubUnregister
    <2> QED
      BY <1>2, <2>1, <2>2 DEF HubUnregister, publisherVars, feedVars
  <1> QED
    BY <1>1, <1>2, BroadcastTypes DEF Run

\* The types of what the steps of one connection change.
PlacesOK ==
    /\ handler \in [Clients -> {"none", "registering", "welcoming", "done",
                                "panicked"}]
    /\ conn \in [Clients -> {"none", "up", "broken", "closed"}]
    /\ reader \in [Clients -> {"none", "reading", "unregistering", "done"}]
    /\ writer \in [Clients -> {"none", "writing", "done"}]

CountersOK ==
    /\ closes \in [Clients -> Nat]
    /\ breaks \in 0..MaxBreaks
    /\ since \in [Clients -> 0..MaxChanges]

ChannelsOK ==
    /\ send \in [Clients -> Seq(Message)]
    /\ \A c \in Clients : Len(send[c]) <= SendCap
    /\ got \in [Clients -> Seq(Message)]

LEMMA ClientTypesSuffice ==
    ASSUME HubTypeInv, PlacesOK', CountersOK', ChannelsOK',
           UNCHANGED <<hubVars, publisherVars, handled>>
    PROVE  HubTypeInv'
  <1>1. HubTypeOK'
    BY DEF HubTypeInv, HubTypeOK, PlacesOK, CountersOK, ChannelsOK, hubVars,
           publisherVars
  <1>2. CountInv'
    BY DEF HubTypeInv, CountInv, Waiting, hubVars, publisherVars
  <1> QED
    BY <1>1, <1>2 DEF HubTypeInv

\* One channel gets other content.
LEMMA ChannelTypes ==
    ASSUME ChannelsOK, NEW c \in Clients, NEW s \in Seq(Message),
           Len(s) <= SendCap, send' = [send EXCEPT ![c] = s],
           got' \in [Clients -> Seq(Message)]
    PROVE  ChannelsOK'
  BY DEF ChannelsOK

\* The peer of a connection gets, or loses, the first message of its channel.
LEMMA WriteChannels ==
    ASSUME ChannelsOK, NEW c \in Clients, WriteMessage(c)
    PROVE  ChannelsOK'
  <1>1. /\ send[c] \in Seq(Message) /\ send[c] # <<>>
        /\ got[c] \in Seq(Message)
        /\ Len(send[c]) <= SendCap
    BY DEF WriteMessage, ChannelsOK
  <1>2. /\ Head(send[c]) \in Message
        /\ Tail(send[c]) \in Seq(Message)
        /\ Len(Tail(send[c])) = Len(send[c]) - 1
        /\ Len(send[c]) \in Nat
    BY <1>1
  <1>3. Len(Tail(send[c])) <= SendCap
    BY <1>1, <1>2, HubAssumptions
  <1>4. Append(got[c], Head(send[c])) \in Seq(Message)
    BY <1>1, <1>2
  <1>5. got' \in [Clients -> Seq(Message)]
    BY <1>4 DEF WriteMessage, ChannelsOK
  <1>6. send' = [send EXCEPT ![c] = Tail(send[c])]
    BY DEF WriteMessage
  <1> QED
    BY <1>2, <1>3, <1>5, <1>6, ChannelTypes

LEMMA WelcomeChannels ==
    ASSUME ChannelsOK, NEW c \in Clients, SendWelcome(c)
    PROVE  ChannelsOK'
  <1>1. send[c] \in Seq(Message) /\ Welcome \in Message
    BY DEF ChannelsOK, Message
  <1>2. /\ Append(send[c], Welcome) \in Seq(Message)
        /\ Len(Append(send[c], Welcome)) = Len(send[c]) + 1
        /\ Len(send[c]) \in Nat
    BY <1>1
  <1>3. Len(Append(send[c], Welcome)) <= SendCap
    BY <1>2, HubAssumptions DEF SendWelcome
  <1>4. /\ send' = [send EXCEPT ![c] = Append(send[c], Welcome)]
        /\ got' \in [Clients -> Seq(Message)]
    BY DEF SendWelcome, ChannelsOK, feedVars
  <1> QED
    BY <1>2, <1>3, <1>4, ChannelTypes

LEMMA ForgetChannels ==
    ASSUME ChannelsOK, NEW c \in Clients, Forget(c)
    PROVE  ChannelsOK'
  <1>1. <<>> \in Seq(Message) /\ Len(<<>>) <= SendCap
    BY HubAssumptions
  <1>2. /\ send' = [send EXCEPT ![c] = <<>>]
        /\ got' \in [Clients -> Seq(Message)]
    BY <1>1 DEF Forget, ChannelsOK
  <1> QED
    BY <1>1, <1>2, ChannelTypes

LEMMA ConnectionTypes ==
    ASSUME HubTypeInv, NEW c \in Clients,
           Connection(c) \/ Break(c) \/ Upgrade(c)
    PROVE  HubTypeInv'
  <1> USE DEF hubVars, publisherVars, feedVars
  <1>1. PlacesOK /\ CountersOK /\ ChannelsOK
    BY DEF HubTypeInv, HubTypeOK, PlacesOK, CountersOK, ChannelsOK
  <1>2. /\ UNCHANGED <<hubVars, publisherVars, handled>>
        /\ \/ SendWelcome(c) \/ WriteMessage(c) \/ Forget(c)
           \/ UNCHANGED <<send, got>>
    BY DEF Connection, Break, Upgrade, SendWelcome, WelcomePanics, Finalize,
           ReadPump, WriteMessage, WritePumpEnds, Forget
  <1>3. ChannelsOK'
    <2>1. CASE UNCHANGED <<send, got>>
      BY <1>1, <2>1 DEF ChannelsOK
    <2> QED
      BY <1>1, <1>2, <2>1, WriteChannels, WelcomeChannels, ForgetChannels
  <1>4. PlacesOK'
    <2>1. CASE Upgrade(c) \/ SendWelcome(c)
      BY <1>1, <2>1 DEF Upgrade, SendWelcome, StartPumps, PlacesOK
    <2>2. CASE WelcomePanics(c) \/ Finalize(c) \/ ReadPump(c)
      BY <1>1, <2>2 DEF WelcomePanics, Finalize, ReadPump, PlacesOK
    <2>3. CASE WriteMessage(c) \/ WritePumpEnds(c)
      BY <1>1, <2>3 DEF WriteMessage, WritePumpEnds, PlacesOK
    <2>4. CASE Forget(c)
      BY <1>1, <2>4 DEF Forget, PlacesOK
    <2>5. CASE Break(c)
      BY <1>1, <2>5 DEF Break, PlacesOK
    <2> QED
      BY <2>1, <2>2, <2>3, <2>4, <2>5 DEF Connection
  <1>5. CountersOK'
    <2>1. CASE Forget(c)
      BY <1>1, <2>1, HubAssumptions DEF Forget, CountersOK
    <2>2. CASE Break(c)
      BY <1>1, <2>2, HubAssumptions DEF Break, CountersOK
    <2>3. CASE UNCHANGED <<closes, breaks, since>>
      BY <1>1, <2>3 DEF CountersOK
    <2> QED
      BY <2>1, <2>2, <2>3
      DEF Connection, Upgrade, SendWelcome, WelcomePanics, Finalize, ReadPump,
          WriteMessage, WritePumpEnds
  <1> QED
    BY <1>2, <1>3, <1>4, <1>5, ClientTypesSuffice

LEMMA HubTypeStep ==
    ASSUME HubTypeInv, HubInv,
           \/ HubNext \/ UNCHANGED vars
           \/ \E c \in Clients : Upgrade(c)
    PROVE  HubTypeInv'
  <1>1. CASE Start \/ UNCHANGED vars
    BY <1>1
    DEF Start, vars, HubTypeInv, HubTypeOK, CountInv, hubVars, publisherVars,
        clientVars, feedVars, Waiting
  <1> QED
    BY <1>1, PublisherTypes, QuietTypes, RunTypes, ConnectionTypes DEF HubNext

\* A tab's fetches f, of which the l oldest will end late.
FetchesOK(f, l) ==
    /\ f \in Seq(Shown \cup {Unread}) /\ Len(f) <= MaxFetches
    /\ l \in Nat /\ l <= Len(f)

LEMMA OneFewer ==
    ASSUME NEW f, NEW l, FetchesOK(f, l), NEW i \in DOMAIN f
    PROVE  FetchesOK(RemoveAt(f, i), IF i <= l THEN l - 1 ELSE i - 1)
  <1> DEFINE n == Len(f)
             t == Shown \cup {Unread}
  <1>1. /\ f \in Seq(t) /\ n \in Nat /\ n <= MaxFetches /\ i \in 1..n
        /\ l \in Nat /\ l <= n
    BY DEF FetchesOK
  <1> HIDE DEF t
  <1>2. /\ SubSeq(f, 1, i - 1) \in Seq(t) /\ Len(SubSeq(f, 1, i - 1)) = i - 1
        /\ SubSeq(f, i + 1, n) \in Seq(t) /\ Len(SubSeq(f, i + 1, n)) = n - i
    <2>1. \A j \in 1..n : f[j] \in t
      BY <1>1
    <2> QED
      BY <1>1, <2>1, SubSeqProperties
  <1>3. RemoveAt(f, i) \in Seq(t) /\ Len(RemoveAt(f, i)) = n - 1
    <2> DEFINE a == SubSeq(f, 1, i - 1)
               d == SubSeq(f, i + 1, n)
    <2>1. a \in Seq(t) /\ d \in Seq(t) /\ Len(a) = i - 1 /\ Len(d) = n - i
      BY <1>2
    <2>2. RemoveAt(f, i) = a \o d
      BY DEF RemoveAt
    <2> HIDE DEF a, d, n
    <2>3. a \o d \in Seq(t) /\ Len(a \o d) = Len(a) + Len(d)
      BY <2>1, ConcatProperties
    <2> QED
      BY <1>1, <2>1, <2>2, <2>3
  <1> QED
    BY <1>1, <1>3, TabAssumptions DEF FetchesOK, t

TabFetches(f, l) ==
    /\ f \in [Tabs -> Seq(Shown \cup {Unread})]
    /\ l \in [Tabs -> Nat]
    /\ \A b \in Tabs : Len(f[b]) <= MaxFetches /\ l[b] <= Len(f[b])

LEMMA OneTab ==
    ASSUME NEW f, NEW l, TabFetches(f, l), NEW b \in Tabs, NEW g, NEW k,
           FetchesOK(g, k)
    PROVE  /\ TabFetches([f EXCEPT ![b] = g], [l EXCEPT ![b] = k])
           /\ l = [l EXCEPT ![b] = l[b]]
           /\ FetchesOK(f[b], l[b])
  BY DEF TabFetches, FetchesOK

\* The rest of the tabs' variables.
TabPlacesOK ==
    /\ socket \in [Tabs -> Clients \cup {NotOpen, NoClient}]
    /\ heard \in [Tabs -> Nat]
    /\ seen \in [Tabs -> Shown]
    /\ shown \in [Tabs -> {"newest", "failed", "older"}]

LEMMA TabTypes ==
    ASSUME HubTypeOK, TabTypeOK, [Next]_allVars
    PROVE  TabTypeOK'
  <1>1. CASE Server \/ UNCHANGED allVars
    BY <1>1 DEF TabTypeOK, Server, allVars, tabVars, fetchVars
  <1>2. TabFetches(fetches, late) /\ TabPlacesOK
    BY DEF TabTypeOK, TabFetches, TabPlacesOK
  <1>3. ASSUME TabFetches(fetches', late'), TabPlacesOK'
        PROVE  TabTypeOK'
    BY <1>3 DEF TabTypeOK, TabFetches, TabPlacesOK
  <1>4. ASSUME NEW b \in Tabs, TabNext(b)
        PROVE  TabTypeOK'
    <2>1. /\ FetchesOK(fetches[b], late[b])
          /\ late = [late EXCEPT ![b] = late[b]]
      BY <1>2 DEF TabFetches, FetchesOK
    <2>2. ASSUME Fetch(b), UNCHANGED late
          PROVE  TabFetches(fetches', late')
      <3>1. FetchesOK(Append(fetches[b], Unread), late[b])
        <4>1. /\ fetches[b] \in Seq(Shown \cup {Unread})
              /\ Len(fetches[b]) < MaxFetches
              /\ late[b] \in Nat /\ late[b] <= Len(fetches[b])
          BY <2>1, <2>2 DEF Fetch, FetchesOK
        <4>2. /\ Append(fetches[b], Unread) \in Seq(Shown \cup {Unread})
              /\ Len(Append(fetches[b], Unread)) = Len(fetches[b]) + 1
          BY <4>1, AppendProperties
        <4> QED
          BY <4>1, <4>2, TabAssumptions DEF FetchesOK
      <3>2. /\ fetches' = [fetches EXCEPT ![b] = Append(fetches[b], Unread)]
            /\ late' = [late EXCEPT ![b] = late[b]]
        BY <2>1, <2>2 DEF Fetch
      <3> QED
        BY <1>2, <3>1, <3>2, OneTab
    <2>8. CASE Open(b)
      <3>1. TabPlacesOK'
        BY <1>2, <2>8 DEF Open, TabPlacesOK
      <3> QED
        BY <1>3, <2>2, <2>8, <3>1 DEF Open
    <2>9. CASE OnMessage(b)
      <3>1. TabPlacesOK'
        BY <1>2, <2>9 DEF OnMessage, TabPlacesOK
      <3> QED
        BY <1>3, <2>2, <2>9, <3>1 DEF OnMessage
    <2>3. CASE OnClose(b)
      BY <2>3 DEF TabTypeOK, OnClose, fetchVars
    <2>4. ASSUME NEW i \in 1..MaxFetches, ClusterStatus(b, i)
          PROVE  TabTypeOK'
      <3>1. writes \in Shown
        BY DEF HubTypeOK, Shown
      <3>2. FetchesOK([fetches[b] EXCEPT ![i] = writes], late[b])
        <4> DEFINE t == Shown \cup {Unread}
        <4>1. fetches[b] \in Seq(t) /\ writes \in t /\ i \in DOMAIN fetches[b]
          BY <2>1, <2>4, <3>1 DEF FetchesOK, ClusterStatus
        <4> HIDE DEF t
        <4>2. /\ [fetches[b] EXCEPT ![i] = writes] \in Seq(t)
              /\ Len([fetches[b] EXCEPT ![i] = writes]) = Len(fetches[b])
          BY <4>1
        <4> QED
          BY <2>1, <4>2 DEF FetchesOK, t
      <3>3. TabFetches(fetches', late')
        <4>1. /\ fetches' = [fetches EXCEPT
                                ![b] = [fetches[b] EXCEPT ![i] = writes]]
              /\ late' = [late EXCEPT ![b] = late[b]]
          BY <2>1, <2>4 DEF ClusterStatus
        <4> QED
          BY <1>2, <3>2, <4>1, OneTab
      <3>4. TabPlacesOK'
        BY <1>2, <2>4 DEF ClusterStatus, TabPlacesOK
      <3> QED
        BY <1>3, <3>3, <3>4
    <2>5. ASSUME NEW i \in 1..MaxFetches, i \in DOMAIN fetches[b], FetchEnded(b, i)
          PROVE  TabFetches(fetches', late')
      <3>1. FetchesOK(RemoveAt(fetches[b], i),
                      IF i <= late[b] THEN late[b] - 1 ELSE i - 1)
        BY <2>1, <2>5, OneFewer
      <3>2. /\ fetches' = [fetches EXCEPT ![b] = RemoveAt(fetches[b], i)]
            /\ late' = [late EXCEPT
                          ![b] = IF i <= late[b] THEN late[b] - 1 ELSE i - 1]
        BY <2>5 DEF FetchEnded
      <3> QED
        BY <1>2, <3>1, <3>2, OneTab
    <2>6. ASSUME NEW i \in 1..MaxFetches, FetchStatus(b, i)
          PROVE  TabTypeOK'
      <3>1. fetches[b][i] \in Shown
        BY <2>1, <2>6 DEF FetchStatus, FetchesOK
      <3>2. TabPlacesOK'
        BY <1>2, <2>6, <3>1 DEF FetchStatus, TabPlacesOK
      <3> QED
        BY <1>3, <2>5, <2>6, <3>2 DEF FetchStatus
    <2>7. ASSUME NEW i \in 1..MaxFetches, FetchFails(b, i)
          PROVE  TabTypeOK'
      <3>1. TabPlacesOK'
        BY <1>2, <2>7 DEF FetchFails, TabPlacesOK
      <3> QED
        BY <1>3, <2>5, <2>7, <3>1 DEF FetchFails
    <2> QED
      BY <1>4, <2>3, <2>4, <2>6, <2>7, <2>8, <2>9 DEF TabNext
  <1>5. ASSUME NEW b \in Tabs, NEW c \in Clients, ConnectWS(b, c)
        PROVE  TabTypeOK'
    BY <1>5 DEF TabTypeOK, ConnectWS, fetchVars
  <1> QED
    BY <1>1, <1>4, <1>5 DEF Next

LEMMA HubStepKinds ==
    ASSUME [Next]_allVars
    PROVE  HubNext \/ UNCHANGED vars \/ \E c \in Clients : Upgrade(c)
  BY DEF Next, Server, TabNext, Open, OnMessage, OnClose, ClusterStatus,
      FetchStatus, FetchFails, ConnectWS, allVars

LEMMA HubTypeInvariant == FairSpec => [](HubTypeInv /\ HubInv /\ TabTypeOK)
  <1>1. Init => HubTypeInv /\ TabTypeOK
    <2> SUFFICES ASSUME Init PROVE HubTypeInv /\ TabTypeOK
      OBVIOUS
    <2>1. <<>> \in Seq(Event) /\ <<>> \in Seq(Message) /\ Len(<<>>) = 0
      OBVIOUS
    <2>2. 0 \in 0..MaxChanges /\ 0 \in 0..MaxBreaks /\ 0 \in 0..0
      BY HubAssumptions
    <2>3. HubTypeOK
      <3>1. \A c \in Clients : send[c] = <<>>
        BY DEF Init, HubInit, NothingYet
      <3>2. /\ send \in [Clients -> Seq(Message)]
            /\ got \in [Clients -> Seq(Message)]
            /\ since \in [Clients -> 0..MaxChanges]
            /\ closes \in [Clients -> Nat]
        BY <2>1, <2>2 DEF Init, HubInit, NothingYet
      <3>3. /\ handler \in [Clients -> {"none"}]
            /\ conn \in [Clients -> {"none"}]
            /\ reader \in [Clients -> {"none"}]
            /\ writer \in [Clients -> {"none"}]
        BY DEF Init, HubInit, NothingYet
      <3>4. /\ \A c \in Clients : Len(send[c]) <= SendCap
            /\ Len(broadcast) <= BroadcastCap
        BY <2>1, <3>1, HubAssumptions DEF Init, HubInit, NothingYet
      <3>5. /\ running \in BOOLEAN /\ clients \subseteq Clients
            /\ broadcast \in Seq(Event) /\ pending \in [Publishers -> 0..writes]
            /\ writes \in 0..MaxChanges /\ published \in 0..writes
            /\ breaks \in 0..MaxBreaks /\ handled \in 0..published
        BY <2>1, <2>2 DEF Init, HubInit, NothingYet
      <3> QED
        BY <3>2, <3>3, <3>4, <3>5 DEF HubTypeOK
    <2>4. CountInv
      <3>1. Waiting = {}
        BY DEF Init, HubInit, NothingYet, Waiting
      <3> QED
        BY <3>1, FS_EmptySet DEF Init, HubInit, NothingYet, CountInv
    <2>5. TabTypeOK
      <3>1. /\ << >> \in Seq(Shown \cup {Unread}) /\ Len(<< >>) = 0
            /\ \A b \in Tabs : fetches[b] = << >> /\ late[b] = 0
        BY DEF Init, TabInit
      <3> QED
        BY <2>2, <3>1, TabAssumptions DEF Init, TabInit, TabTypeOK, Shown
    <2> QED
      BY <2>3, <2>4, <2>5 DEF HubTypeInv
  <1>2. /\ HubTypeInv /\ HubInv /\ TabTypeOK /\ [Next]_allVars
        => HubTypeInv' /\ TabTypeOK'
    BY HubTypeStep, HubStepKinds, TabTypes DEF HubTypeInv
  <1> QED
    BY <1>1, <1>2, HubInvInit, HubInvStep, PTL DEF FairSpec

\* Every variable of the hub and the tabs stays in its domain; in particular no
\* channel holds more than its capacity, and the hub handles no event that was
\* not published.
THEOREM HubTypeCorrect == FairSpec => []TypeOK
  <1>1. HubTypeInv /\ TabTypeOK => TypeOK
    BY DEF HubTypeInv, TypeOK
  <1> QED
    BY <1>1, HubTypeInvariant, PTL

-----------------------------------------------------------------------------
(* Feeds. *)

Feed(c) == got[c] \o send[c]

\* The feed of a registered client goes up to what the hub has handled.
FeedComplete(c, w) ==
    c \in clients =>
       \/ w > Len(Feed(c)) /\ since[c] + Len(Feed(c)) = handled
       \/ w <= Len(Feed(c)) /\ since[c] + Len(Feed(c)) = handled + 1

\* The welcome is the w-th message of c's feed, or will be.
FeedWith(c, w) ==
    /\ FeedAfter(Feed(c), since[c], w)
    /\ handler[c] = "welcoming" => w = Len(Feed(c)) + 1
    /\ FeedComplete(c, w)

FeedInv(c) ==
    /\ Fresh(c) => got[c] = <<>> /\ send[c] = <<>>
    /\ conn[c] = "up" => \E w \in 1..Len(Feed(c)) + 1 : FeedWith(c, w)

FeedsInv == \A c \in Clients : FeedInv(c)

LEMMA FeedTypes ==
    ASSUME HubTypeInv, NEW c \in Clients
    PROVE  /\ got[c] \in Seq(Message) /\ send[c] \in Seq(Message)
           /\ Feed(c) \in Seq(Message)
           /\ since[c] \in Nat /\ handled \in Nat
           /\ Len(Feed(c)) \in Nat
           /\ DOMAIN Feed(c) = 1..Len(Feed(c))
  BY HubAssumptions DEF HubTypeInv, HubTypeOK, Feed

\* A message goes from one end of the second part of a feed to the other.
LEMMA FeedParts ==
    ASSUME NEW S, NEW g \in Seq(S), NEW s \in Seq(S)
    PROVE  /\ \A m \in S : g \o Append(s, m) = Append(g \o s, m)
           /\ s # <<>> => Append(g, Head(s)) \o Tail(s) = g \o s
  <1>1. ASSUME NEW m \in S
        PROVE  g \o Append(s, m) = Append(g \o s, m)
    <2>1. Append(s, m) = s \o <<m>> /\ Append(g \o s, m) = (g \o s) \o <<m>>
      BY AppendIsConcat, ConcatProperties
    <2>2. <<m>> \in Seq(S)
      OBVIOUS
    <2> QED
      BY <2>1, <2>2, ConcatAssociative
  <1>2. ASSUME s # <<>>
        PROVE  Append(g, Head(s)) \o Tail(s) = g \o s
    <2>1. Head(s) \in S /\ Tail(s) \in Seq(S) /\ <<Head(s)>> \in Seq(S)
      BY <1>2
    <2>2. s = <<Head(s)>> \o Tail(s)
      BY <1>2, <2>1
    <2>3. Append(g, Head(s)) = g \o <<Head(s)>>
      BY <2>1, AppendIsConcat
    <2> QED
      BY <2>1, <2>2, <2>3, ConcatAssociative
  <1> QED
    BY <1>1, <1>2

\* What one message more does to a feed.
LEMMA FeedLonger ==
    ASSUME NEW feed \in Seq(Message), NEW e \in Nat, NEW m, m \in Message,
           NEW w \in 1..Len(feed) + 1, FeedAfter(feed, e, w),
           NEW v \in 1..Len(feed) + 2,
           \/ v = w /\ w <= Len(feed) /\ m = e + Len(feed)
           \/ v = w + 1 /\ w = Len(feed) + 1 /\ m = e + w
           \/ v = w /\ w = Len(feed) + 1 /\ m = Welcome
    PROVE  FeedAfter(Append(feed, m), e, v)
  <1> DEFINE longer == Append(feed, m)
  <1>1. /\ DOMAIN longer = 1..(Len(feed) + 1)
        /\ longer[Len(feed) + 1] = m
        /\ \A k \in 1..Len(feed) : longer[k] = feed[k]
        /\ Len(feed) \in Nat
    OBVIOUS
  <1>2. \A k \in 1..Len(feed) :
           feed[k] = IF k = w THEN Welcome
                     ELSE e + (IF k < w THEN k ELSE k - 1)
    BY DEF FeedAfter
  <1> HIDE DEF longer
  <1>3. ASSUME NEW k \in DOMAIN longer
        PROVE  longer[k] = IF k = v THEN Welcome
                           ELSE e + (IF k < v THEN k ELSE k - 1)
    <2>1. CASE k \in 1..Len(feed)
      BY <1>1, <1>2, <2>1
    <2>2. CASE k = Len(feed) + 1
      BY <1>1, <2>2
    <2> QED
      BY <1>1, <2>1, <2>2
  <1> QED
    BY <1>3 DEF FeedAfter, longer

LEMMA FeedKept ==
    ASSUME NEW c \in Clients, FeedInv(c), Feed(c)' = Feed(c),
           since'[c] = since[c],
           c \in clients' => c \in clients /\ handled' = handled,
           conn'[c] = "up" => conn[c] = "up",
           handler'[c] = "welcoming" => handler[c] = "welcoming",
           Fresh(c)' => got'[c] = <<>> /\ send'[c] = <<>>
    PROVE  FeedInv(c)'
  BY DEF FeedInv, FeedWith, FeedComplete

\* A feed before its first message.
LEMMA FeedStarts ==
    ASSUME NEW c \in Clients, got'[c] = <<>>, send'[c] = <<>>,
           since'[c] \in Nat, c \in clients' => since'[c] = handled'
    PROVE  FeedInv(c)'
  <1>1. Feed(c)' = <<>> /\ Len(<<>>) = 0 /\ DOMAIN <<>> = {}
    BY DEF Feed
  <1>2. FeedWith(c, 1)'
    BY <1>1 DEF FeedWith, FeedAfter, FeedComplete
  <1>3. 1 \in 1..Len(Feed(c)') + 1
    BY <1>1
  <1> QED
    BY <1>2, <1>3 DEF FeedInv

LEMMA BroadcastFeeds ==
    ASSUME HubTypeInv, HubInv, FeedsInv, HubBroadcast, NEW c \in Clients
    PROVE  FeedInv(c)'
  <1>1. FeedInv(c) /\ UNCHANGED <<got, since, conn, handler>>
    BY DEF FeedsInv, HubBroadcast
  <1>2. CASE c \notin Ready
    <2>1. send'[c] = send[c] /\ c \notin clients'
      BY <1>2 DEF HubBroadcast
    <2> QED
      BY <1>1, <2>1, FeedKept DEF Feed, FeedInv, Fresh
  <1>3. CASE c \in Ready
    <2>1. /\ Head(broadcast) = handled + 1 /\ Head(broadcast) \in Message
          /\ handled' = handled + 1
      <3>1. broadcast \in Seq(Event) /\ broadcast # <<>>
        BY DEF HubBroadcast, HubTypeInv, HubTypeOK
      <3>2. 1 \in 1..Len(broadcast) /\ Head(broadcast) = broadcast[1]
        BY <3>1
      <3>3. Head(broadcast) = handled + 1
        BY <3>2 DEF HubTypeInv, CountInv
      <3> QED
        BY <3>1, <3>3 DEF HubBroadcast, Message
    <2>2. /\ send'[c] = Append(send[c], handled + 1)
          /\ c \in clients /\ c \in clients' /\ ~Fresh(c)
      BY <1>3, <2>1 DEF HubBroadcast, Ready, HubInv
    <2> DEFINE n == Len(Feed(c))
               e == since[c]
               h == handled
    <2>3. /\ got[c] \in Seq(Message) /\ send[c] \in Seq(Message)
          /\ Feed(c) \in Seq(Message)
          /\ n \in Nat /\ e \in Nat /\ h \in Nat /\ h + 1 \in Message
      BY <2>1, FeedTypes
    <2>4. Feed(c)' = Append(Feed(c), h + 1)
      <3>1. got[c] \o Append(send[c], h + 1) = Append(Feed(c), h + 1)
        BY <2>3, FeedParts DEF Feed
      <3> QED
        BY <1>1, <2>2, <3>1 DEF Feed
    <2>5. Len(Feed(c)') = n + 1
      BY <2>3, <2>4
    <2>6. ASSUME conn[c] = "up"
          PROVE  \E v \in 1..Len(Feed(c)') + 1 : FeedWith(c, v)'
      <3>1. PICK w \in 1..n + 1 : FeedWith(c, w)
        BY <1>1, <2>6 DEF FeedInv
      <3>2. PICK v \in 1..n + 2 : v = IF w = n + 1 THEN w + 1 ELSE w
        BY <2>3
      <3>3. /\ w = n + 1 => e + n = h
            /\ w # n + 1 => w <= n /\ e + n = h + 1
        <4> HIDE DEF n, e, h
        <4>1. \/ w > n /\ e + n = h
              \/ w <= n /\ e + n = h + 1
          BY <2>2, <3>1 DEF FeedWith, FeedComplete, n, e, h
        <4> QED
          BY <2>3, <4>1
      <3>4. FeedAfter(Append(Feed(c), h + 1), e, v)
        <4>1. FeedAfter(Feed(c), e, w)
          BY <3>1 DEF FeedWith
        <4>2. \/ v = w /\ w <= n /\ h + 1 = e + n
              \/ v = w + 1 /\ w = n + 1 /\ h + 1 = e + w
          <5> HIDE DEF n, e, h
          <5> QED
            BY <2>3, <3>2, <3>3
        <4> QED
          BY <2>3, <4>1, <4>2, FeedLonger
      <3>5. handler'[c] = "welcoming" => v = n + 2
        BY <1>1, <2>3, <3>1, <3>2 DEF FeedWith
      <3>6. \/ v > n + 1 /\ e + (n + 1) = h + 1
            \/ v <= n + 1 /\ e + (n + 1) = h + 1 + 1
        <4> HIDE DEF n, e, h
        <4>1. n \in Nat /\ e \in Nat /\ h \in Nat /\ w \in 1..n + 1
          BY <2>3, <3>1
        <4>2. CASE w = n + 1
          BY <3>2, <3>3, <4>1, <4>2
        <4>3. CASE w # n + 1
          BY <3>2, <3>3, <4>1, <4>3
        <4> QED
          BY <4>2, <4>3
      <3>7. FeedWith(c, v)'
        BY <1>1, <2>1, <2>3, <2>4, <2>5, <3>4, <3>5, <3>6
        DEF FeedWith, FeedComplete
      <3> QED
        BY <2>3, <2>5, <3>2, <3>7
    <2> QED
      BY <1>1, <2>2, <2>6 DEF FeedInv, Fresh
  <1> QED
    BY <1>2, <1>3

LEMMA WelcomeFeeds ==
    ASSUME HubTypeInv, HubInv, NEW c \in Clients, FeedInv(c), SendWelcome(c)
    PROVE  FeedInv(c)'
  <1>1. /\ UNCHANGED <<got, since, conn, clients, handled>>
        /\ handler[c] = "welcoming"
        /\ handler'[c] = "done"
        /\ send'[c] = Append(send[c], Welcome)
    BY DEF SendWelcome, StartPumps, hubVars, feedVars, HubTypeInv, HubTypeOK
  <1>2. /\ Feed(c)' = Append(Feed(c), Welcome)
        /\ Welcome \in Message
    <2>1. Welcome \in Message
      BY DEF Message
    <2>2. got[c] \o Append(send[c], Welcome) = Append(Feed(c), Welcome)
      BY <2>1, FeedTypes, FeedParts DEF Feed
    <2> QED
      BY <1>1, <2>1, <2>2 DEF Feed
  <1>3. Len(Feed(c)') = Len(Feed(c)) + 1
    BY <1>2, FeedTypes
  <1>4. ASSUME conn[c] = "up"
        PROVE  \E v \in 1..Len(Feed(c)') + 1 : FeedWith(c, v)'
    <2>1. PICK w \in 1..Len(Feed(c)) + 1 : FeedWith(c, w)
      BY <1>4 DEF FeedInv
    <2>2. w = Len(Feed(c)) + 1
      BY <1>1, <2>1 DEF FeedWith
    <2>3. /\ Feed(c) \in Seq(Message) /\ Len(Feed(c)) \in Nat
          /\ since[c] \in Nat /\ handled \in Nat
      BY FeedTypes
    <2>4. FeedAfter(Feed(c)', since'[c], w)
      <3>1. FeedAfter(Feed(c), since[c], w)
        BY <2>1 DEF FeedWith
      <3>2. w \in 1..Len(Feed(c)) + 2
        BY <2>2, <2>3
      <3>3. FeedAfter(Append(Feed(c), Welcome), since[c], w)
        BY <1>2, <2>2, <2>3, <3>1, <3>2, FeedLonger
      <3> QED
        BY <1>1, <1>2, <3>3
    <2>5. FeedComplete(c, w)'
      <3>1. c \in clients => since[c] + Len(Feed(c)) = handled
        BY <2>1, <2>2, <2>3 DEF FeedWith, FeedComplete
      <3>2. /\ w <= Len(Feed(c)')
            /\ (c \in clients => since[c] + Len(Feed(c)') = handled + 1)
        BY <1>3, <2>2, <2>3, <3>1
      <3> QED
        BY <1>1, <3>2 DEF FeedComplete
    <2>6. w \in 1..Len(Feed(c)') + 1
      BY <1>3, <2>2, <2>3
    <2>7. FeedWith(c, w)'
      BY <1>1, <2>4, <2>5 DEF FeedWith
    <2> QED
      BY <2>6, <2>7
  <1> QED
    BY <1>1, <1>4 DEF FeedInv, Fresh

LEMMA WriteFeeds ==
    ASSUME HubTypeInv, NEW c \in Clients, FeedInv(c), WriteMessage(c)
    PROVE  FeedInv(c)'
  <1>1. /\ UNCHANGED <<since, conn, clients, handled, handler>>
        /\ send[c] # <<>> /\ ~Fresh(c) /\ ~Fresh(c)'
        /\ send'[c] = Tail(send[c])
        /\ conn[c] = "up" => got'[c] = Append(got[c], Head(send[c]))
    BY DEF WriteMessage, hubVars, FeedInv, Fresh, HubTypeInv, HubTypeOK
  <1>2. CASE conn[c] = "up"
    <2>1. Append(got[c], Head(send[c])) \o Tail(send[c]) = got[c] \o send[c]
      BY <1>1, FeedTypes, FeedParts
    <2> QED
      BY <1>1, <1>2, <2>1, FeedKept DEF Feed
  <1>3. CASE conn[c] # "up"
    BY <1>1, <1>3 DEF FeedInv
  <1> QED
    BY <1>2, <1>3

\* Of the steps of one client.
LEMMA OwnFeed ==
    ASSUME HubTypeInv, HubInv, NEW c \in Clients, FeedInv(c),
           \/ HubRegister(c) \/ HubUnregister(c) \/ Upgrade(c)
           \/ Connection(c) \/ Break(c)
    PROVE  FeedInv(c)'
  <1> USE DEF hubVars, feedVars
  <1>1. CASE HubRegister(c)
    <2>1. Fresh(c) /\ since'[c] = handled /\ UNCHANGED <<got, send, handled>>
      BY <1>1 DEF HubRegister, Fresh, HubTypeInv, HubTypeOK
    <2> QED
      BY <2>1, FeedTypes, FeedStarts DEF FeedInv
  <1>2. CASE Upgrade(c)
    <2>1. Fresh(c) /\ c \notin clients /\ UNCHANGED <<got, send, since, clients>>
      BY <1>2 DEF Upgrade, Unused, Fresh, HubInv
    <2> QED
      BY <2>1, FeedTypes, FeedStarts DEF FeedInv
  <1>3. CASE Forget(c)
    <2>1. /\ got'[c] = <<>> /\ send'[c] = <<>> /\ since'[c] = 0
          /\ c \notin clients'
      BY <1>3 DEF Forget, HubTypeInv, HubTypeOK
    <2> QED
      BY <2>1, FeedStarts
  <1>4. CASE \/ HubUnregister(c) \/ WelcomePanics(c) \/ Finalize(c)
             \/ ReadPump(c) \/ WritePumpEnds(c) \/ Break(c)
    <2>1. /\ UNCHANGED <<got, send, since, handled>>
          /\ clients' \subseteq clients
          /\ conn'[c] = "up" => conn[c] = "up"
          /\ handler'[c] \in {handler[c], "panicked"}
      BY <1>4
      DEF HubUnregister, WelcomePanics, Finalize, ReadPump, WritePumpEnds,
          Break, HubTypeInv, HubTypeOK
    <2> QED
      BY <2>1, FeedKept DEF Feed, FeedInv, Fresh
  <1> QED
    BY <1>1, <1>2, <1>3, <1>4, WelcomeFeeds, WriteFeeds DEF Connection

\* A client's steps leave the other clients' feeds alone.
LEMMA OtherFeeds ==
    ASSUME HubTypeInv, NEW d \in Clients, NEW c \in Clients, c # d, FeedInv(c),
           \/ HubRegister(d) \/ HubUnregister(d) \/ Upgrade(d)
           \/ Connection(d) \/ Break(d)
    PROVE  FeedInv(c)'
  <1>1. /\ got'[c] = got[c] /\ send'[c] = send[c] /\ since'[c] = since[c]
        /\ conn'[c] = conn[c] /\ handler'[c] = handler[c]
        /\ handled' = handled
        /\ c \in clients' => c \in clients
    <2> USE DEF HubTypeInv, HubTypeOK, hubVars, feedVars
    <2>1. CASE HubRegister(d) \/ HubUnregister(d) \/ Upgrade(d) \/ Break(d)
      BY <2>1 DEF HubRegister, HubUnregister, Upgrade, Break
    <2>2. CASE SendWelcome(d) \/ WelcomePanics(d) \/ Finalize(d)
      BY <2>2 DEF SendWelcome, StartPumps, WelcomePanics, Finalize
    <2>3. CASE ReadPump(d) \/ WriteMessage(d) \/ WritePumpEnds(d) \/ Forget(d)
      BY <2>3 DEF ReadPump, WriteMessage, WritePumpEnds, Forget
    <2> QED
      BY <2>1, <2>2, <2>3 DEF Connection
  <1> QED
    BY <1>1, FeedKept DEF Feed, FeedInv, Fresh

LEMMA FeedsStep ==
    ASSUME HubTypeInv, HubInv, FeedsInv, [Next]_allVars
    PROVE  FeedsInv'
  <1> SUFFICES ASSUME NEW c \in Clients PROVE FeedInv(c)'
    BY DEF FeedsInv
  <1>1. FeedInv(c)
    BY DEF FeedsInv
  <1>2. CASE \/ UNCHANGED vars \/ Start \/ ChangeQuietly
             \/ \E p \in Publishers : Change(p) \/ BroadcastEvent(p)
    <2>1. UNCHANGED <<got, send, since, conn, handler, clients, handled>>
      BY <1>2
      DEF Start, Change, ChangeQuietly, BroadcastEvent, vars, hubVars,
          clientVars, feedVars
    <2> QED
      BY <1>1, <2>1, FeedKept DEF Feed, FeedInv, Fresh
  <1>3. ASSUME NEW d \in Clients,
               \/ HubRegister(d) \/ HubUnregister(d) \/ Upgrade(d)
               \/ Connection(d) \/ Break(d)
        PROVE  FeedInv(c)'
    BY <1>1, <1>3, OwnFeed, OtherFeeds
  <1> QED
    BY <1>2, <1>3, BroadcastFeeds, HubStepKinds DEF HubNext, Run

\* Events overtake a welcome, slow clients are dropped and values of clients are
\* used again; still what a registered client has been sent, and what is in its
\* channel, is every event since its registration, in order, and one welcome.
THEOREM NoGapWhileRegisteredHolds == FairSpec => []NoGapWhileRegistered
  <1>1. Init => FeedsInv
    <2> SUFFICES ASSUME Init, NEW c \in Clients PROVE FeedInv(c)
      BY DEF FeedsInv
    <2>1. got[c] = <<>> /\ send[c] = <<>> /\ conn[c] = "none"
      BY DEF Init, HubInit, NothingYet
    <2> QED
      BY <2>1 DEF FeedInv
  <1>2. HubTypeInv /\ HubInv /\ FeedsInv /\ [Next]_allVars => FeedsInv'
    BY FeedsStep
  <1>3. FeedsInv => NoGapWhileRegistered
    BY DEF FeedsInv, FeedInv, FeedWith, FeedComplete, Feed, NoGapWhileRegistered
  <1> QED
    BY <1>1, <1>2, <1>3, HubTypeInvariant, PTL DEF FairSpec
=============================================================================

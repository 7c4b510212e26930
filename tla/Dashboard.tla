----------------------------- MODULE Dashboard -----------------------------
(***************************************************************************)
(* Browser tabs (dashboard/src/hooks/useConstellation.ts) around the hub.  *)
(* A tab fetches the cluster's status when its user has logged in, then    *)
(* whenever its socket brings a message; a socket that closes is opened    *)
(* again after 3 s and nothing is fetched for that: the welcome the hub    *)
(* sends to a new client is what makes the tab look again.                 *)
(*                                                                         *)
(* Fetches overlap: their requests are served, and their answers arrive,   *)
(* in any order; the answer that arrives last is what is shown, and a      *)
(* fetch that fails changes nothing and is not made again.                 *)
(***************************************************************************)
EXTENDS WebSocketHub, SequencesExt

CONSTANTS Tabs,       \* instances of the hook
          NotOpen,    \* the tab has no token yet
          NoClient,   \* it has no connection: its reconnect timer runs
          MaxFetches  \* bound: fetches of a tab under way at once

ASSUME TabAssumptions ==
    /\ NotOpen \notin Clients /\ NoClient \notin Clients
    /\ NotOpen # NoClient
    /\ MaxFetches \in Nat \ {0}

VARIABLES socket,   \* the server's side of the tab's WebSocket
          heard,    \* messages of that socket that onmessage has handled
          fetches,  \* fetchStatus calls under way, oldest first: what the
                    \* server read for each
          seen      \* changes the status shown reflects

\* History: how many of the fetches, from the oldest, were made before one that
\* has ended; and whether what is shown is the answer of the newest fetch that
\* has ended, or that one failed, or an older one's answer arrived after it.
VARIABLES late, shown
fetchVars == <<fetches, seen, late, shown>>
tabVars == <<socket, heard, fetchVars>>

\* The server has not read the tables yet.
Unread == MaxChanges + 1
Shown == 0..MaxChanges

TabTypeOK ==
    /\ socket \in [Tabs -> Clients \cup {NotOpen, NoClient}]
    /\ heard \in [Tabs -> Nat]
    /\ fetches \in [Tabs -> Seq(Shown \cup {Unread})]
    /\ seen \in [Tabs -> Shown]
    /\ late \in [Tabs -> Nat]
    /\ \A b \in Tabs : /\ Len(fetches[b]) <= MaxFetches
                       /\ late[b] <= Len(fetches[b])
    /\ shown \in [Tabs -> {"newest", "failed", "older"}]

TabInit ==
    /\ socket = [b \in Tabs |-> NotOpen]
    /\ heard = [b \in Tabs |-> 0]
    /\ fetches = [b \in Tabs |-> <<>>]
    /\ seen = [b \in Tabs |-> 0]
    /\ late = [b \in Tabs |-> 0]
    /\ shown = [b \in Tabs |-> "newest"]

Fetch(b) ==
    /\ Len(fetches[b]) < MaxFetches
    /\ fetches' = [fetches EXCEPT ![b] = Append(@, Unread)]

\* The first fetch, and the first call of connectWS.
Open(b) ==
    /\ socket[b] = NotOpen
    /\ socket' = [socket EXCEPT ![b] = NoClient]
    /\ Fetch(b)
    /\ UNCHANGED <<heard, seen, late, shown, vars>>

\* connectWS, at first and whenever the reconnect timer fires.
ConnectWS(b, c) ==
    /\ socket[b] = NoClient
    /\ Upgrade(c)
    /\ socket' = [socket EXCEPT ![b] = c]
    /\ heard' = [heard EXCEPT ![b] = 0]
    /\ UNCHANGED fetchVars

\* Mutant: only events are answered by a fetch.
OnMessageMutant(b) ==
    /\ socket[b] \in Clients
    /\ heard[b] < Len(got[socket[b]])
    /\ Len(fetches[b]) < MaxFetches
    /\ heard' = [heard EXCEPT ![b] = @ + 1]
    /\ fetches' = [fetches EXCEPT
                     ![b] = IF got[socket[b]][heard'[b]] = Welcome
                            THEN @ ELSE Append(@, Unread)]
    /\ UNCHANGED <<socket, seen, late, shown, vars>>

OnMessage(b) ==
    /\ socket[b] \in Clients
    /\ heard[b] < Len(got[socket[b]])
    /\ heard' = [heard EXCEPT ![b] = @ + 1]
    /\ Fetch(b)
    /\ UNCHANGED <<socket, seen, late, shown, vars>>

\* What had arrived and was not handled may be lost.
OnClose(b) ==
    /\ socket[b] \in Clients
    /\ conn[socket[b]] # "up"
    /\ socket' = [socket EXCEPT ![b] = NoClient]
    /\ UNCHANGED <<heard, fetchVars, vars>>

\* The server answers fetch i from the tables as they are.
ClusterStatus(b, i) ==
    /\ i \in DOMAIN fetches[b] /\ fetches[b][i] = Unread
    /\ fetches' = [fetches EXCEPT ![b][i] = writes]
    /\ UNCHANGED <<socket, heard, seen, late, shown, vars>>

\* Fetch i has ended; the older ones will end late.
FetchEnded(b, i) ==
    /\ fetches' = [fetches EXCEPT ![b] = RemoveAt(@, i)]
    /\ late' = [late EXCEPT ![b] = IF i <= @ THEN @ - 1 ELSE i - 1]

FetchStatus(b, i) ==
    /\ i \in DOMAIN fetches[b] /\ fetches[b][i] # Unread
    /\ FetchEnded(b, i)
    /\ seen' = [seen EXCEPT ![b] = fetches[b][i]]
    /\ shown' = [shown EXCEPT ![b] = CASE i > late[b] -> "newest"
                                       [] i <= late[b] /\ @ = "newest"
                                              -> "older"
                                       [] OTHER -> @]
    /\ UNCHANGED <<socket, heard, vars>>

\* The fetch throws, or its answer is not ok: the status stays.
FetchFails(b, i) ==
    /\ i \in DOMAIN fetches[b]
    /\ FetchEnded(b, i)
    /\ shown' = [shown EXCEPT ![b] = IF i > late[b] THEN "failed" ELSE @]
    /\ UNCHANGED <<socket, heard, seen, vars>>

Server == /\ HubNext
          /\ UNCHANGED tabVars

TabNext(b) ==
    \/ Open(b) \/ OnMessage(b) \/ OnClose(b)
    \/ \E i \in 1..MaxFetches :
          ClusterStatus(b, i) \/ FetchStatus(b, i) \/ FetchFails(b, i)

Init == HubInit /\ TabInit

Next ==
    \/ Server
    \/ \E b \in Tabs : TabNext(b) \/ \E c \in Clients : ConnectWS(b, c)

allVars == <<vars, tabVars>>

\* The browsers' event loops keep running, and every fetch is served and ends:
\* its request is the oldest under way at last.
TabFairness ==
    \A b \in Tabs : /\ WF_allVars(OnMessage(b))
                    /\ WF_allVars(OnClose(b))
                    /\ WF_allVars(ClusterStatus(b, 1))
                    /\ WF_allVars(FetchStatus(b, 1) \/ FetchFails(b, 1))
                    /\ WF_allVars(\E c \in Clients : ConnectWS(b, c))

FairSpec == Init /\ [][Next]_allVars /\ HubFairness /\ TabFairness

TypeOK == HubTypeOK /\ TabTypeOK

-----------------------------------------------------------------------------
(* Properties. *)

\* The handler of the tab's connection waits for room for the welcome in a
\* channel nobody reads yet: only the hub's next event, which closes the
\* channel, ends that.
WelcomeStuck(b) ==
    /\ socket[b] \in Clients
    /\ handler[socket[b]] = "welcoming"
    /\ Len(send[socket[b]]) = SendCap

\* Whatever is lost on the way (events of a slow or broken connection, a client
\* dropped before its welcome), an open tab asks again after every change that
\* is announced: from some time on the status it shows reflects that change,
\* unless the newest of its fetches to end failed or an older one's answer
\* overwrote its own, or as many events as the channel holds come between the
\* registration and the welcome.
StatusCatchesUp ==
    \A b \in Tabs, p \in Publishers, k \in Event :
        pending[p] = k ~> [](\/ seen[b] >= k \/ shown[b] # "newest"
                            \/ WelcomeStuck(b) \/ socket[b] = NotOpen)
=============================================================================

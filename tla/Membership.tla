----------------------------- MODULE Membership -----------------------------
(***************************************************************************)
(* Clusters, their nodes and the user accounts (controller/api/cluster.go, *)
(* tasks.go and the tables behind them).  Initialising and destroying the  *)
(* cluster, joining it and creating a user are sequences of store calls    *)
(* with nothing held between them, so requests overlap, and a controller   *)
(* that stops leaves its requests half done.                               *)
(*                                                                         *)
(* GetCluster reads the first row in storage order.  A node id is made for *)
(* one row; what tasks refer to a node is fixed here (Busy).               *)
(***************************************************************************)
EXTENDS Naturals, Sequences, SequencesExt, FiniteSets

CONSTANTS InitRequests,  \* handlers of POST /cluster/init that may overlap
          DestroyRequests, \* handlers of DELETE /cluster that may overlap
          Workers,       \* worker nodes
          Users,         \* user names
          Admin,         \* "admin", the account init creates
          MaxClusters,   \* bound: rows ever inserted into cluster
          MaxCreates     \* bound: overlapping creations of one user

ASSUME MembershipAssumptions ==
    /\ IsFiniteSet(InitRequests)
    /\ Admin \in Users
    /\ MaxClusters \in Nat
    /\ MaxCreates \in Nat

Cluster == 1..MaxClusters
None == 0

VARIABLES enforced,    \* does the database enforce REFERENCES and is
          busy,        \* the set of workers that tasks refer to
          rows,        \* the table cluster, in storage order
          made,        \* clusters created so far
          controller,  \* clusters whose node "ctrl-<id>" exists
          member,      \* member[w]: nodes.cluster_id of w, None without a row
          accounts     \* accounts[u]: rows of users with the name u
memberTables == <<rows, made, controller, member, accounts>>

VARIABLES initStep,    \* the next thing an init handler does
          initOf,      \* the cluster it created
          joining,     \* the cluster a join handler read
          destroyStep, \* the next thing a destroy handler does
          toRemove,    \* the nodes it listed and has not come to: clusters for
                       \* their controller nodes, and workers
          creating,    \* create-user handlers that found no such user
          answered     \* has an init been answered with 201?
requestVars == <<initStep, initOf, joining, destroyStep, toRemove, creating>>
memberVars == <<enforced, busy, memberTables, requestVars, answered>>

MemberTypeOK ==
    /\ enforced \in BOOLEAN
    /\ busy \subseteq Workers
    /\ made \in 0..MaxClusters
    /\ rows \in Seq(1..made)
    /\ controller \subseteq 1..made
    /\ member \in [Workers -> 0..made]
    /\ accounts \in [Users -> {0, 1}]
    /\ initStep \in [InitRequests -> {"idle", "create", "register", "admin"}]
    /\ initOf \in [InitRequests -> 0..made]
    /\ joining \in [Workers -> 0..made]
    /\ destroyStep \in [DestroyRequests -> {"idle", "list", "nodes"}]
    /\ toRemove \in [DestroyRequests -> SUBSET ((1..made) \cup Workers)]
    /\ creating \in [Users -> 0..MaxCreates]
    /\ answered \in BOOLEAN

NoRequests ==
    /\ initStep = [r \in InitRequests |-> "idle"]
    /\ initOf = [r \in InitRequests |-> None]
    /\ joining = [w \in Workers |-> None]
    /\ destroyStep = [d \in DestroyRequests |-> "idle"]
    /\ toRemove = [d \in DestroyRequests |-> {}]
    /\ creating = [u \in Users |-> 0]

MemberInit ==
    /\ enforced \in BOOLEAN
    /\ busy \in SUBSET Workers
    /\ ~enforced => busy = {}  \* it is not looked at then
    /\ rows = <<>>
    /\ made = 0
    /\ controller = {}
    /\ member = [w \in Workers |-> None]
    /\ accounts = [u \in Users |-> 0]
    /\ NoRequests
    /\ answered = FALSE

-----------------------------------------------------------------------------
(* Statements. *)

GetCluster == IF rows = <<>> THEN None ELSE Head(rows)

ClusterExists(k) == k \in ToSet(rows)

\* A row whose cluster_id refers to no cluster is refused if that is enforced.
RegistrationRefused(k) == enforced /\ ~ClusterExists(k)

\* users.username is unique: a second row is refused.
CreateUser(u) == accounts' = [accounts EXCEPT ![u] = IF @ = 0 THEN 1 ELSE @]

DeleteCluster ==
    IF enforced /\ (controller # {} \/ \E w \in Workers : member[w] # None)
    THEN UNCHANGED rows ELSE rows' = <<>>

-----------------------------------------------------------------------------
(* HandleClusterInit. *)

\* Mutant: the answer of GetCluster is not looked at.
InitCheckMutant(r) ==
    /\ initStep[r] = "idle"
    /\ initStep' = [initStep EXCEPT ![r] = "create"]
    /\ UNCHANGED <<enforced, busy, memberTables, initOf, joining, destroyStep,
                   toRemove, creating, answered>>

InitCheck(r) ==
    /\ initStep[r] = "idle"
    /\ GetCluster = None
    /\ initStep' = [initStep EXCEPT ![r] = "create"]
    /\ UNCHANGED <<enforced, busy, memberTables, initOf, joining, destroyStep,
                   toRemove, creating, answered>>

InitCreate(r) ==
    /\ initStep[r] = "create"
    /\ made < MaxClusters
    /\ made' = made + 1
    /\ rows' = Append(rows, made')
    /\ initOf' = [initOf EXCEPT ![r] = made']
    /\ initStep' = [initStep EXCEPT ![r] = "register"]
    /\ UNCHANGED <<enforced, busy, controller, member, accounts, joining,
                   destroyStep, toRemove, creating, answered>>

\* If the controller's node is refused, the request ends with an error.
InitRegister(r) ==
    /\ initStep[r] = "register"
    /\ IF RegistrationRefused(initOf[r])
       THEN /\ initStep' = [initStep EXCEPT ![r] = "idle"]
            /\ initOf' = [initOf EXCEPT ![r] = None]
            /\ UNCHANGED controller
       ELSE /\ initStep' = [initStep EXCEPT ![r] = "admin"]
            /\ controller' = controller \cup {initOf[r]}
            /\ UNCHANGED initOf
    /\ UNCHANGED <<enforced, busy, rows, made, member, accounts, joining,
                   destroyStep, toRemove, creating, answered>>

\* The error of an account that exists already is ignored.
InitAdmin(r) ==
    /\ initStep[r] = "admin"
    /\ CreateUser(Admin)
    /\ initStep' = [initStep EXCEPT ![r] = "idle"]
    /\ initOf' = [initOf EXCEPT ![r] = None]
    /\ answered' = TRUE
    /\ UNCHANGED <<enforced, busy, rows, made, controller, member, joining,
                   destroyStep, toRemove, creating>>

-----------------------------------------------------------------------------
(* HandleNodeJoin, HandleDeleteNode. *)

\* The agent has the token of the cluster: init and status answer with it.
JoinCheck(w) ==
    /\ member[w] = None
    /\ joining[w] = None
    /\ GetCluster # None
    /\ joining' = [joining EXCEPT ![w] = GetCluster]
    /\ UNCHANGED <<enforced, busy, memberTables, initStep, initOf, destroyStep,
                   toRemove, creating, answered>>

JoinRegister(w) ==
    /\ joining[w] # None
    /\ member' = IF RegistrationRefused(joining[w]) THEN member
                 ELSE [member EXCEPT ![w] = joining[w]]
    /\ joining' = [joining EXCEPT ![w] = None]
    /\ UNCHANGED <<enforced, busy, rows, made, controller, accounts, initStep,
                   initOf, destroyStep, toRemove, creating, answered>>

\* The row of a node that tasks refer to is kept if that is enforced.
Kept(w) == enforced /\ w \in busy

RemoveWorker(w) ==
    /\ member[w] # None
    /\ member' = IF Kept(w) THEN member ELSE [member EXCEPT ![w] = None]
    /\ UNCHANGED <<enforced, busy, rows, made, controller, accounts,
                   requestVars, answered>>

-----------------------------------------------------------------------------
(* HandleClusterDestroy. *)

DestroyCheck(d) ==
    /\ destroyStep[d] = "idle"
    /\ GetCluster # None
    /\ destroyStep' = [destroyStep EXCEPT ![d] = "list"]
    /\ UNCHANGED <<enforced, busy, memberTables, initStep, initOf, joining,
                   toRemove, creating, answered>>

DestroyList(d) ==
    /\ destroyStep[d] = "list"
    /\ destroyStep' = [destroyStep EXCEPT ![d] = "nodes"]
    /\ toRemove' = [toRemove EXCEPT
                      ![d] = controller \cup {w \in Workers : member[w] # None}]
    /\ UNCHANGED <<enforced, busy, memberTables, initStep, initOf, joining,
                   creating, answered>>

\* The error of a refused deletion is ignored.
DestroyNode(d, m) ==
    /\ destroyStep[d] = "nodes"
    /\ m \in toRemove[d]
    /\ toRemove' = [toRemove EXCEPT ![d] = @ \ {m}]
    /\ controller' = controller \ {m}
    /\ member' = [w \in Workers |-> IF w = m /\ ~Kept(w) THEN None
                                                         ELSE member[w]]
    /\ UNCHANGED <<enforced, busy, rows, made, accounts, initStep, initOf,
                   joining, destroyStep, creating, answered>>

DestroyCluster(d) ==
    /\ destroyStep[d] = "nodes"
    /\ toRemove[d] = {}
    /\ DeleteCluster
    /\ destroyStep' = [destroyStep EXCEPT ![d] = "idle"]
    /\ UNCHANGED <<enforced, busy, made, controller, member, accounts,
                   initStep, initOf, joining, toRemove, creating, answered>>

-----------------------------------------------------------------------------
(* HandleCreateUser, HandleDeleteUser. *)

CreateUserCheck(u) ==
    /\ accounts[u] = 0
    /\ creating[u] < MaxCreates
    /\ creating' = [creating EXCEPT ![u] = @ + 1]
    /\ UNCHANGED <<enforced, busy, memberTables, initStep, initOf, joining,
                   destroyStep, toRemove, answered>>

CreateUserInsert(u) ==
    /\ creating[u] > 0
    /\ CreateUser(u)
    /\ creating' = [creating EXCEPT ![u] = @ - 1]
    /\ UNCHANGED <<enforced, busy, rows, made, controller, member, initStep,
                   initOf, joining, destroyStep, toRemove, answered>>

\* Mutant: the administrator may be deleted.
HandleDeleteUserMutant(u) ==
    /\ accounts' = [accounts EXCEPT ![u] = 0]
    /\ UNCHANGED <<enforced, busy, rows, made, controller, member, requestVars,
                   answered>>

HandleDeleteUser(u) ==
    /\ u # Admin
    /\ accounts' = [accounts EXCEPT ![u] = 0]
    /\ UNCHANGED <<enforced, busy, rows, made, controller, member, requestVars,
                   answered>>

\* The controller stops, and starts again on the same tables.
MemberRestart ==
    /\ initStep' = [r \in InitRequests |-> "idle"]
    /\ initOf' = [r \in InitRequests |-> None]
    /\ joining' = [w \in Workers |-> None]
    /\ destroyStep' = [d \in DestroyRequests |-> "idle"]
    /\ toRemove' = [d \in DestroyRequests |-> {}]
    /\ creating' = [u \in Users |-> 0]
    /\ UNCHANGED <<enforced, busy, memberTables, answered>>

MemberNext ==
    \/ \E r \in InitRequests :
          InitCheck(r) \/ InitCreate(r) \/ InitRegister(r) \/ InitAdmin(r)
    \/ \E w \in Workers : JoinCheck(w) \/ JoinRegister(w) \/ RemoveWorker(w)
    \/ \E d \in DestroyRequests :
          \/ DestroyCheck(d) \/ DestroyList(d) \/ DestroyCluster(d)
          \/ \E m \in Cluster \cup Workers : DestroyNode(d, m)
    \/ \E u \in Users :
          CreateUserCheck(u) \/ CreateUserInsert(u) \/ HandleDeleteUser(u)
    \/ MemberRestart

MemberSpec == MemberInit /\ [][MemberNext]_memberVars

-----------------------------------------------------------------------------
(* Properties. *)

\* An init that starts when the cluster exists adds none: there are never more
\* clusters than init requests that overlap.
ClustersBounded == Len(rows) <= Cardinality(InitRequests)

\* After an init was answered the administrator's account is there, whatever
\* was created, deleted, destroyed or half done since.
AdminOnceAnswered == answered => accounts[Admin] = 1
=============================================================================

-------------------------- MODULE MembershipProofs --------------------------
(***************************************************************************)
(* Safety of Membership for any number of requests, workers and accounts.  *)
(***************************************************************************)
EXTENDS Membership, FiniteSetTheorems, SequenceTheorems, TLAPS

\* An init request that has come past the creation has created a cluster.
CreatedFirst ==
    \A r \in InitRequests : initStep[r] \in {"register", "admin"} => initOf[r] # None

DomainsOK == MemberTypeOK /\ CreatedFirst

USE DEF memberVars, memberTables, requestVars, None

-----------------------------------------------------------------------------
(* Types. *)

LEMMA DomainsInit == MemberInit => DomainsOK
  <1> SUFFICES ASSUME MemberInit PROVE DomainsOK
    OBVIOUS
  <1> USE MembershipAssumptions DEF MemberInit, NoRequests
  <1>1. /\ made = 0 /\ made \in 0..MaxClusters
        /\ rows = << >> /\ rows \in Seq(1..made)
    OBVIOUS
  <1>2. enforced \in BOOLEAN /\ answered \in BOOLEAN /\ busy \subseteq Workers
    <2>1. answered = FALSE /\ enforced \in BOOLEAN /\ busy \in SUBSET Workers
      OBVIOUS
    <2> QED
      BY <2>1, Zenon
  <1>3. /\ member \in [Workers -> 0..made]
        /\ accounts \in [Users -> {0, 1}]
        /\ initOf \in [InitRequests -> 0..made]
        /\ joining \in [Workers -> 0..made]
        /\ creating \in [Users -> 0..MaxCreates]
    BY <1>1
  <1>4. /\ controller \subseteq 1..made
        /\ initStep \in [InitRequests -> {"idle", "create", "register", "admin"}]
        /\ destroyStep \in [DestroyRequests -> {"idle", "list", "nodes"}]
        /\ toRemove \in [DestroyRequests -> SUBSET ((1..made) \cup Workers)]
    OBVIOUS
  <1>5. MemberTypeOK
    BY <1>1, <1>2, <1>3, <1>4 DEF MemberTypeOK
  <1>6. CreatedFirst
    BY DEF CreatedFirst
  <1> QED
    BY <1>5, <1>6 DEF DomainsOK

LEMMA InitDomains ==
    ASSUME DomainsOK, NEW r \in InitRequests,
           InitCheck(r) \/ InitCreate(r) \/ InitRegister(r) \/ InitAdmin(r)
    PROVE  DomainsOK'
  <1> USE MembershipAssumptions DEF DomainsOK, CreatedFirst, MemberTypeOK
  <1>1. CASE InitCheck(r)
    BY <1>1 DEF InitCheck
  <1>2. CASE InitCreate(r)
    <2>1. made' \in 1..MaxClusters /\ made' = made + 1
      BY <1>2 DEF InitCreate
    <2>2. 1..made \subseteq 1..made' /\ 0..made \subseteq 0..made'
      BY <2>1
    <2>3. rows' \in Seq(1..made')
      <3>1. rows \in Seq(1..made') /\ made' \in 1..made'
        BY <2>1, <2>2
      <3> QED
        BY <3>1, <1>2 DEF InitCreate
    <2>4. initOf' \in [InitRequests -> 0..made']
      BY <2>1, <2>2, <1>2 DEF InitCreate
    <2>5. /\ controller' \subseteq 1..made'
          /\ member' \in [Workers -> 0..made']
          /\ joining' \in [Workers -> 0..made']
      BY <2>2, <1>2 DEF InitCreate
    <2>9. /\ toRemove' \in [DestroyRequests -> SUBSET ((1..made') \cup Workers)]
          /\ UNCHANGED destroyStep
      BY <2>2, <1>2 DEF InitCreate
    <2>6. initStep' \in
             [InitRequests -> {"idle", "create", "register", "admin"}]
      BY <1>2 DEF InitCreate
    <2>7. CreatedFirst'
      <3>1. initOf'[r] = made' /\ made' # 0
        BY <2>1, <1>2 DEF InitCreate
      <3>2. \A q \in InitRequests \ {r} :
               initOf'[q] = initOf[q] /\ initStep'[q] = initStep[q]
        BY <1>2 DEF InitCreate
      <3> QED
        BY <3>1, <3>2
    <2>8. /\ UNCHANGED <<enforced, busy, accounts, creating, answered>>
          /\ made' \in 0..MaxClusters
      BY <2>1, <1>2 DEF InitCreate
    <2>10. /\ enforced' \in BOOLEAN
           /\ answered' \in BOOLEAN
      BY <2>8, Zenon
    <2>11. MemberTypeOK'
      BY <2>3, <2>4, <2>5, <2>6, <2>8, <2>9, <2>10
    <2> QED
      BY <2>7, <2>11
  <1>3. CASE InitRegister(r)
    <2>1. initOf[r] \in 1..made
      BY <1>3 DEF InitRegister
    <2>2. CASE RegistrationRefused(initOf[r])
      <3>1. /\ UNCHANGED <<enforced, busy, memberTables, joining, destroyStep,
                           toRemove, creating, answered>>
            /\ initStep' = [initStep EXCEPT ![r] = "idle"]
            /\ initOf' = [initOf EXCEPT ![r] = None]
        BY <2>2, <1>3 DEF InitRegister
      <3>2. 0 \in 0..made
        OBVIOUS
      <3>3. /\ initOf' \in [InitRequests -> 0..made']
            /\ initStep' \in
                  [InitRequests -> {"idle", "create", "register", "admin"}]
        BY <3>1, <3>2
      <3>4. CreatedFirst'
        BY <3>1
      <3>5. enforced' \in BOOLEAN /\ answered' \in BOOLEAN
        BY <3>1, Zenon
      <3>6. MemberTypeOK'
        BY <3>1, <3>3, <3>5
      <3> QED
        BY <3>4, <3>6
    <2>3. CASE ~RegistrationRefused(initOf[r])
      BY <2>1, <2>3, <1>3 DEF InitRegister
    <2> QED
      BY <2>2, <2>3
  <1>4. CASE InitAdmin(r)
    <2>1. initOf[r] \in 1..made
      BY <1>4 DEF InitAdmin
    <2> QED
      BY <2>1, <1>4 DEF InitAdmin, CreateUser
  <1> QED
    BY <1>1, <1>2, <1>3, <1>4

LEMMA WorkerDomains ==
    ASSUME DomainsOK, NEW w \in Workers,
           JoinCheck(w) \/ JoinRegister(w) \/ RemoveWorker(w)
    PROVE  DomainsOK'
  <1> USE MembershipAssumptions DEF DomainsOK, CreatedFirst, MemberTypeOK
  <1>1. CASE JoinCheck(w)
    <2>1. GetCluster \in 0..made
      BY HeadTailProperties DEF GetCluster
    <2>2. joining' \in [Workers -> 0..made]
      BY <2>1, <1>1 DEF JoinCheck
    <2> QED
      BY <2>2, <1>1 DEF JoinCheck
  <1>2. CASE JoinRegister(w)
    BY <1>2 DEF JoinRegister
  <1>3. CASE RemoveWorker(w)
    BY <1>3 DEF RemoveWorker
  <1> QED
    BY <1>1, <1>2, <1>3

LEMMA DestroyDomains ==
    ASSUME DomainsOK, NEW d \in DestroyRequests,
           \/ DestroyCheck(d) \/ DestroyList(d) \/ DestroyCluster(d)
           \/ \E m \in Cluster \cup Workers : DestroyNode(d, m)
    PROVE  DomainsOK'
  <1> USE MembershipAssumptions DEF DomainsOK, CreatedFirst, MemberTypeOK
  <1>1. CASE DestroyCheck(d)
    BY <1>1 DEF DestroyCheck
  <1>2. CASE DestroyList(d)
    <2>1. controller \cup {w \in Workers : member[w] # None}
            \subseteq (1..made) \cup Workers
      OBVIOUS
    <2>2. toRemove' \in [DestroyRequests -> SUBSET ((1..made) \cup Workers)]
      BY <2>1, <1>2 DEF DestroyList
    <2>3. destroyStep' \in [DestroyRequests -> {"idle", "list", "nodes"}]
      BY <1>2 DEF DestroyList
    <2> QED
      BY <2>2, <2>3, <1>2 DEF DestroyList
  <1>3. CASE DestroyCluster(d)
    <2>1. rows' = rows \/ rows' = <<>>
      BY <1>3 DEF DestroyCluster, DeleteCluster
    <2>2. <<>> \in Seq(1..made)
      OBVIOUS
    <2>3. rows' \in Seq(1..made)
      BY <2>1, <2>2
    <2>4. UNCHANGED <<enforced, busy, made, controller, member, accounts, initStep,
                      initOf, joining, toRemove, creating, answered>>
          /\ destroyStep' = [destroyStep EXCEPT ![d] = "idle"]
      BY <1>3 DEF DestroyCluster
    <2> QED
      BY <2>3, <2>4
  <1>4. ASSUME NEW m \in Cluster \cup Workers, DestroyNode(d, m)
        PROVE  DomainsOK'
    <2>1. member' \in [Workers -> 0..made]
      BY <1>4 DEF DestroyNode
    <2>2. toRemove' \in [DestroyRequests -> SUBSET ((1..made) \cup Workers)]
      BY <1>4 DEF DestroyNode
    <2> QED
      BY <2>1, <2>2, <1>4 DEF DestroyNode
  <1> QED
    BY <1>1, <1>2, <1>3, <1>4

LEMMA AccountDomains ==
    ASSUME DomainsOK, NEW u \in Users,
           CreateUserCheck(u) \/ CreateUserInsert(u) \/ HandleDeleteUser(u)
    PROVE  DomainsOK'
  <1> USE MembershipAssumptions DEF DomainsOK, CreatedFirst, MemberTypeOK
  <1>1. CASE CreateUserCheck(u)
    BY <1>1 DEF CreateUserCheck
  <1>2. CASE CreateUserInsert(u)
    BY <1>2 DEF CreateUserInsert, CreateUser
  <1>3. CASE HandleDeleteUser(u)
    BY <1>3 DEF HandleDeleteUser
  <1> QED
    BY <1>1, <1>2, <1>3

LEMMA DomainsStep == DomainsOK /\ [MemberNext]_memberVars => DomainsOK'
  <1> SUFFICES ASSUME DomainsOK, [MemberNext]_memberVars PROVE DomainsOK'
    OBVIOUS
  <1>1. CASE MemberRestart
    BY <1>1, MembershipAssumptions
    DEF MemberRestart, DomainsOK, CreatedFirst, MemberTypeOK
  <1>2. CASE UNCHANGED memberVars
    BY <1>2 DEF DomainsOK, CreatedFirst, MemberTypeOK
  <1> QED
    BY <1>1, <1>2, InitDomains, WorkerDomains, DestroyDomains, AccountDomains
    DEF MemberNext

\* Every row of cluster and every reference to one is of a cluster that was
\* created, whatever handlers a restart leaves half done.
THEOREM MemberTypeCorrect == MemberSpec => []MemberTypeOK
  <1>1. DomainsOK => MemberTypeOK
    BY DEF DomainsOK
  <1> QED
    BY <1>1, DomainsInit, DomainsStep, PTL DEF MemberSpec

-----------------------------------------------------------------------------
(* The administrator's account. *)

\* AdminOnceAnswered holds because a name has at most one row: an insertion that
\* finds a row leaves it.
AdminInv == accounts \in [Users -> {0, 1}] /\ AdminOnceAnswered

LEMMA AdminStep == AdminInv /\ [MemberNext]_memberVars => AdminInv'
  <1> SUFFICES ASSUME AdminInv, [MemberNext]_memberVars PROVE AdminInv'
    OBVIOUS
  <1> USE MembershipAssumptions DEF AdminInv, AdminOnceAnswered
  <1>1. ASSUME NEW r \in InitRequests, InitAdmin(r)
        PROVE  AdminInv'
    BY <1>1 DEF InitAdmin, CreateUser
  <1>2. ASSUME NEW u \in Users, CreateUserInsert(u)
        PROVE  AdminInv'
    BY <1>2 DEF CreateUserInsert, CreateUser
  <1>3. ASSUME NEW u \in Users, HandleDeleteUser(u)
        PROVE  AdminInv'
    BY <1>3 DEF HandleDeleteUser
  <1>4. CASE UNCHANGED <<accounts, answered>>
    BY <1>4
  <1> QED
    BY <1>1, <1>2, <1>3, <1>4
    DEF MemberNext, InitCheck, InitCreate, InitRegister, JoinCheck, JoinRegister,
        RemoveWorker, DestroyCheck, DestroyList, DestroyCluster, DestroyNode,
        CreateUserCheck,
        MemberRestart

\* Once an init was answered the administrator can log in, through overlapping
\* inits, users created and deleted, destroys and restarts.
THEOREM AdminOnceAnsweredHolds == MemberSpec => []AdminOnceAnswered
  <1>1. MemberInit => AdminInv
    BY DEF MemberInit, AdminInv, AdminOnceAnswered
  <1>2. AdminInv => AdminOnceAnswered
    BY DEF AdminInv
  <1> QED
    BY <1>1, <1>2, AdminStep, PTL DEF MemberSpec

-----------------------------------------------------------------------------
(* The number of clusters. *)

Creating == {r \in InitRequests : initStep[r] = "create"}

\* A request that has not yet created its cluster counts as one.
ClustersInv == Len(rows) + Cardinality(Creating) <= Cardinality(InitRequests)

LEMMA CreatingFinite ==
    /\ IsFiniteSet(InitRequests) /\ Cardinality(InitRequests) \in Nat
    /\ IsFiniteSet(Creating) /\ Cardinality(Creating) \in Nat
    /\ Cardinality(Creating) <= Cardinality(InitRequests)
    /\ IsFiniteSet(Creating') /\ Cardinality(Creating') \in Nat
  <1>1. Creating \subseteq InitRequests /\ Creating' \subseteq InitRequests
    BY DEF Creating
  <1> QED
    BY <1>1, MembershipAssumptions, FS_Subset, FS_CardinalityType

LEMMA ClustersStep ==
    DomainsOK /\ ClustersInv /\ [MemberNext]_memberVars => ClustersInv'
  <1> SUFFICES ASSUME DomainsOK, ClustersInv, [MemberNext]_memberVars
               PROVE  ClustersInv'
    OBVIOUS
  <1>0. rows \in Seq(1..made) /\ Len(rows) \in Nat
        /\ initStep \in [InitRequests -> {"idle", "create", "register", "admin"}]
    BY DEF DomainsOK, MemberTypeOK
  <1>1. ASSUME NEW r \in InitRequests, InitCheck(r)
        PROVE  ClustersInv'
    <2>1. rows = <<>> /\ rows' = <<>>
      <3>1. rows # <<>> => Head(rows) \in 1..made
        BY <1>0, HeadTailProperties
      <3>2. rows # <<>> => Head(rows) # 0
        BY <3>1
      <3> QED
        BY <3>2, <1>1 DEF InitCheck, GetCluster
    <2>2. Creating' \subseteq InitRequests
      BY DEF Creating
    <2>3. Cardinality(Creating') <= Cardinality(InitRequests)
      BY <2>2, MembershipAssumptions, FS_Subset
    <2> QED
      BY <2>1, <2>3, CreatingFinite DEF ClustersInv
  <1>2. ASSUME NEW r \in InitRequests, InitCreate(r)
        PROVE  ClustersInv'
    <2>1. Len(rows') = Len(rows) + 1
      BY <1>0, <1>2 DEF InitCreate
    <2>2. Creating' = Creating \ {r} /\ r \in Creating
      BY <1>0, <1>2 DEF InitCreate, Creating
    <2>3. Cardinality(Creating') = Cardinality(Creating) - 1
      BY <2>2, CreatingFinite, FS_RemoveElement
    <2> QED
      BY <1>0, <2>1, <2>3, CreatingFinite DEF ClustersInv
  <1>3. ASSUME NEW d \in DestroyRequests, DestroyCluster(d)
        PROVE  ClustersInv'
    <2>1. rows' = rows \/ rows' = <<>>
      BY <1>3 DEF DestroyCluster, DeleteCluster
    <2>2. Creating' = Creating
      BY <1>3 DEF DestroyCluster, Creating
    <2> QED
      BY <1>0, <2>1, <2>2, CreatingFinite DEF ClustersInv
  <1>4. ASSUME UNCHANGED rows, Creating' \subseteq Creating
        PROVE  ClustersInv'
    <2>1. Cardinality(Creating') <= Cardinality(Creating)
      BY <1>4, CreatingFinite, FS_Subset
    <2> QED
      BY <1>0, <1>4, <2>1, CreatingFinite DEF ClustersInv
  <1>5. ASSUME NEW r \in InitRequests, InitRegister(r) \/ InitAdmin(r)
        PROVE  ClustersInv'
    BY <1>0, <1>4, <1>5 DEF InitRegister, InitAdmin, Creating
  <1>6. CASE MemberRestart
    BY <1>4, <1>6 DEF MemberRestart, Creating
  <1>7. CASE UNCHANGED <<rows, initStep>>
    BY <1>4, <1>7 DEF Creating
  <1> QED
    BY <1>1, <1>2, <1>3, <1>5, <1>6, <1>7
    DEF MemberNext, JoinCheck, JoinRegister, RemoveWorker, DestroyCheck, DestroyList,
        DestroyNode, CreateUserCheck, CreateUserInsert, HandleDeleteUser

\* Init requests check before they create, with nothing held in between: there
\* are still never more clusters than requests that can overlap.
THEOREM ClustersBoundedHolds == MemberSpec => []ClustersBounded
  <1>1. MemberInit => ClustersInv
    <2> SUFFICES ASSUME MemberInit PROVE ClustersInv
      OBVIOUS
    <2>1. rows = <<>> /\ Len(rows) = 0
      BY DEF MemberInit
    <2> QED
      BY <2>1, CreatingFinite DEF ClustersInv
  <1>2. DomainsOK /\ ClustersInv => ClustersBounded
    BY CreatingFinite DEF ClustersInv, ClustersBounded, DomainsOK, MemberTypeOK
  <1> QED
    BY <1>1, <1>2, DomainsInit, DomainsStep, ClustersStep, PTL DEF MemberSpec
=============================================================================

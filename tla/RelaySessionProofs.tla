------------------------ MODULE RelaySessionProofs ------------------------
(***************************************************************************)
(* For every set of identities, keys, epochs and sizes, and every bound:    *)
(* RelaySession keeps its type and its safety invariants, and implements     *)
(* MessageFeed.  One inductive invariant per group of variables; the later   *)
(* ones use the earlier ones.                                               *)
(***************************************************************************)
EXTENDS RelaySession, FiniteSetTheorems, WellFoundedInduction, TLAPS

(* A nonempty set of natural numbers has a smallest element. *)
LEMMA SmallestOf ==
    ASSUME NEW S \in SUBSET Nat, S # {}
    PROVE  \E m \in S : \A n \in S : m <= n
<1>1. IsWellFoundedOn(OpToRel(<, Nat), Nat)
  BY NatLessThanWellFounded
<1>2. PICK m \in S : \A n \in S : ~ (<<n, m>> \in OpToRel(<, Nat))
  BY <1>1, WFMin
<1>3. \A n \in S : ~ (n < m)
  BY <1>2 DEF OpToRel
<1> QED
  BY <1>3

(* A nonempty set of numbers up to k has a largest one, the one MaxOf picks. *)
LEMMA MaxOfBounded ==
    ASSUME NEW k \in Nat, NEW S \in SUBSET (0..k), S # {}
    PROVE  MaxOf(S) \in S /\ \A n \in S : n <= MaxOf(S)
<1> DEFINE T == {k - n : n \in S}
<1>1. T \in SUBSET Nat
  OBVIOUS
<1>2. T # {}
  OBVIOUS
<1>3. PICK t \in T : \A u \in T : t <= u
  BY <1>1, <1>2, SmallestOf
<1>4. PICK m \in S : t = k - m
  BY <1>3
<1>5. \A n \in S : n <= m
  <2> SUFFICES ASSUME NEW n \in S PROVE n <= m
    OBVIOUS
  <2>1. t <= k - n
    BY <1>3
  <2> QED
    BY <2>1, <1>4
<1> QED
  BY <1>5 DEF MaxOf

(* The cursor a poll returns is the caller's own or the number of a message. *)
LEMMA CursorAfterType ==
    ASSUME DOMAIN msg \subseteq 0..MaxSeq, MaxSeq \in Nat, NEW c \in 0..MaxSeq
    PROVE  /\ CursorAfter(c) \in 0..MaxSeq
           /\ CursorAfter(c) = c \/ CursorAfter(c) \in DOMAIN msg
           /\ c <= CursorAfter(c)
           /\ \A n \in DOMAIN msg : n <= CursorAfter(c)
<1>1. CASE After(c) = {}
  <2>1. CursorAfter(c) = c
    BY <1>1 DEF CursorAfter
  <2> QED
    BY <2>1, <1>1 DEF After
<1>2. CASE After(c) # {}
  <2>1. After(c) \in SUBSET (0..MaxSeq)
    BY DEF After
  <2>2. MaxOf(After(c)) \in After(c) /\ \A n \in After(c) : n <= MaxOf(After(c))
    BY <2>1, <1>2, MaxOfBounded
  <2>3. CursorAfter(c) = MaxOf(After(c))
    BY <1>2 DEF CursorAfter
  <2>4. CursorAfter(c) \in DOMAIN msg /\ CursorAfter(c) > c
    BY <2>2, <2>3 DEF After
  <2>5. ASSUME NEW n \in DOMAIN msg PROVE n <= CursorAfter(c)
    <3>1. CASE n > c
      BY <3>1, <2>2, <2>3 DEF After
    <3>2. CASE ~(n > c)
      BY <3>2, <2>4
    <3> QED
      BY <3>1, <3>2
  <2> QED
    BY <2>4, <2>5
<1> QED
  BY <1>1, <1>2

-----------------------------------------------------------------------------
(* Type correctness: every put of every handler stores a value of its type. *)
LEMMA TypeInit == Init => TypeOK
<1> SUFFICES ASSUME Init PROVE TypeOK
  OBVIOUS
<1>1. msg \in [DOMAIN msg -> Fingerprint] /\ DOMAIN msg = {}
  BY DEF Init
<1>2. handler \in Handler /\ handler = Idle
  BY DEF Init, Handler
<1>3. snap \in [epoch : Nat, members : SUBSET Fingerprint] /\ snap.members = {}
  BY DEF Init
<1>4. /\ seq \in 0..MaxSeq
      /\ joinedSeq \in [Fingerprint -> -1..MaxSeq]
      /\ cursor \in [Fingerprint -> 0..MaxSeq]
      /\ crashes \in 0..MaxCrash
  BY RelayAssumption DEF Init
<1>5. gkey \in [Epoch \X Fingerprint -> GroupKey \cup {NoKey}]
  BY DEF Init
<1>6. /\ got \in [Fingerprint -> SUBSET ((0..MaxSeq) \X Fingerprint)]
      /\ batch \in [Fingerprint -> SUBSET ((0..MaxSeq) \X Fingerprint)]
  BY DEF Init
<1> QED
  BY <1>1, <1>2, <1>3, <1>4, <1>5, <1>6 DEF Init, TypeOK

LEMMA JoinedMetaType ==
    ASSUME meta \in Meta
    PROVE  /\ JoinedMeta \in Meta
           /\ JoinedMeta.epoch = meta.epoch + 1
           /\ JoinedMeta.maxMembers = meta.maxMembers
           /\ JoinedMeta.creatorId = meta.creatorId
           /\ JoinedMeta.locked = (meta.locked \/ Cardinality(Members) >= meta.maxMembers)
<1> DEFINE full == meta.locked \/ Cardinality(Members) >= meta.maxMembers
<1>1. full \in BOOLEAN
  OBVIOUS
<1>2. JoinedMeta = [meta EXCEPT !.epoch = @ + 1, !.locked = full]
  BY DEF JoinedMeta
<1> HIDE DEF full
<1>3. JoinedMeta \in Meta
  <2>1. JoinedMeta = [maxMembers |-> meta.maxMembers, locked |-> full,
                      epoch |-> meta.epoch + 1, creatorId |-> meta.creatorId]
    BY <1>2 DEF Meta
  <2>2. meta.maxMembers \in Nat /\ meta.epoch + 1 \in Nat /\ meta.creatorId \in Fingerprint
    BY DEF Meta
  <2> QED
    BY <1>1, <2>1, <2>2 DEF Meta
<1>4. /\ JoinedMeta.epoch = meta.epoch + 1
      /\ JoinedMeta.maxMembers = meta.maxMembers
      /\ JoinedMeta.creatorId = meta.creatorId
  BY <1>2 DEF Meta
<1>5. JoinedMeta.locked = full
  BY <1>1, <1>2 DEF Meta
<1> QED
  BY <1>3, <1>4, <1>5 DEF full

LEMMA TypeStep == TypeOK /\ [Next]_vars => TypeOK'
<1> SUFFICES ASSUME TypeOK, [Next]_vars PROVE TypeOK'
  OBVIOUS
<1> USE RelayAssumption
<1>1. ASSUME NEW fp \in Fingerprint, NEW n \in Size, InitMeta(fp, n) PROVE TypeOK'
  <2>1. meta' \in Meta
    BY <1>1 DEF InitMeta, Meta
  <2>2. handler' \in Handler
    BY <1>1 DEF InitMeta, Handler
  <2> QED
    BY <1>1, <2>1, <2>2 DEF TypeOK, InitMeta, Created, callers, history
<1>2. CASE InitMember
  BY <1>2 DEF TypeOK, InitMember, Created, Meta, Handler, Idle, callers, history
<1>3. CASE InitToken
  BY <1>3 DEF TypeOK, InitToken, Created, Handler, callers, history
<1>4. ASSUME NEW fp \in Fingerprint, JoinMember(fp) PROVE TypeOK'
  BY <1>4 DEF TypeOK, JoinMember, MayJoin, Created, Handler, callers, history
<1>5. CASE JoinMeta
  <2>1. meta \in Meta
    BY <1>5 DEF TypeOK, JoinMeta, Idle, Created
  <2>2. JoinedMeta \in Meta
    BY <2>1, JoinedMetaType
  <2> QED
    BY <1>5, <2>2 DEF TypeOK, JoinMeta, Handler, Created, callers, history
<1>6. ASSUME NEW fp \in Fingerprint, PostSeq(fp) PROVE TypeOK'
  BY <1>6 DEF TypeOK, PostSeq, Created, Handler, callers, history
<1>7. CASE PostMsg
  BY <1>7 DEF TypeOK, PostMsg, Created, Handler, Idle, callers
<1>8. ASSUME NEW fp \in Fingerprint, GetMessages(fp) PROVE TypeOK'
  BY <1>8, CursorAfterType DEF TypeOK, GetMessages, Created, store, After
<1>9. ASSUME NEW fp \in Fingerprint, Status(fp) PROVE TypeOK'
  BY <1>9 DEF TypeOK, Status, Created, Members, store, history
<1>10. ASSUME NEW fp \in Fingerprint, NEW gk \in GroupKey, PostKeys(fp, gk) PROVE TypeOK'
  BY <1>10 DEF TypeOK, PostKeys, Created, Handler, store, callers, history
<1>11. ASSUME NEW fp \in Fingerprint, PostWrap(fp) PROVE TypeOK'
  <2>1. handler \in [at : {"postWraps"}, epoch : Epoch, key : GroupKey,
                      all : SUBSET Fingerprint, left : SUBSET Fingerprint]
    BY <1>11 DEF TypeOK, PostWrap, Handler, Idle
  <2>2. handler' \in Handler /\ handler # Idle
    BY <1>11, <2>1 DEF PostWrap, Handler, Idle
  <2>3. gkey' \in [Epoch \X Fingerprint -> GroupKey \cup {NoKey}]
    BY <1>11, <2>1 DEF TypeOK, PostWrap
  <2> QED
    BY <1>11, <2>2, <2>3 DEF TypeOK, PostWrap, Created, callers, history
<1>12. CASE KeysPosted
  BY <1>12 DEF TypeOK, KeysPosted, Created, Handler, store, callers
<1>13. CASE Crash
  BY <1>13 DEF TypeOK, Crash, Created, Handler, Idle, store, callers
<1>14. CASE UNCHANGED vars
  BY <1>14 DEF TypeOK, Created, vars, store, callers, history
<1> QED
  BY <1>1, <1>2, <1>3, <1>4, <1>5, <1>6, <1>7, <1>8, <1>9, <1>10, <1>11, <1>12,
     <1>13, <1>14 DEF Next

(* Every reachable state is well typed, for every value of the constants. *)
THEOREM TypeCorrect == Spec => []TypeOK
BY TypeInit, TypeStep, PTL DEF Spec

-----------------------------------------------------------------------------
(* Messages: the numbers in the store stop at seq, a handler about to store one
   owns a number nobody has seen, and each poller has got the messages up to its
   cursor, which is the number of a message. *)
MsgInv ==
    /\ DOMAIN msg \subseteq 1..seq
    /\ handler.at = "postMsg" => seq \notin DOMAIN msg /\ seq > 0
    /\ \A fp \in Fingerprint : cursor[fp] = 0 \/ cursor[fp] \in DOMAIN msg
    /\ \A fp \in Fingerprint :
          got[fp] = {<<n, msg[n]>> : n \in {k \in DOMAIN msg : k <= cursor[fp]}}
    /\ AckedPostsKept

LEMMA MsgInit == Init => MsgInv
BY DEF Init, MsgInv, AckedPostsKept, Idle

LEMMA MsgStep == TypeOK /\ MsgInv /\ [Next]_vars => MsgInv'
<1> SUFFICES ASSUME TypeOK, MsgInv, [Next]_vars PROVE MsgInv'
  OBVIOUS
<1> USE RelayAssumption
<1>1. ASSUME NEW fp \in Fingerprint, PostSeq(fp) PROVE MsgInv'
  BY <1>1 DEF TypeOK, MsgInv, AckedPostsKept, PostSeq, callers, history
<1>2. CASE PostMsg
  <2>1. /\ seq \notin DOMAIN msg /\ seq > 0
        /\ DOMAIN msg' = DOMAIN msg \cup {seq}
        /\ msg'[seq] = handler.by
        /\ \A n \in DOMAIN msg : msg'[n] = msg[n]
    BY <1>2 DEF MsgInv, PostMsg
  <2>2. (DOMAIN msg \subseteq 1..seq)'
    BY <1>2, <2>1 DEF TypeOK, MsgInv, PostMsg
  <2>3. handler'.at # "postMsg"
    BY <1>2 DEF PostMsg, Idle
  <2>4. ASSUME NEW fp \in Fingerprint
        PROVE  /\ cursor'[fp] = cursor[fp] /\ got'[fp] = got[fp]
               /\ cursor'[fp] = 0 \/ cursor'[fp] \in DOMAIN msg'
               /\ {k \in DOMAIN msg' : k <= cursor'[fp]} = {k \in DOMAIN msg : k <= cursor[fp]}
    <3>1. cursor'[fp] = cursor[fp] /\ got'[fp] = got[fp]
      BY <1>2 DEF PostMsg, callers
    <3>2. ~(seq <= cursor[fp])
      <4>1. cursor[fp] = 0 \/ cursor[fp] \in 1..seq
        BY DEF MsgInv
      <4>2. seq \in Nat
        BY DEF TypeOK
      <4> QED
        BY <2>1, <4>1, <4>2 DEF MsgInv
    <3> QED
      BY <3>1, <3>2, <2>1 DEF MsgInv
  <2>5. AckedPostsKept'
    BY <1>2, <2>1 DEF MsgInv, AckedPostsKept, PostMsg
  <2>6. ASSUME NEW fp \in Fingerprint
        PROVE  got'[fp] = {<<n, msg'[n]>> : n \in {k \in DOMAIN msg' : k <= cursor'[fp]}}
    <3>1. got[fp] = {<<n, msg[n]>> : n \in {k \in DOMAIN msg : k <= cursor[fp]}}
      BY DEF MsgInv
    <3> QED
      BY <2>1, <2>4, <3>1
  <2> QED
    BY <2>2, <2>3, <2>4, <2>5, <2>6 DEF MsgInv
<1>3. ASSUME NEW fp \in Fingerprint, GetMessages(fp) PROVE MsgInv'
  <2> DEFINE c == cursor[fp]
             d == CursorAfter(c)
  <2>1. /\ d = c \/ d \in DOMAIN msg
        /\ c <= d /\ c \in 0..MaxSeq /\ d \in 0..MaxSeq
        /\ \A n \in DOMAIN msg : n <= d
    BY CursorAfterType DEF TypeOK
  <2>2. /\ cursor' = [cursor EXCEPT ![fp] = d]
        /\ got' = [got EXCEPT ![fp] = @ \cup {<<n, msg[n]>> : n \in After(c)}]
        /\ UNCHANGED <<msg, seq, handler, acked>>
    BY <1>3 DEF GetMessages, store
  <2> HIDE DEF d
  <2>3. After(c) = {k \in DOMAIN msg : k > c}
    BY DEF After
  <2>4. {k \in DOMAIN msg : k <= d} = {k \in DOMAIN msg : k <= c} \cup After(c)
    BY <2>1, <2>3 DEF TypeOK
  <2>5. got'[fp] = {<<n, msg[n]>> : n \in {k \in DOMAIN msg : k <= d}}
    <3>1. got'[fp] = got[fp] \cup {<<n, msg[n]>> : n \in After(c)}
      BY <2>2 DEF TypeOK
    <3>2. got[fp] = {<<n, msg[n]>> : n \in {k \in DOMAIN msg : k <= c}}
      BY DEF MsgInv
    <3> QED
      BY <2>4, <3>1, <3>2
  <2>6. ASSUME NEW g \in Fingerprint
        PROVE  /\ cursor'[g] = 0 \/ cursor'[g] \in DOMAIN msg'
               /\ got'[g] = {<<n, msg'[n]>> : n \in {k \in DOMAIN msg' : k <= cursor'[g]}}
    <3>1. CASE g = fp
      BY <2>1, <2>2, <2>5, <3>1 DEF MsgInv, TypeOK
    <3>2. CASE g # fp
      BY <2>2, <3>2 DEF MsgInv, TypeOK
    <3> QED
      BY <3>1, <3>2
  <2> QED
    BY <2>2, <2>6 DEF MsgInv, AckedPostsKept
<1>4. ASSUME UNCHANGED <<seq, msg, cursor, got, acked>>,
             handler'.at = "postMsg" => handler = handler'
      PROVE  MsgInv'
  BY <1>4 DEF MsgInv, AckedPostsKept
<1>5. ASSUME NEW fp \in Fingerprint, NEW n \in Size, InitMeta(fp, n) PROVE MsgInv'
  BY <1>5, <1>4 DEF InitMeta, callers, history
<1>6. CASE InitMember
  BY <1>6, <1>4 DEF InitMember, callers, history
<1>7. CASE InitToken
  BY <1>7, <1>4 DEF InitToken, Idle, callers, history
<1>8. ASSUME NEW fp \in Fingerprint, JoinMember(fp) PROVE MsgInv'
  BY <1>8, <1>4 DEF JoinMember, callers, history
<1>9. CASE JoinMeta
  BY <1>9, <1>4 DEF JoinMeta, Idle, callers, history
<1>10. ASSUME NEW fp \in Fingerprint, Status(fp) PROVE MsgInv'
  BY <1>10, <1>4 DEF Status, store, history
<1>11. ASSUME NEW fp \in Fingerprint, NEW gk \in GroupKey, PostKeys(fp, gk) PROVE MsgInv'
  BY <1>11, <1>4 DEF PostKeys, store, callers, history
<1>12. ASSUME NEW fp \in Fingerprint, PostWrap(fp) PROVE MsgInv'
  <2>1. handler'.at = "postWraps"
    BY <1>12 DEF PostWrap, TypeOK, Handler, Idle
  <2> QED
    BY <1>12, <1>4, <2>1 DEF PostWrap, callers, history
<1>13. CASE KeysPosted
  BY <1>13, <1>4 DEF KeysPosted, Idle, store, callers
<1>14. CASE Crash
  BY <1>14, <1>4 DEF Crash, Idle, store, callers
<1>15. CASE UNCHANGED vars
  BY <1>15, <1>4 DEF vars, store, callers, history
<1> QED
  BY <1>1, <1>2, <1>3, <1>5, <1>6, <1>7, <1>8, <1>9, <1>10, <1>11, <1>12,
     <1>13, <1>14, <1>15 DEF Next

LEMMA MsgInvariant == Spec => []MsgInv
BY TypeCorrect, MsgInit, MsgStep, PTL DEF Spec

(* A post that was answered with a number stays stored under that number, however
   many posts, polls and crashes follow (session.ts:174-181). *)
THEOREM AckedPostsAreKept == Spec => []AckedPostsKept
<1>1. MsgInv => AckedPostsKept
  BY DEF MsgInv
<1> QED
  BY <1>1, MsgInvariant, PTL

-----------------------------------------------------------------------------
(* Members: before the creator is registered nobody can be; the member a /join is
   registering is counted by the epoch and by the lock only when its meta is
   written, and never if a crash comes first. *)
MemberInv ==
    /\ ~Created => Members = {} /\ ~token
    /\ handler.at = "initMember" =>
          Members = {} /\ ~token /\ handler.by = meta.creatorId
    /\ handler.at = "initToken" \/ token => meta.creatorId \in Members
    /\ CreatorFirst
    /\ torn \subseteq Members
    /\ Created => meta.creatorId \notin torn /\ meta.maxMembers >= 2
    /\ handler.at = "joinMeta" =>
          /\ handler.by \in Members \ (torn \cup {meta.creatorId})
          /\ ~meta.locked
    /\ EpochCountsJoins
    /\ CapacityRespected
    /\ Created /\ ~meta.locked /\ handler.at # "joinMeta" =>
          Cardinality(Members \ torn) < meta.maxMembers

(* The sets counted are finite. *)
LEMMA MembersFinite ==
    ASSUME NEW S, S \subseteq Fingerprint
    PROVE  IsFiniteSet(S) /\ Cardinality(S) \in Nat
BY RelayAssumption, FS_Subset, FS_CardinalityType

LEMMA MemberInit == Init => MemberInv
BY DEF Init, MemberInv, Members, Created, Idle, CreatorFirst, EpochCountsJoins,
       CapacityRespected

LEMMA MemberStep == TypeOK /\ MemberInv /\ [Next]_vars => MemberInv'
<1> SUFFICES ASSUME TypeOK, MemberInv, [Next]_vars PROVE MemberInv'
  OBVIOUS
<1> USE RelayAssumption
<1>0. Members \subseteq Fingerprint
  BY DEF Members
<1>1. ASSUME NEW fp \in Fingerprint, NEW n \in Size, InitMeta(fp, n) PROVE MemberInv'
  <2>1. /\ Members = {} /\ ~token /\ Members' = {} /\ ~token' /\ torn' = {} /\ torn = {}
        /\ meta'.creatorId = fp /\ meta'.epoch = 0 /\ meta'.maxMembers = n /\ n \in Nat
        /\ n >= 2 /\ handler' = [at |-> "initMember", by |-> fp]
    BY <1>1 DEF InitMeta, MemberInv, Members, callers, history
  <2>2. Welcomed' = {} /\ (Members \ torn)' = {}
    BY <2>1 DEF Welcomed
  <2>3. Cardinality({}) = 0
    BY FS_EmptySet
  <2> QED
    BY <2>1, <2>2, <2>3 DEF MemberInv, Created, CreatorFirst, EpochCountsJoins, CapacityRespected
<1>2. CASE InitMember
  <2> DEFINE c == meta.creatorId
  <2>1. /\ Created /\ Members = {} /\ ~token /\ handler.by = c /\ torn = {}
        /\ c \in Fingerprint /\ meta.maxMembers >= 2 /\ meta.maxMembers \in Nat
    BY <1>2 DEF InitMember, MemberInv, TypeOK, Meta, Created, Idle
  <2>2. /\ Members' = {c} /\ meta' = meta /\ ~token' /\ torn' = {} /\ Created'
        /\ handler' = [at |-> "initToken", by |-> c]
    BY <1>2, <2>1 DEF InitMember, Members, TypeOK, Created, callers, history
  <2>3. Welcomed = {} /\ Welcomed' = {} /\ (Members \ torn)' = {c}
    BY <2>1, <2>2 DEF Welcomed
  <2>4. Cardinality({c}) = 1
    BY FS_Singleton
  <2> QED
    BY <2>1, <2>2, <2>3, <2>4 DEF MemberInv, CreatorFirst, EpochCountsJoins, CapacityRespected
<1>3. CASE InitToken
  <2>1. /\ Members' = Members /\ meta' = meta /\ torn' = torn /\ Created' = Created
        /\ handler' = Idle /\ handler.at = "initToken" /\ Created
    BY <1>3 DEF InitToken, Members, Created, TypeOK, Idle, callers, history
  <2>2. Welcomed' = Welcomed
    BY <2>1 DEF Welcomed, Running, Idle
  <2> QED
    BY <2>1, <2>2 DEF MemberInv, CreatorFirst, EpochCountsJoins, CapacityRespected, Idle
<1>4. ASSUME NEW fp \in Fingerprint, JoinMember(fp) PROVE MemberInv'
  <2>1. /\ Created /\ Created' /\ ~meta.locked /\ token /\ token' /\ fp \notin Members
        /\ meta' = meta /\ torn' = torn /\ handler.at = "idle"
        /\ handler' = [at |-> "joinMeta", by |-> fp]
    BY <1>4 DEF JoinMember, MayJoin, Created, Idle, callers, history
  <2>2. Members' = Members \cup {fp}
    BY <1>4 DEF JoinMember, Members, TypeOK
  <2>3. Welcomed' = Welcomed
    BY <2>1, <2>2 DEF Welcomed, Running
  <2>4. (Members \ torn)' = (Members \ torn) \cup {fp} /\ fp \notin Members \ torn
    BY <2>1, <2>2 DEF MemberInv
  <2>5. Cardinality(Members \ torn) \in Nat /\ IsFiniteSet(Members \ torn)
    BY <1>0, MembersFinite
  <2>6. Cardinality((Members \ torn)') = Cardinality(Members \ torn) + 1
    BY <2>4, <2>5, FS_AddElement
  <2>7. meta.maxMembers \in Nat
    BY <2>1 DEF TypeOK, Meta, Created
  <2>8. CapacityRespected'
    BY <2>1, <2>5, <2>6, <2>7 DEF MemberInv, CapacityRespected
  <2>9. EpochCountsJoins'
    BY <2>1, <2>3 DEF MemberInv, EpochCountsJoins
  <2> QED
    BY <2>1, <2>2, <2>8, <2>9 DEF MemberInv, CreatorFirst
<1>5. CASE JoinMeta
  <2> DEFINE j == handler.by
  <2>1. /\ Created /\ meta \in Meta /\ meta' = JoinedMeta /\ Members' = Members
        /\ torn' = torn /\ handler' = Idle /\ token' = token
        /\ j \in Members \ (torn \cup {meta.creatorId})
        /\ ~meta.locked /\ handler.at = "joinMeta"
    BY <1>5 DEF JoinMeta, MemberInv, Members, TypeOK, Created, Idle, callers, history
  <2>2. /\ meta' \in Meta
        /\ meta'.epoch = meta.epoch + 1 /\ meta'.maxMembers = meta.maxMembers
        /\ meta'.creatorId = meta.creatorId
        /\ meta'.locked = (Cardinality(Members) >= meta.maxMembers)
    BY <2>1, JoinedMetaType
  <2>3. Created'
    BY <2>2 DEF Created
  <2>4. Welcomed' = Welcomed \cup {j} /\ j \notin Welcomed
    BY <2>1, <2>2 DEF Welcomed, Running, Idle
  <2>5. Welcomed \subseteq Fingerprint
    BY <1>0 DEF Welcomed
  <2>6. Cardinality(Welcomed') = Cardinality(Welcomed) + 1
    BY <2>4, <2>5, MembersFinite, FS_AddElement
  <2>7. EpochCountsJoins'
    BY <2>1, <2>2, <2>6 DEF MemberInv, EpochCountsJoins
  <2>8. CapacityRespected'
    BY <2>1, <2>2, <2>3 DEF MemberInv, CapacityRespected
  <2>9. /\ Cardinality(Members) \in Nat /\ Cardinality(Members \ torn) \in Nat
        /\ Cardinality(Members \ torn) <= Cardinality(Members)
    BY <1>0, MembersFinite, FS_Subset
  <2>10. ~meta'.locked => Cardinality(Members \ torn) < meta.maxMembers
    <3>1. meta.maxMembers \in Nat
      BY <2>1 DEF Meta
    <3>2. ~meta'.locked => ~(Cardinality(Members) >= meta.maxMembers)
      BY <2>2, Zenon
    <3>3. ~(Cardinality(Members) >= meta.maxMembers) => Cardinality(Members \ torn) < meta.maxMembers
      BY <2>9, <3>1
    <3> QED
      BY <3>2, <3>3, Zenon
  <2> QED
    BY <2>1, <2>2, <2>3, <2>7, <2>8, <2>10 DEF MemberInv, CreatorFirst, Idle
<1>6. CASE Crash
  <2>1. /\ Members' = Members /\ meta' = meta /\ token' = token /\ Created' = Created
        /\ handler' = Idle /\ Created
    BY <1>6 DEF Crash, Members, Created, TypeOK, store
  <2>2. CASE handler.at # "joinMeta"
    <3>1. torn' = torn /\ Welcomed' = Welcomed
      BY <1>6, <2>1, <2>2 DEF Crash, Welcomed, Running, Idle
    <3> QED
      BY <2>1, <2>2, <3>1 DEF MemberInv, CreatorFirst, EpochCountsJoins, CapacityRespected, Idle
  <2>3. CASE handler.at = "joinMeta"
    <3> DEFINE j == handler.by
    <3>1. torn' = torn \cup {j} /\ j \in Members \ (torn \cup {meta.creatorId})
      BY <1>6, <2>3 DEF Crash, MemberInv
    <3>2. Welcomed' = Welcomed
      BY <2>1, <2>3, <3>1 DEF Welcomed, Running, Idle
    <3>3. (Members \ torn)' = (Members \ torn) \ {j} /\ j \in Members \ torn
      BY <2>1, <3>1
    <3>4. Cardinality(Members \ torn) \in Nat /\ IsFiniteSet(Members \ torn)
      BY <1>0, MembersFinite
    <3>5. Cardinality((Members \ torn)') = Cardinality(Members \ torn) - 1
      BY <3>3, <3>4, FS_RemoveElement
    <3>6. meta.maxMembers \in Nat
      BY <2>1 DEF TypeOK, Meta, Created
    <3>7. Cardinality((Members \ torn)') < meta'.maxMembers
      BY <2>1, <3>4, <3>5, <3>6 DEF MemberInv, CapacityRespected
    <3>8. EpochCountsJoins'
      BY <2>1, <3>2 DEF MemberInv, EpochCountsJoins
    <3>9. CapacityRespected'
      BY <2>1, <3>4, <3>5, <3>6, <3>7 DEF MemberInv, CapacityRespected
    <3> QED
      BY <2>1, <3>1, <3>7, <3>8, <3>9 DEF MemberInv, CreatorFirst, Idle
  <2> QED
    BY <2>2, <2>3
<1>7. ASSUME UNCHANGED <<meta, joinedSeq, token, torn>>,
             handler.at \notin {"initMember", "initToken", "joinMeta"},
             handler'.at \notin {"initMember", "initToken", "joinMeta"}
      PROVE  MemberInv'
  <2>1. Members' = Members /\ Created' = Created
    BY <1>7 DEF Members, Created
  <2>2. Welcomed' = Welcomed
    BY <1>7, <2>1 DEF Welcomed, Running
  <2> QED
    BY <1>7, <2>1, <2>2 DEF MemberInv, CreatorFirst, EpochCountsJoins, CapacityRespected
<1>8. ASSUME NEW fp \in Fingerprint, PostSeq(fp) PROVE MemberInv'
  BY <1>8, <1>7 DEF PostSeq, Idle, callers, history
<1>9. CASE PostMsg
  BY <1>9, <1>7 DEF PostMsg, Idle, callers
<1>10. ASSUME NEW fp \in Fingerprint, GetMessages(fp) PROVE MemberInv'
  BY <1>10, <1>7 DEF GetMessages, Idle, store
<1>11. ASSUME NEW fp \in Fingerprint, Status(fp) PROVE MemberInv'
  BY <1>11, <1>7 DEF Status, Idle, store, history
<1>12. ASSUME NEW fp \in Fingerprint, NEW gk \in GroupKey, PostKeys(fp, gk) PROVE MemberInv'
  BY <1>12, <1>7 DEF PostKeys, Idle, store, callers, history
<1>13. ASSUME NEW fp \in Fingerprint, PostWrap(fp) PROVE MemberInv'
  <2>1. handler'.at = "postWraps"
    BY <1>13 DEF PostWrap, TypeOK, Handler, Idle
  <2> QED
    BY <1>13, <1>7, <2>1 DEF PostWrap, callers, history
<1>14. CASE KeysPosted
  BY <1>14, <1>7 DEF KeysPosted, Idle, store, callers
<1>15. CASE UNCHANGED vars
  <2>1. Members' = Members /\ Created' = Created /\ Welcomed' = Welcomed
    BY <1>15 DEF vars, store, callers, history, Members, Created, Welcomed, Running
  <2> QED
    BY <1>15, <2>1 DEF vars, store, callers, history, MemberInv, CreatorFirst,
                       EpochCountsJoins, CapacityRespected
<1> QED
  BY <1>1, <1>2, <1>3, <1>4, <1>5, <1>6, <1>8, <1>9, <1>10, <1>11, <1>12, <1>13,
     <1>14, <1>15 DEF Next

LEMMA MemberInvariant == Spec => []MemberInv
BY TypeCorrect, MemberInit, MemberStep, PTL DEF Spec

(* Each answered join made one new epoch, no more and no fewer, whatever other
   joins were cut short (session.ts:147). *)
THEOREM EpochIsJoinCount == Spec => []EpochCountsJoins
<1>1. MemberInv => EpochCountsJoins
  BY DEF MemberInv
<1> QED
  BY <1>1, MemberInvariant, PTL

(* A session never welcomes more members than it was created for
   (session.ts:149). *)
THEOREM CapacityIsRespected == Spec => []CapacityRespected
<1>1. MemberInv => CapacityRespected
  BY DEF MemberInv
<1> QED
  BY <1>1, MemberInvariant, PTL

(* A full session is locked, whatever joins were cut short before
   (session.ts:126). *)
THEOREM FullIsLocked == Spec => []LockedWhenFull
<1>1. TypeOK /\ MemberInv => LockedWhenFull
  <2> SUFFICES ASSUME TypeOK, MemberInv, Created, ~meta.locked
               PROVE  ~(Cardinality(Members \ (torn \cup Running("joinMeta"))) >= meta.maxMembers)
    BY DEF LockedWhenFull
  <2>1. /\ meta.maxMembers \in Nat
        /\ IsFiniteSet(Members \ torn)
        /\ Cardinality(Members \ torn) \in Nat
    BY MembersFinite DEF TypeOK, Created, Meta, Members
  <2>2. CASE handler.at # "joinMeta"
    <3>1. Members \ (torn \cup Running("joinMeta")) = Members \ torn
      BY <2>2 DEF Running
    <3>2. Cardinality(Members \ torn) < meta.maxMembers
      BY <2>2 DEF MemberInv
    <3> QED
      BY <2>1, <3>1, <3>2
  <2>3. CASE handler.at = "joinMeta"
    <3>1. handler.by \in Members \ torn
      BY <2>3 DEF MemberInv
    <3>2. Members \ (torn \cup Running("joinMeta")) = (Members \ torn) \ {handler.by}
      BY <2>3 DEF Running
    <3>3. Cardinality((Members \ torn) \ {handler.by}) = Cardinality(Members \ torn) - 1
      BY <2>1, <3>1, FS_RemoveElement
    <3>4. Cardinality(Members \ torn) <= meta.maxMembers
      BY DEF MemberInv, CapacityRespected
    <3> QED
      BY <2>1, <3>2, <3>3, <3>4
  <2> QED
    BY <2>2, <2>3
<1> QED
  BY <1>1, MemberInvariant, TypeCorrect, PTL

(* Whenever somebody is registered, so is the creator: every joiner finds the
   key-holder its invite commits to (server.ts:191-192). *)
THEOREM CreatorComesFirst == Spec => []CreatorFirst
<1>1. MemberInv => CreatorFirst
  BY DEF MemberInv
<1> QED
  BY <1>1, MemberInvariant, PTL

-----------------------------------------------------------------------------
(* Keys: the holder's last status answer covers every wrap ever stored, because
   epochs and members only grow; so the loop that runs over its members overwrites
   every wrap of its epoch. *)
KeyInv ==
    /\ ~Created => snap.members = {}
    /\ snap.members # {} => snap.epoch <= meta.epoch
    /\ snap.members \subseteq Members
    /\ \A e \in Epoch, f \in Fingerprint : Wrapped(e, f) =>
          /\ snap.members # {}
          /\ e < snap.epoch \/ (e = snap.epoch /\ f \in snap.members)
    /\ handler.at = "postWraps" =>
          /\ handler.epoch = snap.epoch
          /\ handler.all = snap.members
          /\ handler.left \subseteq handler.all
          /\ \A f \in handler.all \ handler.left : gkey[<<handler.epoch, f>>] = handler.key
          /\ handler.left = handler.all /\ handler.epoch \notin tornKeys => OneKey(handler.epoch)
    /\ OneKeyPerEpoch

LEMMA KeyInit == Init => KeyInv
BY DEF Init, KeyInv, Created, Members, Wrapped, OneKeyPerEpoch, Posting, OneKey, Wrapped, Idle

LEMMA KeyStep == TypeOK /\ MemberInv /\ KeyInv /\ [Next]_vars => KeyInv'
<1> SUFFICES ASSUME TypeOK, MemberInv, KeyInv, [Next]_vars PROVE KeyInv'
  OBVIOUS
<1> USE RelayAssumption
<1>1. ASSUME NEW fp \in Fingerprint, Status(fp) PROVE KeyInv'
  <2>1. /\ handler = Idle /\ handler' = Idle /\ Created /\ Created' /\ fp \in Members
        /\ UNCHANGED <<meta, joinedSeq, gkey, tornKeys>> /\ Members' = Members
        /\ snap' = [epoch |-> meta.epoch, members |-> Members]
    BY <1>1 DEF Status, store, history, Members, Created
  <2>2. meta.epoch \in Nat /\ snap.epoch \in Nat
    BY <2>1 DEF TypeOK, Meta, Created
  <2>3. ASSUME NEW e \in Epoch, NEW f \in Fingerprint, Wrapped(e, f)
        PROVE  e < meta.epoch \/ (e = meta.epoch /\ f \in Members)
    <3>1. snap.members # {} /\ (e < snap.epoch \/ (e = snap.epoch /\ f \in snap.members))
      BY <2>3 DEF KeyInv
    <3>2. snap.epoch <= meta.epoch /\ snap.members \subseteq Members
      BY <3>1 DEF KeyInv
    <3>3. e \in Nat
      BY RelayAssumption
    <3>4. CASE e < snap.epoch
      BY <2>2, <3>2, <3>3, <3>4
    <3>5. CASE e = snap.epoch /\ f \in snap.members
      BY <2>2, <3>2, <3>3, <3>5
    <3> QED
      BY <3>1, <3>4, <3>5
  <2>4. \A e \in Epoch : OneKey(e)' <=> OneKey(e)
    BY <2>1 DEF OneKey, Wrapped
  <2>5. OneKeyPerEpoch'
    BY <2>1, <2>4 DEF KeyInv, OneKeyPerEpoch, Posting, Idle
  <2> QED
    BY <2>1, <2>2, <2>3, <2>5 DEF KeyInv, Wrapped, Idle
<1>2. ASSUME NEW fp \in Fingerprint, NEW gk \in GroupKey, PostKeys(fp, gk) PROVE KeyInv'
  <2>1. /\ handler = Idle /\ Created /\ Created' /\ snap' = snap /\ snap.members # {}
        /\ UNCHANGED <<meta, joinedSeq, gkey, tornKeys>> /\ Members' = Members
        /\ handler' = [at |-> "postWraps", epoch |-> snap.epoch, key |-> gk,
                       all |-> snap.members, left |-> snap.members]
    BY <1>2 DEF PostKeys, store, callers, history, Members, Created
  <2>2. snap.epoch \in Epoch
    BY <2>1 DEF TypeOK
  <2>3. snap.epoch \notin tornKeys => OneKey(snap.epoch)
    BY <2>1, <2>2 DEF KeyInv, OneKeyPerEpoch, Posting, OneKey, Wrapped, Idle
  <2>4. OneKeyPerEpoch'
    BY <2>1 DEF KeyInv, OneKeyPerEpoch, Posting, OneKey, Wrapped, Idle
  <2> QED
    BY <2>1, <2>3, <2>4 DEF KeyInv, Wrapped, OneKey
<1>3. ASSUME NEW fp \in Fingerprint, PostWrap(fp) PROVE KeyInv'
  <2> DEFINE e == handler.epoch
  <2>1. /\ handler \in [at : {"postWraps"}, epoch : Epoch, key : GroupKey,
                        all : SUBSET Fingerprint, left : SUBSET Fingerprint]
        /\ handler.at = "postWraps" /\ fp \in handler.left
    BY <1>3 DEF TypeOK, PostWrap, Handler, Idle
  <2>2. /\ handler' = [handler EXCEPT !.left = @ \ {fp}]
        /\ gkey' = [gkey EXCEPT ![<<e, fp>>] = handler.key]
        /\ UNCHANGED <<meta, joinedSeq, snap, tornKeys>>
        /\ Members' = Members /\ Created' = Created
    BY <1>3 DEF PostWrap, callers, history, Members, Created
  <2>3. /\ handler'.at = "postWraps" /\ handler'.epoch = e /\ handler'.key = handler.key
        /\ handler'.all = handler.all /\ handler'.left = handler.left \ {fp}
    BY <2>1, <2>2
  <2>4. /\ gkey'[<<e, fp>>] = handler.key
        /\ \A d \in Epoch, f \in Fingerprint : <<d, f>> # <<e, fp>> => gkey'[<<d, f>>] = gkey[<<d, f>>]
    BY <2>1, <2>2 DEF TypeOK
  <2>5. e = snap.epoch /\ handler.all = snap.members /\ handler.left \subseteq handler.all
        /\ snap.members # {}
    BY <2>1 DEF KeyInv
  <2>6. handler'.left # handler'.all
    BY <2>1, <2>3, <2>5
  <2>7. \A f \in handler'.all \ handler'.left : gkey'[<<e, f>>] = handler.key
    <3> SUFFICES ASSUME NEW f \in handler.all, f \notin handler.left \/ f = fp
                 PROVE  gkey'[<<e, f>>] = handler.key
      BY <2>3
    <3>1. CASE f = fp
      BY <3>1, <2>4
    <3>2. CASE f # fp
      BY <3>2, <2>1, <2>4 DEF KeyInv
    <3> QED
      BY <3>1, <3>2
  <2>8. OneKeyPerEpoch'
    BY <2>1, <2>2, <2>3, <2>4 DEF KeyInv, OneKeyPerEpoch, Posting, OneKey, Wrapped
  <2>9. ASSUME NEW d \in Epoch, NEW f \in Fingerprint, Wrapped(d, f)'
        PROVE  d < snap.epoch \/ (d = snap.epoch /\ f \in snap.members)
    <3>1. CASE <<d, f>> = <<e, fp>>
      BY <3>1, <2>1, <2>5
    <3>2. CASE <<d, f>> # <<e, fp>>
      BY <3>2, <2>4, <2>9 DEF KeyInv, Wrapped
    <3> QED
      BY <3>1, <3>2
  <2> QED
    BY <2>2, <2>3, <2>5, <2>6, <2>7, <2>8, <2>9 DEF KeyInv
<1>4. CASE KeysPosted
  <2> DEFINE e == handler.epoch
  <2>1. /\ handler \in [at : {"postWraps"}, epoch : Epoch, key : GroupKey,
                        all : SUBSET Fingerprint, left : SUBSET Fingerprint]
        /\ handler.at = "postWraps" /\ handler.left = {}
    BY <1>4 DEF TypeOK, KeysPosted, Handler, Idle
  <2>2. /\ handler' = Idle /\ UNCHANGED <<meta, joinedSeq, snap, gkey>>
        /\ tornKeys' = tornKeys \ {e}
        /\ Members' = Members /\ Created' = Created
    BY <1>4 DEF KeysPosted, store, callers, Members, Created
  <2>3. OneKey(e)
    <3>1. \A f \in Fingerprint : Wrapped(e, f) => f \in snap.members
      BY <2>1 DEF KeyInv, TypeOK
    <3>2. \A f \in Fingerprint : Wrapped(e, f) => gkey[<<e, f>>] = handler.key
      BY <2>1, <3>1 DEF KeyInv
    <3> QED
      BY <3>2 DEF OneKey
  <2>4. \A d \in Epoch : OneKey(d)' <=> OneKey(d)
    BY <2>2 DEF OneKey, Wrapped
  <2>5. OneKeyPerEpoch'
    <3> SUFFICES ASSUME NEW d \in Epoch, d \notin tornKeys' PROVE OneKey(d)'
      BY DEF OneKeyPerEpoch
    <3>1. CASE d = e
      BY <2>3, <2>4, <3>1
    <3>2. CASE d # e
      BY <2>2, <2>4, <3>2 DEF KeyInv, OneKeyPerEpoch, Posting
    <3> QED
      BY <3>1, <3>2
  <2> QED
    BY <2>2, <2>5 DEF KeyInv, Wrapped, Idle
<1>5. CASE Crash
  <2>1. /\ handler' = Idle /\ UNCHANGED <<meta, joinedSeq, snap, gkey>>
        /\ Members' = Members /\ Created' = Created
        /\ tornKeys' = IF handler.at = "postWraps" /\ handler.left # handler.all
                         THEN tornKeys \cup {handler.epoch} ELSE tornKeys
    BY <1>5 DEF Crash, store, callers, Members, Created
  <2>2. OneKeyPerEpoch'
    <3>1. CASE handler.at = "postWraps" /\ handler.left = handler.all
      BY <2>1, <3>1 DEF KeyInv, OneKeyPerEpoch, Posting, OneKey, Wrapped, Idle
    <3>2. CASE handler.at = "postWraps" /\ handler.left # handler.all
      BY <2>1, <3>2 DEF KeyInv, OneKeyPerEpoch, Posting, OneKey, Wrapped, Idle
    <3>3. CASE handler.at # "postWraps"
      <4>1. tornKeys' = tornKeys /\ gkey' = gkey
        BY <2>1, <3>3
      <4>2. \A d \in Epoch \ tornKeys : OneKey(d)
        BY <3>3 DEF KeyInv, OneKeyPerEpoch, Posting
      <4>3. \A d \in Epoch \ tornKeys : OneKey(d)'
        BY <4>1, <4>2 DEF OneKey, Wrapped
      <4> QED
        BY <4>1, <4>3 DEF OneKeyPerEpoch
    <3> QED
      BY <3>1, <3>2, <3>3
  <2> QED
    BY <2>1, <2>2 DEF KeyInv, Wrapped, Idle
<1>6. ASSUME UNCHANGED <<snap, gkey, tornKeys>>,
             handler.at # "postWraps", handler'.at # "postWraps",
             Created => Created', Members \subseteq Members',
             Created => meta.epoch <= meta'.epoch /\ meta'.epoch \in Nat
      PROVE  KeyInv'
  <2>1. OneKeyPerEpoch'
    BY <1>6 DEF KeyInv, OneKeyPerEpoch, Posting, OneKey, Wrapped
  <2>2. Created => meta.epoch \in Nat /\ snap.epoch \in Nat
    BY DEF TypeOK, Meta, Created
  <2>3. (snap.members # {} => snap.epoch <= meta.epoch)'
    BY <1>6, <2>2 DEF KeyInv
  <2> QED
    BY <1>6, <2>1, <2>3 DEF KeyInv, Wrapped
<1>7. ASSUME NEW fp \in Fingerprint, NEW n \in Size, InitMeta(fp, n) PROVE KeyInv'
  <2>1. ~Created /\ Members' = Members
    BY <1>7 DEF InitMeta, Members, Created
  <2> QED
    BY <1>7, <1>6, <2>1 DEF InitMeta, Idle, callers, history
<1>8. CASE InitMember
  <2>1. Members \subseteq Members' /\ meta' = meta /\ (Created <=> Created')
    BY <1>8 DEF InitMember, Members, TypeOK, Created
  <2>2. Created => meta.epoch \in Nat
    BY DEF TypeOK, Meta, Created
  <2> QED
    BY <1>8, <1>6, <2>1, <2>2 DEF InitMember, callers, history
<1>9. CASE InitToken
  <2>1. Members' = Members /\ meta' = meta /\ (Created <=> Created')
    BY <1>9 DEF InitToken, Members, Created
  <2>2. Created => meta.epoch \in Nat
    BY DEF TypeOK, Meta, Created
  <2> QED
    BY <1>9, <1>6, <2>1, <2>2 DEF InitToken, Idle, callers, history
<1>10. ASSUME NEW fp \in Fingerprint, JoinMember(fp) PROVE KeyInv'
  <2>1. Members \subseteq Members' /\ meta' = meta /\ (Created <=> Created')
    BY <1>10 DEF JoinMember, Members, TypeOK, Created
  <2>2. Created => meta.epoch \in Nat
    BY DEF TypeOK, Meta, Created
  <2> QED
    BY <1>10, <1>6, <2>1, <2>2 DEF JoinMember, Idle, callers, history
<1>11. CASE JoinMeta
  <2>1. Created /\ meta \in Meta
    BY <1>11 DEF JoinMeta, TypeOK, Created, Idle
  <2>2. Members' = Members /\ Created' /\ meta'.epoch = meta.epoch + 1 /\ meta.epoch \in Nat
    BY <1>11, <2>1, JoinedMetaType DEF JoinMeta, Members, Created, Meta
  <2> QED
    BY <1>11, <1>6, <2>1, <2>2 DEF JoinMeta, Idle, callers, history
<1>12. ASSUME UNCHANGED <<meta, joinedSeq, snap, gkey, tornKeys>>,
              handler.at # "postWraps", handler'.at # "postWraps"
       PROVE  KeyInv'
  <2>1. Members' = Members /\ (Created <=> Created')
    BY <1>12 DEF Members, Created
  <2>2. Created => meta.epoch \in Nat
    BY DEF TypeOK, Meta, Created
  <2> QED
    BY <1>12, <1>6, <2>1, <2>2
<1>13. ASSUME NEW fp \in Fingerprint, PostSeq(fp) PROVE KeyInv'
  BY <1>13, <1>12 DEF PostSeq, Idle, callers, history
<1>14. CASE PostMsg
  BY <1>14, <1>12 DEF PostMsg, Idle, callers
<1>15. ASSUME NEW fp \in Fingerprint, GetMessages(fp) PROVE KeyInv'
  BY <1>15, <1>12 DEF GetMessages, Idle, store
<1>16. CASE UNCHANGED vars
  <2>1. Members' = Members /\ (Created <=> Created')
    BY <1>16 DEF vars, store, Members, Created
  <2>2. \A e \in Epoch : OneKey(e)' <=> OneKey(e)
    BY <1>16 DEF vars, store, OneKey, Wrapped
  <2>3. OneKeyPerEpoch'
    BY <1>16, <2>2 DEF vars, history, KeyInv, OneKeyPerEpoch, Posting
  <2>4. /\ handler' = handler /\ snap' = snap /\ gkey' = gkey /\ meta' = meta
        /\ tornKeys' = tornKeys
    BY <1>16 DEF vars, store, callers, history
  <2>5. handler.at = "postWraps" => handler.epoch \in Epoch
    BY DEF TypeOK, Handler, Idle
  <2> QED
    BY <2>1, <2>2, <2>3, <2>4, <2>5 DEF KeyInv, Wrapped
<1> QED
  BY <1>1, <1>2, <1>3, <1>4, <1>5, <1>7, <1>8, <1>9, <1>10, <1>11, <1>13, <1>14,
     <1>15, <1>16 DEF Next

(* However often and from however old an answer the key-holder posts, members are
   never left with different keys for one epoch unless a post was cut short
   (session.ts:206-212). *)
THEOREM OneKeyForEachEpoch == Spec => []OneKeyPerEpoch
<1>1. KeyInv => OneKeyPerEpoch
  BY DEF KeyInv
<1> QED
  BY <1>1, TypeCorrect, MemberInvariant, KeyInit, KeyStep, PTL DEF Spec

-----------------------------------------------------------------------------
(* The relay implements MessageFeed: storing a message publishes it, a poll
   delivers the whole log, every other step leaves the feed alone. *)
Log == {<<n, msg[n]>> : n \in DOMAIN msg}

LEMMA FeedInit == Init => Feed!Init
BY DEF Init, Feed!Init

LEMMA FeedStep ==
    TypeOK /\ MsgInv /\ [Next]_vars => [Feed!Next]_(Feed!vars)
<1> SUFFICES ASSUME TypeOK, MsgInv, [Next]_vars PROVE [Feed!Next]_(Feed!vars)
  OBVIOUS
<1> USE RelayAssumption
<1>1. CASE PostMsg
  <2>1. /\ seq \notin DOMAIN msg /\ seq > 0 /\ seq \in 1..MaxSeq /\ handler.by \in Fingerprint
        /\ DOMAIN msg' = DOMAIN msg \cup {seq}
        /\ msg'[seq] = handler.by
        /\ \A n \in DOMAIN msg : msg'[n] = msg[n]
    BY <1>1 DEF MsgInv, TypeOK, PostMsg, Handler, Idle
  <2>2. Log' = Log \cup {<<seq, handler.by>>}
    BY <2>1 DEF Log
  <2>3. \A e \in Log : e[1] < seq
    <3> SUFFICES ASSUME NEW n \in DOMAIN msg PROVE <<n, msg[n]>>[1] < seq
      BY DEF Log
    <3>1. n \in 1..seq /\ n # seq
      BY <2>1 DEF MsgInv
    <3> QED
      BY <2>1, <3>1
  <2>4. UNCHANGED <<got, batch>>
    BY <1>1 DEF PostMsg
  <2>5. \E n \in 1..MaxSeq, a \in Fingerprint : Feed!Publish(n, a)
    BY <2>1, <2>2, <2>3, <2>4 DEF Feed!Publish, Log
  <2> QED
    BY <2>5 DEF Feed!Next
<1>2. ASSUME NEW fp \in Fingerprint, GetMessages(fp) PROVE [Feed!Next]_(Feed!vars)
  <2> DEFINE c == cursor[fp]
             new == {<<n, msg[n]>> : n \in After(c)}
  <2>1. got[fp] = {<<n, msg[n]>> : n \in {k \in DOMAIN msg : k <= c}}
    BY DEF MsgInv
  <2>2. \A n \in DOMAIN msg : n \in After(c) <=> ~(n <= c)
    BY DEF After, TypeOK
  <2>3. After(c) \subseteq DOMAIN msg
    BY DEF After
  <2>4. Log = got[fp] \cup new /\ new = Log \ got[fp]
    BY <2>1, <2>2, <2>3 DEF Log
  <2>5. /\ batch' = [batch EXCEPT ![fp] = new]
        /\ got' = [got EXCEPT ![fp] = got[fp] \cup new]
        /\ msg' = msg
    BY <1>2 DEF GetMessages, store
  <2> HIDE DEF new
  <2>6. Feed!Deliver(fp)
    BY <2>4, <2>5 DEF Feed!Deliver, Log
  <2> QED
    BY <2>6 DEF Feed!Next
<1>3. ASSUME UNCHANGED <<msg, got, batch>> PROVE [Feed!Next]_(Feed!vars)
  BY <1>3 DEF Feed!vars
<1>4. ASSUME ~PostMsg, \A fp \in Fingerprint : ~GetMessages(fp)
      PROVE  UNCHANGED <<msg, got, batch>>
  BY <1>4 DEF Next, vars, store, history, InitMeta, InitMember, InitToken, JoinMember,
              JoinMeta, PostSeq, Status, PostKeys, PostWrap, KeysPosted, Crash
<1> QED
  BY <1>1, <1>2, <1>3, <1>4

(* For every bound: what the members read by their cursors is one append-only log,
   each message once, in the order of its number (session.ts:174-193). *)
THEOREM ImplementsFeed == Spec => RefinesFeed
BY TypeCorrect, MsgInvariant, FeedInit, FeedStep, PTL DEF Spec, RefinesFeed, Feed!Spec

(* So what a member has read has no hole below its last message, whatever else was
   posted meanwhile and wherever a crash left a number unused. *)
THEOREM NothingMissed == Spec => []Feed!SeenIsPrefix
<1>1. MsgInv /\ TypeOK => Feed!SeenIsPrefix
  <2> SUFFICES ASSUME MsgInv, TypeOK, NEW r \in Fingerprint,
                      NEW k \in DOMAIN msg, k <= cursor[r], NEW n \in DOMAIN msg, n <= k
               PROVE  <<n, msg[n]>> \in got[r]
    BY DEF Feed!SeenIsPrefix, MsgInv
  <2>1. k \in Nat /\ n \in Nat /\ cursor[r] \in Nat
    BY RelayAssumption DEF TypeOK
  <2>2. n <= cursor[r]
    BY <2>1
  <2> QED
    BY <2>2 DEF MsgInv
<1> QED
  BY <1>1, TypeCorrect, MsgInvariant, PTL

=============================================================================

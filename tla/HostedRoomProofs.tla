-------------------------- MODULE HostedRoomProofs --------------------------
(***************************************************************************)
(* For every number of guests, roles asked for, messages and resets: the roles *)
(* of a hosted room follow the order of arrival, as both tiers give them, and    *)
(* its agents are shown the messages in order, passing only what a             *)
(* send_and_wait passes.                                                     *)
(***************************************************************************)
EXTENDS HostedRoom, TLAPS, FiniteSetTheorems, SequenceTheorems, FunctionTheorems

-----------------------------------------------------------------------------
(* The two inductive invariants: of the members and their roles, and of the talk. *)

JoinHandler == [at : {"joinRoles"}, by : Agent, request : Request \cup {Nothing}]
SendHandler == [at : {"sendMsg"}, by : Agent, waits : BOOLEAN]
Waiting == [at : {"waiting"}, after : Nat]

HandlerOK ==
    /\ handler \in {Idle} \cup JoinHandler \cup SendHandler
    /\ handler \in JoinHandler => open \in OpenedRoom /\ handler.by \in Arrived

MembersOK ==
    /\ members \in Seq(Agent)
    /\ \A i, j \in DOMAIN members : members[i] = members[j] => i = j
    /\ IsFiniteSet(Arrived) /\ Cardinality(Arrived) = Len(members)
    /\ open = Nothing => members = <<>>
    /\ \A a \in Agent : a \notin Arrived => roles[a] = Nothing

RoomInv ==
    /\ open \in {Nothing} \cup OpenedRoom
    /\ told \in BOOLEAN
    /\ told => open \in OpenedRoom
    /\ HandlerOK
    /\ MembersOK
    /\ roles \in [Agent -> Role \cup {Nothing}]
    /\ RoleByArrival

(* The messages after a cursor can be listed in order. *)
Listed(S) ==
    /\ IsFiniteSet(S)
    /\ \E s \in [1..Cardinality(S) -> S] : \A i, j \in DOMAIN s : i < j => s[i] < s[j]

(* What lies up to a position and was not shown to an agent lies before a message
   that it made by send_and_wait, up to that position. *)
Covered(a, upTo) ==
    \A n \in DOMAIN msg : n <= upTo /\ (\A i \in DOMAIN shown[a] : shown[a][i] # n) =>
        \E k \in DOMAIN msg : n <= k /\ k <= upTo /\ msg[k] = [from |-> a, waits |-> TRUE]

MsgOK ==
    /\ seq \in 0..MaxSeq
    /\ DOMAIN msg \subseteq 1..seq
    /\ msg \in [DOMAIN msg -> [from : Agent, waits : BOOLEAN]]
    /\ \A c \in Nat : Listed(After(c))

CursorsOK ==
    /\ cursor \in [Agent -> Nat]
    /\ call \in [Agent -> {Idle} \cup Waiting]
    /\ \A a \in Agent : cursor[a] <= seq
    /\ \A a \in Agent : call[a] # Idle => cursor[a] <= call[a].after /\ call[a].after <= seq

(* The number that a send has taken is new to everyone. *)
Pending ==
    handler \in SendHandler =>
        /\ seq \notin DOMAIN msg
        /\ seq >= 1
        /\ \A a \in Agent : cursor[a] < seq /\ (call[a] # Idle => call[a].after < seq)

ShownOK ==
    /\ shown \in [Agent -> Seq(Nat)]
    /\ \A a \in Agent : \A i \in DOMAIN shown[a] : shown[a][i] \in 1..cursor[a]
    /\ ShownInOrder
    /\ \A a \in Agent : Covered(a, cursor[a]) /\ (call[a] # Idle => Covered(a, call[a].after))

TalkInv ==
    /\ handler \in {Idle} \cup JoinHandler \cup SendHandler
    /\ MsgOK
    /\ CursorsOK
    /\ Pending
    /\ ShownOK

-----------------------------------------------------------------------------
(* The roles of a kind.                                                      *)

LEMMA SeqShape ==
    ASSUME NEW S, NEW s \in Seq(S)
    PROVE  /\ Len(s) \in Nat
           /\ DOMAIN s = 1..Len(s)
           /\ s = <<>> \/ Len(s) # 0
<1>1. Len(s) \in Nat /\ DOMAIN s = 1..Len(s)
  BY LenProperties
<1>2. s # <<>> => Len(s) \in Nat \ {0}
  BY EmptySeq
<1> QED
  BY <1>1, <1>2

LEMMA TupleShape ==
    ASSUME NEW S, NEW keys, (\E a, b \in S : keys = <<a, b>>) \/ (\E a \in S : keys = <<a>>)
    PROVE  /\ Len(keys) \in 1..2
           /\ DOMAIN keys = 1..Len(keys)
           /\ keys # <<>>
<1>1. \/ keys \in Seq(S) /\ Len(keys) = 2
      \/ keys \in Seq(S) /\ Len(keys) = 1
  <2>1. CASE \E a, b \in S : keys = <<a, b>>
    BY <2>1
  <2>2. CASE \E a \in S : keys = <<a>>
    BY <2>2
  <2> QED
    BY <2>1, <2>2
<1>2. DOMAIN keys = 1..Len(keys)
  BY <1>1, SeqShape
<1>3. Len(keys) \in 1..2
  BY <1>1
<1>4. keys # <<>>
  BY <1>3, EmptySeq
<1> QED
  BY <1>2, <1>3, <1>4

LEMMA KindRoles ==
    ASSUME NEW kind \in DOMAIN KINDS
    PROVE  /\ Len(KINDS[kind]) \in 1..2
           /\ DOMAIN KINDS[kind] = 1..Len(KINDS[kind])
           /\ KINDS[kind] # <<>>
           /\ kind # ""
<1>1. DOMAIN KINDS = {"negotiation", "scheduling", "drafting", "brainstorm", "interview", "intro"}
  BY DEF KINDS
<1>2. kind # ""
  BY <1>1
<1> DEFINE S == {"buyer", "seller", "organizer", "guest", "author", "reviewer", "peer",
                 "interviewer", "candidate"}
<1>3. (\E a, b \in S : KINDS[kind] = <<a, b>>) \/ (\E a \in S : KINDS[kind] = <<a>>)
  <2>1. KINDS["negotiation"] = <<"buyer", "seller">>
    BY DEF KINDS
  <2>2. KINDS["scheduling"] = <<"organizer", "guest">>
    BY DEF KINDS
  <2>3. KINDS["drafting"] = <<"author", "reviewer">>
    BY DEF KINDS
  <2>4. KINDS["brainstorm"] = <<"peer">>
    BY DEF KINDS
  <2>5. KINDS["interview"] = <<"interviewer", "candidate">>
    BY DEF KINDS
  <2>6. KINDS["intro"] = <<"peer">>
    BY DEF KINDS
  <2>a. /\ "buyer" \in S /\ "seller" \in S /\ "organizer" \in S /\ "guest" \in S
        /\ "author" \in S /\ "reviewer" \in S /\ "peer" \in S
        /\ "interviewer" \in S /\ "candidate" \in S
    OBVIOUS
  <2> HIDE DEF S
  <2>7. CASE kind = "negotiation"
    BY <2>1, <2>7, <2>a, Zenon
  <2>8. CASE kind = "scheduling"
    BY <2>2, <2>8, <2>a, Zenon
  <2>9. CASE kind = "drafting"
    BY <2>3, <2>9, <2>a, Zenon
  <2>10. CASE kind = "brainstorm"
    BY <2>4, <2>10, <2>a, Zenon
  <2>11. CASE kind = "interview"
    BY <2>5, <2>11, <2>a, Zenon
  <2>12. CASE kind = "intro"
    BY <2>6, <2>12, <2>a, Zenon
  <2> QED
    BY <1>1, <2>7, <2>8, <2>9, <2>10, <2>11, <2>12, Zenon
<1> DEFINE keys == KINDS[kind]
<1> HIDE DEF S, keys
<1>4. (\E a, b \in S : keys = <<a, b>>) \/ (\E a \in S : keys = <<a>>)
  BY <1>3, Zenon DEF keys
<1>5. Len(keys) \in 1..2 /\ DOMAIN keys = 1..Len(keys) /\ keys # <<>>
  BY <1>4, TupleShape
<1> QED
  BY <1>2, <1>5, Zenon DEF keys

(* A position has a role, one of the keys if there are any. *)
LEMMA RoleOfPosition ==
    ASSUME NEW keys, Len(keys) \in Nat, DOMAIN keys = 1..Len(keys),
           keys = <<>> \/ Len(keys) # 0, NEW n \in Nat
    PROVE  /\ keys = <<>> => AssignRole(keys, n) = "participant"
           /\ keys # <<>> => \E i \in DOMAIN keys : keys[i] = AssignRole(keys, n)
<1>1. CASE keys = <<>>
  BY <1>1 DEF AssignRole
<1>2. CASE keys # <<>>
  <2> DEFINE k == IF n < Len(keys) THEN n + 1 ELSE Len(keys)
  <2>1. k \in DOMAIN keys
    BY <1>2
  <2>2. AssignRole(keys, n) = keys[k]
    BY <1>2 DEF AssignRole
  <2> QED
    BY <1>2, <2>1, <2>2
<1> QED
  BY <1>1, <1>2

(* Of two roles at most, everyone after the first has the last. *)
LEMMA SecondRole ==
    ASSUME NEW keys, Len(keys) \in 1..2, keys # <<>>, NEW n \in Nat \ {0}
    PROVE  AssignRole(keys, n) = AssignRole(keys, 1)
<1>1. Len(keys) = 1 \/ Len(keys) = 2
  OBVIOUS
<1>2. n = 1 \/ n > 1
  OBVIOUS
<1>3. CASE n > 1
  <2>1. ~(n < Len(keys)) /\ (IF 1 < Len(keys) THEN 1 + 1 ELSE Len(keys)) = Len(keys)
    BY <1>1, <1>3
  <2> QED
    BY <2>1 DEF AssignRole
<1> QED
  BY <1>2, <1>3

(* The roles of a room are roles. *)
LEMMA RoleAtTyped ==
    ASSUME open \in OpenedRoom, NEW n \in Nat
    PROVE  RoleAt(n) \in Role
<1> DEFINE keys == HostedRoleKeys(open.kind, open.customRoles)
<1>1. open.customRoles \in {wish.customRoles : wish \in Wish}
  BY DEF OpenedRoom
<1>2. keys \in RoleKeys
  BY <1>1 DEF RoleKeys, HostedRoleKeys
<1>3. Len(keys) \in Nat /\ DOMAIN keys = 1..Len(keys) /\ (keys = <<>> \/ Len(keys) # 0)
  <2>1. CASE open.kind \in DOMAIN KINDS
    <3>1. keys = KINDS[open.kind]
      BY <2>1 DEF HostedRoleKeys
    <3> HIDE DEF keys
    <3>2. Len(keys) \in 1..2 /\ DOMAIN keys = 1..Len(keys)
      BY <2>1, <3>1, KindRoles
    <3> QED
      BY <3>2
  <2>2. CASE open.kind \notin DOMAIN KINDS
    <3>1. keys = open.customRoles
      BY <2>2 DEF HostedRoleKeys
    <3>2. PICK wish \in Wish : keys = wish.customRoles
      BY <1>1, <3>1
    <3>3. wish.customRoles \in Seq(STRING)
      BY HostedAssumption DEF HostedAssumption
    <3> HIDE DEF keys
    <3>4. keys \in Seq(STRING)
      BY <3>2, <3>3
    <3> QED
      BY <3>4, SeqShape
  <2> QED
    BY <2>1, <2>2
<1> HIDE DEF keys
<1>4. AssignRole(keys, n) \in {"participant"} \cup {keys[i] : i \in DOMAIN keys}
  BY <1>3, RoleOfPosition
<1>5. RoleAt(n) = AssignRole(keys, n)
  BY DEF RoleAt, keys
<1> QED
  BY <1>2, <1>4, <1>5 DEF Role

(* For a predefined kind, a hosted room gives the one at a position the context that a
   key-holding client gives, which knows only whether it opens or joins: no kind has a
   third role. *)
LEMMA SameContext ==
    ASSUME NEW kind \in DOMAIN KINDS, NEW customRoles, NEW i \in Nat \ {0}
    PROVE  LET role == AssignRole(HostedRoleKeys(kind, customRoles), i - 1)
               clients == IF i = 1 THEN OpenRoomRole(kind) ELSE JoinRoomRole(kind)
           IN  RoomContext(kind, role, HostedGuidance(kind, role, customRoles))
                 = RoomContext(kind, clients, NoGuidance)
<1> DEFINE keys == KINDS[kind]
           role == AssignRole(keys, i - 1)
           clients == IF i = 1 THEN OpenRoomRole(kind) ELSE JoinRoomRole(kind)
<1>1. Len(keys) \in 1..2 /\ DOMAIN keys = 1..Len(keys) /\ keys # <<>> /\ kind # ""
  BY KindRoles
<1>2. RolesForKind(kind) = keys
  BY DEF RolesForKind
<1>3. HostedRoleKeys(kind, customRoles) = keys
  BY DEF HostedRoleKeys
<1> HIDE DEF keys
<1>4. role = clients
  <2>1. OpenRoomRole(kind) = AssignRole(keys, 0) /\ JoinRoomRole(kind) = AssignRole(keys, 1)
    BY <1>1, <1>2 DEF OpenRoomRole, JoinRoomRole, RoleByOrder
  <2>2. CASE i = 1
    BY <2>1, <2>2
  <2>3. CASE i # 1
    <3> DEFINE n == i - 1
    <3>1. n \in Nat \ {0}
      BY <2>3
    <3> HIDE DEF n
    <3>2. AssignRole(keys, n) = AssignRole(keys, 1)
      BY <1>1, <3>1, SecondRole
    <3> QED
      BY <2>1, <2>3, <3>2 DEF n
  <2> QED
    BY <2>2, <2>3
<1>5. KindGuidance(kind, role) = <<kind, role>>
  <2> DEFINE n == i - 1
  <2>1. n \in Nat
    OBVIOUS
  <2>3. Len(keys) \in Nat /\ Len(keys) # 0
    <3>1. \A k \in 1..2 : k \in Nat /\ k # 0
      OBVIOUS
    <3> QED
      BY <1>1, <3>1, Zenon
  <2> HIDE DEF n
  <2>2. \E j \in DOMAIN keys : keys[j] = AssignRole(keys, n)
    BY <1>1, <2>1, <2>3, RoleOfPosition
  <2> QED
    BY <1>2, <2>2 DEF KindGuidance, n
<1>6. <<kind, role>> # NoGuidance
  BY DEF NoGuidance
<1>7. HostedGuidance(kind, role, customRoles) = <<kind, role>>
  BY <1>5, <1>6 DEF HostedGuidance
<1> HIDE DEF role, clients
<1>8. RoomContext(kind, role, HostedGuidance(kind, role, customRoles))
        = RoomContext(kind, role, NoGuidance)
  BY <1>5, <1>6, <1>7 DEF RoomContext
<1> QED
  BY <1>3, <1>4, <1>8 DEF role, clients

-----------------------------------------------------------------------------
(* The members and their roles.                                              *)

LEMMA HandlerKinds ==
    /\ \A h \in JoinHandler : h.at = "joinRoles" /\ h.by \in Agent /\ h.request \in Request \cup {Nothing}
    /\ \A h \in SendHandler : h.at = "sendMsg" /\ h.by \in Agent
    /\ Idle.at = "idle"
    /\ Idle \notin JoinHandler /\ Idle \notin SendHandler
    /\ \A h \in JoinHandler : h \notin SendHandler
<1>1. \A h \in JoinHandler : h.at = "joinRoles" /\ h.by \in Agent /\ h.request \in Request \cup {Nothing}
  BY DEF JoinHandler
<1>2. \A h \in SendHandler : h.at = "sendMsg" /\ h.by \in Agent
  BY DEF SendHandler
<1>3. Idle.at = "idle"
  BY DEF Idle
<1> QED
  BY <1>1, <1>2, <1>3

(* What putting someone new at the end of a list without repetition does. *)
LEMMA AppendNew ==
    ASSUME NEW S, NEW s \in Seq(S), NEW a \in S,
           \A i, j \in DOMAIN s : s[i] = s[j] => i = j,
           \A i \in DOMAIN s : s[i] # a
    PROVE  LET t == Append(s, a) IN
           /\ t \in Seq(S) /\ Len(t) = Len(s) + 1 /\ DOMAIN t = 1..(Len(s) + 1)
           /\ \A i \in DOMAIN s : i \in DOMAIN t /\ t[i] = s[i]
           /\ t[Len(s) + 1] = a
           /\ \A i, j \in DOMAIN t : t[i] = t[j] => i = j
           /\ {t[i] : i \in DOMAIN t} = {s[i] : i \in DOMAIN s} \cup {a}
<1> DEFINE t == Append(s, a)
           k == Len(s)
<1>1. k \in Nat /\ DOMAIN s = 1..k
  BY LenProperties
<1>2. /\ t \in Seq(S) /\ Len(t) = k + 1
      /\ \A i \in 1..k : t[i] = s[i]
      /\ t[k + 1] = a
  BY AppendProperties
<1>3. DOMAIN t = 1..(k + 1)
  BY <1>2, LenProperties
<1> HIDE DEF t, k
<1>4. \A i \in 1..(k + 1) : i \in 1..k \/ i = k + 1
  BY <1>1
<1>5. \A i, j \in DOMAIN t : t[i] = t[j] => i = j
  BY <1>1, <1>2, <1>3, <1>4
<1>6. \A i \in DOMAIN s : i \in DOMAIN t
  BY <1>1, <1>3
<1>7. k + 1 \in DOMAIN t
  BY <1>1, <1>3
<1>8. {t[i] : i \in DOMAIN t} = {s[i] : i \in DOMAIN s} \cup {a}
  BY <1>1, <1>2, <1>3, <1>4, <1>6, <1>7
<1> QED
  BY <1>1, <1>2, <1>3, <1>5, <1>6, <1>8 DEF t, k

LEMMA RoomInit == Init => RoomInv
<1> SUFFICES ASSUME Init PROVE RoomInv
  OBVIOUS
<1>1. members = <<>> /\ members \in Seq(Agent) /\ Len(members) = 0
  BY EmptySeq DEF Init
<1>2. DOMAIN members = {}
  BY <1>1, LenProperties
<1>3. Arrived = {}
  BY <1>2 DEF Arrived
<1>4. MembersOK
  BY <1>1, <1>2, <1>3, FS_EmptySet DEF MembersOK, Init
<1>5. HandlerOK
  BY HandlerKinds DEF HandlerOK, Init
<1>6. RoleByArrival
  BY <1>2 DEF RoleByArrival
<1>7. open = Nothing /\ told = FALSE /\ roles \in [Agent -> Role \cup {Nothing}]
  BY DEF Init
<1> QED
  BY <1>4, <1>5, <1>6, <1>7 DEF RoomInv

LEMMA RoomKept ==
    ASSUME RoomInv, UNCHANGED <<open, told, members, roles>>,
           handler' = handler \/ handler' = Idle \/ handler' \in SendHandler
    PROVE  RoomInv'
<1>1. Arrived' = Arrived
  BY DEF Arrived
<1>2. MembersOK'
  BY <1>1 DEF MembersOK, RoomInv
<1>3. HandlerOK'
  <2>1. handler' \in {Idle} \cup JoinHandler \cup SendHandler
    BY DEF RoomInv, HandlerOK
  <2>2. handler' \in JoinHandler => handler' = handler
    BY HandlerKinds
  <2> QED
    BY <1>1, <2>1, <2>2 DEF RoomInv, HandlerOK
<1>4. RoleByArrival'
  BY DEF RoomInv, RoleByArrival, RoleAt
<1> QED
  BY <1>2, <1>3, <1>4 DEF RoomInv

LEMMA RoomOfOpen ==
    ASSUME RoomInv, NEW wish \in Wish, NEW request \in Request \cup {Nothing},
           Open(wish, request)
    PROVE  RoomInv'
<1>1. open' \in OpenedRoom
  BY DEF Open, OpenedRoom
<1>2. /\ members' = <<Opener>>
      /\ roles' = [a \in Agent |-> Nothing]
      /\ handler' = [at |-> "joinRoles", by |-> Opener, request |-> request]
      /\ told' = told
  BY DEF Open, agents
<1>3. Opener \in Agent
  BY DEF Agent
<1>4. members' \in Seq(Agent) /\ Len(members') = 1 /\ members'[1] = Opener
  BY <1>2, <1>3
<1>5. DOMAIN members' = {1}
  <2>1. DOMAIN members' = 1..1
    BY <1>4, LenProperties
  <2> QED
    BY <2>1
<1>6. Arrived' = {Opener}
  BY <1>4, <1>5 DEF Arrived
<1>7. handler' \in JoinHandler /\ handler'.by = Opener
  BY <1>2, <1>3 DEF JoinHandler
<1>8. Nothing \notin OpenedRoom
  BY HostedAssumption DEF HostedAssumption
<1>9. MembersOK'
  BY <1>1, <1>2, <1>4, <1>5, <1>6, <1>8, FS_Singleton DEF MembersOK
<1>10. HandlerOK'
  BY <1>1, <1>6, <1>7 DEF HandlerOK
<1>11. RoleByArrival'
  <2>1. \A a \in Agent : roles'[a] = Nothing
    BY <1>2
  <2> QED
    BY <1>3, <1>4, <1>5, <2>1 DEF RoleByArrival
<1>12. roles' \in [Agent -> Role \cup {Nothing}]
  BY <1>2
<1> QED
  BY <1>1, <1>2, <1>9, <1>10, <1>11, <1>12 DEF RoomInv

LEMMA RoomOfJoin ==
    ASSUME RoomInv, NEW a \in Agent, NEW request \in Request \cup {Nothing},
           Join(a, request)
    PROVE  RoomInv'
<1>1. /\ open \in OpenedRoom /\ open' = open
      /\ told' = told /\ roles' = roles
      /\ members' = IF a \in Arrived THEN members ELSE Append(members, a)
      /\ handler' = [at |-> "joinRoles", by |-> a, request |-> request]
  BY DEF Join, MayCall, JoinMember, RoomInv, agents
<1>2. handler' \in JoinHandler /\ handler'.by = a
  BY <1>1 DEF JoinHandler
<1>3. MembersOK
  BY DEF RoomInv
<1>4. Nothing \notin OpenedRoom
  BY HostedAssumption DEF HostedAssumption
<1>5. CASE a \in Arrived
  <2>1. members' = members /\ Arrived' = Arrived
    BY <1>1, <1>5 DEF Arrived
  <2>2. MembersOK'
    BY <1>1, <1>3, <2>1 DEF MembersOK
  <2>3. HandlerOK'
    BY <1>1, <1>2, <1>5, <2>1 DEF HandlerOK
  <2>4. RoleByArrival'
    BY <1>1, <2>1 DEF RoomInv, RoleByArrival, RoleAt
  <2> QED
    BY <1>1, <2>2, <2>3, <2>4 DEF RoomInv
<1>6. CASE a \notin Arrived
  <2>1. /\ members \in Seq(Agent)
        /\ \A i, j \in DOMAIN members : members[i] = members[j] => i = j
        /\ \A i \in DOMAIN members : members[i] # a
    BY <1>3, <1>6 DEF MembersOK, Arrived
  <2>2. members' = Append(members, a)
    BY <1>1, <1>6
  <2>3. /\ members' \in Seq(Agent) /\ Len(members') = Len(members) + 1
        /\ DOMAIN members' = 1..(Len(members) + 1)
        /\ \A i \in DOMAIN members : i \in DOMAIN members' /\ members'[i] = members[i]
        /\ members'[Len(members) + 1] = a
        /\ \A i, j \in DOMAIN members' : members'[i] = members'[j] => i = j
        /\ {members'[i] : i \in DOMAIN members'} = {members[i] : i \in DOMAIN members} \cup {a}
    BY <2>1, <2>2, AppendNew
  <2>4. Arrived' = Arrived \cup {a}
    BY <2>3 DEF Arrived
  <2>5. IsFiniteSet(Arrived') /\ Cardinality(Arrived') = Len(members')
    BY <1>3, <1>6, <2>3, <2>4, FS_AddElement DEF MembersOK
  <2>6. MembersOK'
    BY <1>1, <1>3, <1>4, <2>3, <2>4, <2>5 DEF MembersOK
  <2>7. HandlerOK'
    BY <1>1, <1>2, <2>4 DEF HandlerOK
  <2>8. RoleByArrival'
    <3> SUFFICES ASSUME NEW i \in DOMAIN members'
                 PROVE  roles'[members'[i]] \in Request \cup {Nothing, RoleAt(i - 1)'}
      BY DEF RoleByArrival
    <3>1. RoleAt(i - 1)' = RoleAt(i - 1)
      BY <1>1 DEF RoleAt
    <3>2. CASE i \in DOMAIN members
      BY <1>1, <2>3, <3>1, <3>2 DEF RoomInv, RoleByArrival
    <3>3. CASE i \notin DOMAIN members
      <4>1. Len(members) \in Nat /\ DOMAIN members = 1..Len(members)
        BY <2>1, LenProperties
      <4>2. i = Len(members) + 1
        BY <2>3, <3>3, <4>1
      <4>3. roles'[members'[i]] = Nothing
        BY <1>1, <1>3, <1>6, <2>3, <4>2 DEF MembersOK
      <4> QED
        BY <4>3
    <3> QED
      BY <3>2, <3>3
  <2> QED
    BY <1>1, <2>6, <2>7, <2>8 DEF RoomInv
<1> QED
  BY <1>5, <1>6

LEMMA RoomOfJoinRoles == RoomInv /\ JoinRoles => RoomInv'
<1> SUFFICES ASSUME RoomInv, JoinRoles PROVE RoomInv'
  OBVIOUS
<1>1. handler \in JoinHandler
  BY HandlerKinds DEF JoinRoles, RoomInv, HandlerOK
<1> DEFINE a == handler.by
           request == handler.request
           role == Assigned(a, request)
<1>2. a \in Agent /\ a \in Arrived /\ request \in Request \cup {Nothing} /\ open \in OpenedRoom
  BY <1>1, HandlerKinds DEF RoomInv, HandlerOK
<1>3. /\ roles' = [roles EXCEPT ![a] = role]
      /\ handler' = Idle
      /\ open' = open /\ members' = members
      /\ told' = (told \/ handler.by = Opener)
  BY DEF JoinRoles, TellCode
<1>4. PICK i \in DOMAIN members : members[i] = a
  BY <1>2 DEF Arrived
<1>5. (CHOOSE j \in DOMAIN members : members[j] = a) = i
  BY <1>4 DEF RoomInv, MembersOK
<1>6. i - 1 \in Nat
  <2>1. DOMAIN members = 1..Len(members) /\ Len(members) \in Nat
    BY LenProperties DEF RoomInv, MembersOK
  <2> QED
    BY <2>1
<1>7. RoleAt(i - 1) \in Role
  BY <1>2, <1>6, RoleAtTyped
<1>8. /\ role = roles[a] \/ role \in Request \cup {RoleAt(i - 1)}
  BY <1>2, <1>5 DEF Assigned
<1>9. roles \in [Agent -> Role \cup {Nothing}]
  BY DEF RoomInv
<1>10. role \in Role \cup {Nothing}
  BY <1>2, <1>7, <1>8, <1>9 DEF Role
<1>11. role \in Request \cup {Nothing, RoleAt(i - 1)}
  BY <1>4, <1>8 DEF RoomInv, RoleByArrival
<1> HIDE DEF a, role, request
<1>12. Arrived' = Arrived
  BY <1>3 DEF Arrived
<1>13. roles' \in [Agent -> Role \cup {Nothing}]
  BY <1>2, <1>3, <1>9, <1>10
<1>14. \A b \in Agent : roles'[b] = IF b = a THEN role ELSE roles[b]
  BY <1>2, <1>3, <1>9
<1>15. MembersOK'
  BY <1>2, <1>3, <1>12, <1>14 DEF RoomInv, MembersOK
<1>16. HandlerOK'
  BY <1>3, HandlerKinds DEF HandlerOK
<1>17. RoleByArrival'
  <2> SUFFICES ASSUME NEW j \in DOMAIN members
               PROVE  roles'[members[j]] \in Request \cup {Nothing, RoleAt(j - 1)'}
    BY <1>3 DEF RoleByArrival
  <2>1. RoleAt(j - 1)' = RoleAt(j - 1)
    BY <1>3 DEF RoleAt
  <2>2. members[j] \in Agent
    BY ElementOfSeq, LenProperties DEF RoomInv, MembersOK
  <2>3. CASE members[j] = a
    <3>1. j = i
      BY <1>4, <2>3 DEF RoomInv, MembersOK
    <3> QED
      BY <1>11, <1>14, <2>1, <2>2, <2>3, <3>1
  <2>4. CASE members[j] # a
    BY <1>14, <2>1, <2>2, <2>4 DEF RoomInv, RoleByArrival
  <2> QED
    BY <2>3, <2>4
<1>18. told' \in BOOLEAN
  BY <1>3 DEF RoomInv
<1> QED
  BY <1>2, <1>3, <1>13, <1>15, <1>16, <1>17, <1>18 DEF RoomInv

LEMMA RoomStep == RoomInv /\ [Next]_vars => RoomInv'
<1> SUFFICES ASSUME RoomInv, [Next]_vars PROVE RoomInv'
  OBVIOUS
<1>1. ASSUME NEW wish \in Wish, NEW request \in Request \cup {Nothing}, Open(wish, request)
      PROVE  RoomInv'
  BY <1>1, RoomOfOpen
<1>2. ASSUME NEW a \in Agent, NEW request \in Request \cup {Nothing}, Join(a, request)
      PROVE  RoomInv'
  BY <1>2, RoomOfJoin
<1>3. CASE JoinRoles
  BY <1>3, RoomOfJoinRoles
<1>4. ASSUME NEW a \in Talker, NEW waits \in BOOLEAN, SendSeq(a, waits)
      PROVE  RoomInv'
  <2>1. a \in Agent
    BY HostedAssumption DEF HostedAssumption
  <2>2. handler' \in SendHandler /\ UNCHANGED <<open, told, members, roles>>
    BY <1>4, <2>1 DEF SendSeq, SendHandler, agents
  <2> QED
    BY <2>2, RoomKept
<1>5. CASE SendMsg
  <2>1. handler' = Idle /\ UNCHANGED <<open, told, members, roles>>
    BY <1>5 DEF SendMsg, agents
  <2> QED
    BY <2>1, RoomKept
<1>6. ASSUME NEW a \in Talker, Receive(a) \/ Wait(a) \/ WaitReturns(a)
      PROVE  RoomInv'
  <2>1. handler' = handler /\ UNCHANGED <<open, told, members, roles>>
    BY <1>6 DEF Receive, Wait, WaitReturns, agents, store
  <2> QED
    BY <2>1, RoomKept
<1>7. CASE Reset
  <2>1. handler' = Idle /\ UNCHANGED <<open, told, members, roles>>
    BY <1>7 DEF Reset, agents, store
  <2> QED
    BY <2>1, RoomKept
<1>8. CASE UNCHANGED vars
  <2>1. handler' = handler /\ UNCHANGED <<open, told, members, roles>>
    BY <1>8 DEF vars, agents, store
  <2> QED
    BY <2>1, RoomKept
<1> QED
  BY <1>1, <1>2, <1>3, <1>4, <1>5, <1>6, <1>7, <1>8 DEF Next, Send, SendAndWait, Deliver, TimeOut

LEMMA AlwaysRoom == Spec => []RoomInv
BY RoomInit, RoomStep, PTL DEF Spec

(* A member that was given no role it asked for has the one of its place in the order of
   arrival, whatever joins were cut short before (Room.join). *)
THEOREM RolesFollowArrival == Spec => []RoleByArrival
<1>1. RoomInv => RoleByArrival
  BY DEF RoomInv
<1> QED
  BY <1>1, AlwaysRoom, PTL

(* With a predefined kind, hosted rooms and key-holding clients give a member the same
   context (kinds.ts:108), though the clients know only whether they open or join. *)
THEOREM HostedAndLocalAgree == Spec => []TiersAgree
<1>1. RoomInv => TiersAgree
  <2> SUFFICES ASSUME RoomInv, open # Nothing, open.kind \in DOMAIN KINDS,
                      NEW i \in DOMAIN members,
                      roles[members[i]] \notin Request \cup {Nothing}
               PROVE  LET role == roles[members[i]]
                          clients == IF i = 1 THEN OpenRoomRole(open.kind) ELSE JoinRoomRole(open.kind)
                      IN  RoomContext(open.kind, role, HostedGuidance(open.kind, role, open.customRoles))
                            = RoomContext(open.kind, clients, NoGuidance)
    BY DEF TiersAgree
  <2>1. roles[members[i]] = RoleAt(i - 1)
    BY DEF RoomInv, RoleByArrival
  <2>2. i \in Nat \ {0}
    <3>1. DOMAIN members = 1..Len(members) /\ Len(members) \in Nat
      BY LenProperties DEF RoomInv, MembersOK
    <3> QED
      BY <3>1
  <2>3. roles[members[i]] = AssignRole(HostedRoleKeys(open.kind, open.customRoles), i - 1)
    BY <2>1 DEF RoleAt
  <2> QED
    BY <2>2, <2>3, SameContext
<1> QED
  BY <1>1, AlwaysRoom, PTL

-----------------------------------------------------------------------------
(* Listing messages in order.                                                *)

LEMMA SeqOfFunction ==
    ASSUME NEW S, NEW k \in Nat, NEW f \in [1..k -> S]
    PROVE  f \in Seq(S) /\ Len(f) = k /\ DOMAIN f = 1..k
<1>1. f \in Seq(S)
  BY SeqDef
<1>2. Len(f) \in Nat /\ DOMAIN f = 1..Len(f)
  BY <1>1, LenProperties
<1> QED
  BY <1>1, <1>2

(* The list of a set that can be listed has its members, each once, in order. *)
LEMMA AscendingLists ==
    ASSUME NEW S \in SUBSET Nat, Listed(S)
    PROVE  LET new == Ascending(S) IN
           /\ new \in Seq(S)
           /\ \A i, j \in DOMAIN new : i < j => new[i] < new[j]
           /\ \A n \in S : \E i \in DOMAIN new : new[i] = n
<1> DEFINE new == Ascending(S)
           k == Cardinality(S)
<1>1. IsFiniteSet(S) /\ k \in Nat
  BY FS_CardinalityType DEF Listed
<1>2. new \in [1..k -> S] /\ \A i, j \in DOMAIN new : i < j => new[i] < new[j]
  BY DEF Listed, Ascending
<1> HIDE DEF new
<1>3. DOMAIN new = 1..k
  BY <1>2
<1>4. \A i, j \in 1..k : new[i] = new[j] => i = j
  <2> SUFFICES ASSUME NEW i \in 1..k, NEW j \in 1..k, i # j PROVE new[i] # new[j]
    OBVIOUS
  <2>1. new[i] \in Nat /\ new[j] \in Nat
    BY <1>2
  <2>2. i < j \/ j < i
    OBVIOUS
  <2>3. i < j => new[i] < new[j]
    BY <1>2, <1>3
  <2>4. j < i => new[j] < new[i]
    BY <1>2, <1>3
  <2> QED
    BY <2>1, <2>2, <2>3, <2>4
<1>5. new \in Injection(1..k, S)
  BY <1>2, <1>4, Fun_IsInj
<1>6. Cardinality(1..k) = k
  <2>1. 1 \in Int /\ k \in Int
    BY <1>1
  <2>2. Cardinality(1..k) = IF 1 > k THEN 0 ELSE k - 1 + 1
    BY <2>1, FS_Interval
  <2> QED
    BY <1>1, <2>2
<1>7. new \in Surjection(1..k, S)
  <2>1. Cardinality(1..k) = Cardinality(S) <=> new \in Surjection(1..k, S)
    BY <1>1, <1>5, FS_Injection
  <2> QED
    BY <1>6, <2>1
<1>8. \A n \in S : \E i \in 1..k : new[i] = n
  BY <1>7, Zenon DEF Surjection
<1>9. new \in Seq(S)
  BY <1>1, <1>2, SeqOfFunction
<1> QED
  BY <1>2, <1>3, <1>8, <1>9 DEF new

(* A number above all others can be listed after them. *)
LEMMA ListedMore ==
    ASSUME NEW S \in SUBSET Nat, Listed(S), NEW m \in Nat, \A n \in S : n < m
    PROVE  Listed(S \cup {m})
<1> DEFINE k == Cardinality(S)
           T == S \cup {m}
<1>1. IsFiniteSet(S) /\ k \in Nat
  BY FS_CardinalityType DEF Listed
<1>2. m \notin S
  BY DEF Listed
<1>3. IsFiniteSet(T) /\ Cardinality(T) = k + 1
  BY <1>1, <1>2, FS_AddElement
<1>4. PICK s \in [1..k -> S] : \A i, j \in DOMAIN s : i < j => s[i] < s[j]
  BY DEF Listed
<1> DEFINE t == [i \in 1..(k + 1) |-> IF i = k + 1 THEN m ELSE s[i]]
<1> HIDE DEF k
<1>5. \A i \in 1..(k + 1) : i # k + 1 => i \in 1..k
  BY <1>1
<1>6. t \in [1..(k + 1) -> T]
  BY <1>1, <1>4, <1>5
<1>7. \A i, j \in DOMAIN t : i < j => t[i] < t[j]
  <2> SUFFICES ASSUME NEW i \in 1..(k + 1), NEW j \in 1..(k + 1), i < j
               PROVE  t[i] < t[j]
    OBVIOUS
  <2>1. i \in 1..k /\ t[i] = s[i] /\ s[i] \in S
    BY <1>1, <1>4, <1>5
  <2>2. CASE j = k + 1
    BY <2>1, <2>2
  <2>3. CASE j # k + 1
    BY <1>4, <1>5, <2>1, <2>3
  <2> QED
    BY <2>2, <2>3
<1> HIDE DEF t
<1>8. \E u \in [1..Cardinality(T) -> T] : \A i, j \in DOMAIN u : i < j => u[i] < u[j]
  BY <1>3, <1>6, <1>7
<1> QED
  BY <1>3, <1>8 DEF Listed

(* What showing the messages after a position changes. *)
LEMMA ShowShows ==
    ASSUME MsgOK, CursorsOK, shown \in [Agent -> Seq(Nat)],
           NEW a \in Agent, NEW after \in Nat, after <= seq, Show(a, after)
    PROVE  \E new \in Seq(After(after)) :
             /\ \A i, j \in DOMAIN new : i < j => new[i] < new[j]
             /\ \A n \in After(after) : \E i \in DOMAIN new : new[i] = n
             /\ shown' = [shown EXCEPT ![a] = shown[a] \o new]
             /\ cursor' = [cursor EXCEPT ![a] = IF new = <<>> THEN after ELSE new[Len(new)]]
<1>1. After(after) \in SUBSET Nat /\ Listed(After(after))
  BY DEF MsgOK, After
<1> DEFINE new == Ascending(After(after))
<1>2. /\ new \in Seq(After(after))
      /\ \A i, j \in DOMAIN new : i < j => new[i] < new[j]
      /\ \A n \in After(after) : \E i \in DOMAIN new : new[i] = n
  BY <1>1, AscendingLists
<1>3. /\ shown' = [shown EXCEPT ![a] = shown[a] \o new]
      /\ cursor' = [cursor EXCEPT ![a] = IF new = <<>> THEN after ELSE new[Len(new)]]
  BY DEF Show
<1> HIDE DEF new
<1> QED
  BY <1>2, <1>3

-----------------------------------------------------------------------------
(* The talk.                                                                 *)

LEMMA CallKinds ==
    /\ \A w \in Waiting : w.at = "waiting" /\ w.after \in Nat
    /\ Idle \notin Waiting
    /\ \A n \in Nat : [at |-> "waiting", after |-> n] \in Waiting
<1>1. \A w \in Waiting : w.at = "waiting" /\ w.after \in Nat
  BY DEF Waiting
<1>2. Idle.at = "idle"
  BY DEF Idle
<1>3. \A n \in Nat : [at |-> "waiting", after |-> n] \in Waiting
  BY DEF Waiting
<1> QED
  BY <1>1, <1>2, <1>3

LEMMA TalkInit == Init => TalkInv
<1> SUFFICES ASSUME Init PROVE TalkInv
  OBVIOUS
<1>1. seq = 0 /\ DOMAIN msg = {} /\ MaxSeq \in Nat
  BY HostedAssumption DEF Init, HostedAssumption
<1>2. \A c \in Nat : Listed(After(c))
  <2> SUFFICES ASSUME NEW c \in Nat PROVE Listed(After(c))
    OBVIOUS
  <2>1. After(c) = {}
    BY <1>1 DEF After
  <2>2. IsFiniteSet({}) /\ Cardinality({}) = 0
    BY FS_EmptySet
  <2> DEFINE s == [i \in 1..0 |-> i]
  <2>3. s \in [1..0 -> {}] /\ \A i, j \in DOMAIN s : i < j => s[i] < s[j]
    OBVIOUS
  <2> HIDE DEF s
  <2> QED
    BY <2>1, <2>2, <2>3 DEF Listed
<1>3. MsgOK
  BY <1>1, <1>2 DEF MsgOK, Init
<1>4. CursorsOK
  BY <1>1 DEF CursorsOK, Init
<1>5. Pending
  BY HandlerKinds DEF Pending, Init
<1>6. \A a \in Agent : shown[a] = <<>> /\ DOMAIN shown[a] = {} /\ call[a] = Idle
  <2>1. \A a \in Agent : shown[a] = <<>> /\ call[a] = Idle
    BY DEF Init
  <2>2. <<>> \in Seq(Nat) /\ Len(<<>>) = 0
    BY EmptySeq
  <2>3. DOMAIN <<>> = {}
    BY <2>2, LenProperties
  <2> QED
    BY <2>1, <2>3
<1>7. shown \in [Agent -> Seq(Nat)]
  BY EmptySeq DEF Init
<1>8. ShownOK
  BY <1>1, <1>6, <1>7 DEF ShownOK, ShownInOrder, Covered
<1> QED
  BY <1>3, <1>4, <1>5, <1>8 DEF TalkInv, Init

(* Steps that send, show and call nothing. *)
LEMMA TalkKept ==
    ASSUME TalkInv, UNCHANGED <<seq, msg, cursor, shown>>,
           handler' \in {Idle, handler} \cup JoinHandler,
           \/ call' = call
           \/ call' = [a \in Agent |-> Idle]
    PROVE  TalkInv'
<1>1. \A a \in Agent : call'[a] # Idle => call'[a] = call[a] /\ call[a] # Idle
  OBVIOUS
<1>2. call' \in [Agent -> {Idle} \cup Waiting]
  BY DEF TalkInv, CursorsOK
<1>3. handler' \in SendHandler => handler' = handler
  BY HandlerKinds
<1>4. \A c : After(c)' = After(c)
  BY DEF After
<1>5. \A a, n : Covered(a, n)' = Covered(a, n)
  BY DEF Covered
<1>6. MsgOK'
  BY <1>4 DEF TalkInv, MsgOK
<1>7. CursorsOK'
  BY <1>1, <1>2 DEF TalkInv, CursorsOK
<1>8. Pending'
  BY <1>1, <1>3 DEF TalkInv, Pending
<1>9. ShownOK'
  BY <1>1, <1>5 DEF TalkInv, ShownOK, ShownInOrder
<1> QED
  BY <1>6, <1>7, <1>8, <1>9 DEF TalkInv

LEMMA TalkOfSendSeq ==
    ASSUME TalkInv, NEW a \in Agent, NEW waits \in BOOLEAN, SendSeq(a, waits)
    PROVE  TalkInv'
<1>1. /\ handler = Idle /\ seq' = seq + 1 /\ seq < MaxSeq
      /\ handler' = [at |-> "sendMsg", by |-> a, waits |-> waits]
      /\ msg' = msg /\ call' = call /\ cursor' = cursor /\ shown' = shown
  BY DEF SendSeq, MayCall, agents
<1>2. seq \in Nat /\ MaxSeq \in Nat /\ seq' \in 0..MaxSeq
  BY <1>1, HostedAssumption DEF TalkInv, MsgOK, HostedAssumption
<1>3. handler' \in SendHandler
  BY <1>1 DEF SendHandler
<1>4. \A c : After(c)' = After(c)
  BY <1>1 DEF After
<1>5. \A b, n : Covered(b, n)' = Covered(b, n)
  BY <1>1 DEF Covered
<1>6. MsgOK'
  <2>1. DOMAIN msg \subseteq 1..(seq + 1)
    BY <1>2 DEF TalkInv, MsgOK
  <2> QED
    BY <1>1, <1>2, <1>4, <2>1 DEF TalkInv, MsgOK
<1>7. \A b \in Agent : /\ cursor[b] \in Nat /\ cursor[b] <= seq
                       /\ call[b] # Idle => /\ call[b].after \in Nat
                                            /\ cursor[b] <= call[b].after /\ call[b].after <= seq
  BY CallKinds DEF TalkInv, CursorsOK
<1>8. CursorsOK'
  BY <1>1, <1>2, <1>7 DEF TalkInv, CursorsOK
<1>9. Pending'
  BY <1>1, <1>2, <1>7 DEF TalkInv, MsgOK, Pending
<1>10. ShownOK'
  BY <1>1, <1>5 DEF TalkInv, ShownOK, ShownInOrder
<1> QED
  BY <1>3, <1>6, <1>8, <1>9, <1>10 DEF TalkInv

LEMMA TalkOfSendMsg ==
    ASSUME TalkInv, SendMsg
    PROVE  TalkInv'
<1> DEFINE b == handler.by
           entry == [from |-> b, waits |-> handler.waits]
<1>1. handler \in SendHandler /\ b \in Agent
  BY HandlerKinds DEF SendMsg, TalkInv
<1>2. handler.waits \in BOOLEAN
  BY <1>1 DEF SendHandler
<1>3. /\ msg' = [n \in DOMAIN msg \cup {seq} |-> IF n = seq THEN entry ELSE msg[n]]
      /\ seq' = seq /\ handler' = Idle /\ cursor' = cursor /\ shown' = shown
  BY DEF SendMsg, agents
<1>4. /\ handler.waits => call' = [call EXCEPT ![b] = [at |-> "waiting", after |-> seq]]
      /\ ~handler.waits => call' = call
  BY DEF SendMsg
<1>5. handler.waits => entry = [from |-> b, waits |-> TRUE]
  BY <1>2
<1>6. entry \in [from : Agent, waits : BOOLEAN]
  BY <1>1, <1>2
<1> HIDE DEF entry, b
<1>7. /\ seq \in Nat /\ seq \in 0..MaxSeq /\ seq >= 1 /\ seq \notin DOMAIN msg
      /\ DOMAIN msg \subseteq 1..seq
  BY <1>1, HostedAssumption DEF TalkInv, MsgOK, Pending, HostedAssumption
<1>8. \A n \in DOMAIN msg : n \in Nat /\ n < seq
  BY <1>7
<1>9. /\ DOMAIN msg' = DOMAIN msg \cup {seq}
      /\ \A n \in DOMAIN msg : msg'[n] = msg[n]
      /\ msg'[seq] = entry
  BY <1>3, <1>7
<1>10. MsgOK'
  <2>1. DOMAIN msg' \subseteq 1..seq
    BY <1>7, <1>9
  <2>2. msg' \in [DOMAIN msg' -> [from : Agent, waits : BOOLEAN]]
    BY <1>3, <1>6 DEF TalkInv, MsgOK
  <2>3. ASSUME NEW c \in Nat PROVE Listed(After(c)')
    <3>1. Listed(After(c)) /\ After(c) \in SUBSET Nat /\ \A n \in After(c) : n < seq
      BY <1>8 DEF TalkInv, MsgOK, After
    <3>2. CASE seq > c
      <4>1. After(c)' = After(c) \cup {seq}
        BY <1>9, <3>2 DEF After
      <4> HIDE DEF After
      <4>2. Listed(After(c) \cup {seq})
        BY <1>7, <3>1, ListedMore
      <4> QED
        BY <4>1, <4>2
    <3>3. CASE ~(seq > c)
      <4>1. After(c)' = After(c)
        BY <1>9, <3>3 DEF After
      <4> QED
        BY <3>1, <4>1
    <3> QED
      BY <3>2, <3>3
  <2>4. (\A c \in Nat : Listed(After(c)))'
    BY <2>3 DEF Listed
  <2> QED
    BY <1>3, <1>7, <2>1, <2>2, <2>4 DEF MsgOK
<1>11. call \in [Agent -> {Idle} \cup Waiting]
  BY DEF TalkInv, CursorsOK
<1>12. [at |-> "waiting", after |-> seq] \in Waiting
  BY <1>7, CallKinds
<1>13. call' \in [Agent -> {Idle} \cup Waiting]
  <2>1. CASE handler.waits
    BY <1>4, <1>11, <1>12, <2>1
  <2>2. CASE ~handler.waits
    BY <1>4, <1>11, <2>2
  <2> QED
    BY <2>1, <2>2
<1>14. \A a \in Agent : \/ call'[a] = call[a]
                        \/ a = b /\ handler.waits /\ call'[a].after = seq
  <2>1. CASE handler.waits
    <3>1. call'[b].after = seq
      BY <1>1, <1>4, <1>11, <2>1
    <3>2. \A a \in Agent : a # b => call'[a] = call[a]
      BY <1>4, <1>11, <2>1
    <3> QED
      BY <2>1, <3>1, <3>2
  <2>2. CASE ~handler.waits
    BY <1>4, <2>2
  <2> QED
    BY <2>1, <2>2
<1>15. \A a \in Agent : cursor[a] \in Nat /\ cursor[a] <= seq
  BY DEF TalkInv, CursorsOK
<1>16. CursorsOK'
  <2>1. \A a \in Agent : call'[a] # Idle => cursor[a] <= call'[a].after /\ call'[a].after <= seq
    <3> SUFFICES ASSUME NEW a \in Agent, call'[a] # Idle
                 PROVE  cursor[a] <= call'[a].after /\ call'[a].after <= seq
      OBVIOUS
    <3>1. CASE call'[a] = call[a]
      BY <3>1 DEF TalkInv, CursorsOK
    <3>2. CASE call'[a].after = seq
      BY <1>7, <1>15, <3>2
    <3> QED
      BY <1>14, <3>1, <3>2
  <2> QED
    BY <1>3, <1>13, <2>1 DEF TalkInv, CursorsOK
<1>17. Pending'
  BY <1>3, HandlerKinds DEF Pending
<1>18. ASSUME NEW a \in Agent, NEW c \in Nat, Covered(a, c), c < seq,
              NEW n \in DOMAIN msg', n <= c, \A i \in DOMAIN shown[a] : shown[a][i] # n
       PROVE  \E k \in DOMAIN msg' : n <= k /\ k <= c /\ msg'[k] = [from |-> a, waits |-> TRUE]
  <2>1. n \in DOMAIN msg
    BY <1>7, <1>9, <1>18
  <2>2. PICK k \in DOMAIN msg : n <= k /\ k <= c /\ msg[k] = [from |-> a, waits |-> TRUE]
    BY <1>18, <2>1 DEF Covered
  <2>3. k \in DOMAIN msg' /\ msg'[k] = [from |-> a, waits |-> TRUE]
    BY <1>9, <2>2
  <2> QED
    BY <2>2, <2>3
<1>19. \A a \in Agent : Covered(a, cursor[a])'
  <2> SUFFICES ASSUME NEW a \in Agent PROVE Covered(a, cursor[a])'
    OBVIOUS
  <2>1. cursor[a] < seq /\ Covered(a, cursor[a]) /\ cursor[a] \in Nat
    BY <1>1, <1>15 DEF TalkInv, Pending, ShownOK
  <2> QED
    BY <1>3, <1>18, <2>1 DEF Covered
<1>20. \A a \in Agent : call'[a] # Idle => Covered(a, call[a].after)'
  <2> SUFFICES ASSUME NEW a \in Agent, call'[a] # Idle PROVE Covered(a, call[a].after)'
    OBVIOUS
  <2>1. CASE call'[a] = call[a]
    <3>1. call[a].after < seq /\ Covered(a, call[a].after) /\ call[a].after \in Nat
      BY <1>1, <2>1, CallKinds DEF TalkInv, Pending, ShownOK, CursorsOK
    <3> QED
      BY <1>3, <1>18, <2>1, <3>1 DEF Covered
  <2>2. CASE a = b /\ handler.waits /\ call'[a].after = seq
    <3>1. seq \in DOMAIN msg' /\ msg'[seq] = [from |-> a, waits |-> TRUE]
      BY <1>5, <1>9, <2>2
    <3>2. \A n \in DOMAIN msg' : n <= seq
      BY <1>7, <1>9
    <3> QED
      BY <1>7, <2>2, <3>1, <3>2 DEF Covered
  <2> QED
    BY <1>14, <2>1, <2>2
<1>21. ShownOK'
  BY <1>3, <1>19, <1>20 DEF TalkInv, ShownOK, ShownInOrder
<1> QED
  BY <1>3, <1>10, <1>16, <1>17, <1>21 DEF TalkInv

LEMMA TalkOfWait ==
    ASSUME TalkInv, NEW a \in Agent, Wait(a)
    PROVE  TalkInv'
<1>1. /\ call' = [call EXCEPT ![a] = [at |-> "waiting", after |-> cursor[a]]]
      /\ handler = Idle /\ handler' = Idle
      /\ seq' = seq /\ msg' = msg /\ cursor' = cursor /\ shown' = shown
  BY DEF Wait, MayCall, store, agents
<1>2. /\ call \in [Agent -> {Idle} \cup Waiting]
      /\ \A b \in Agent : cursor[b] \in Nat /\ cursor[b] <= seq
  BY DEF TalkInv, CursorsOK
<1>3. [at |-> "waiting", after |-> cursor[a]] \in Waiting
  BY <1>2, CallKinds
<1>4. call' \in [Agent -> {Idle} \cup Waiting]
  BY <1>1, <1>2, <1>3
<1>5. \A b \in Agent : call'[b] = call[b] \/ call'[b].after = cursor[b]
  <2>1. call'[a].after = cursor[a]
    BY <1>1, <1>2
  <2>2. \A b \in Agent : b # a => call'[b] = call[b]
    BY <1>1, <1>2
  <2> QED
    BY <2>1, <2>2
<1>6. \A c : After(c)' = After(c)
  BY <1>1 DEF After
<1>7. \A b, n : Covered(b, n)' = Covered(b, n)
  BY <1>1 DEF Covered
<1>8. MsgOK'
  BY <1>1, <1>6 DEF TalkInv, MsgOK
<1>9. seq \in Nat
  BY DEF TalkInv, MsgOK
<1>10. CursorsOK'
  <2>1. \A b \in Agent : call'[b] # Idle => cursor[b] <= call'[b].after /\ call'[b].after <= seq
    <3> SUFFICES ASSUME NEW b \in Agent, call'[b] # Idle
                 PROVE  cursor[b] <= call'[b].after /\ call'[b].after <= seq
      OBVIOUS
    <3>1. CASE call'[b] = call[b]
      BY <3>1 DEF TalkInv, CursorsOK
    <3>2. CASE call'[b].after = cursor[b]
      BY <1>2, <3>2
    <3> QED
      BY <1>5, <3>1, <3>2
  <2> QED
    BY <1>1, <1>2, <1>4, <2>1 DEF TalkInv, CursorsOK
<1>11. Pending'
  BY <1>1, HandlerKinds DEF Pending
<1>12. \A b \in Agent : call'[b] # Idle => Covered(b, call'[b].after)
  BY <1>5 DEF TalkInv, ShownOK
<1>13. ShownOK'
  <2>1. \A b \in Agent : Covered(b, cursor[b])' = Covered(b, cursor[b])
    BY <1>1 DEF Covered
  <2>2. \A b \in Agent : call'[b] # Idle => Covered(b, call[b].after)'
    BY <1>1, <1>12 DEF Covered
  <2> QED
    BY <1>1, <2>1, <2>2 DEF TalkInv, ShownOK, ShownInOrder
<1> QED
  BY <1>1, <1>8, <1>10, <1>11, <1>13 DEF TalkInv

(* Receive, and the end of a wait: the messages after a position that is covered and
   not before the cursor are shown. *)
LEMMA TalkOfShow ==
    ASSUME TalkInv, NEW a \in Agent, NEW after \in Nat, Show(a, after),
           cursor[a] <= after, after <= seq, Covered(a, after),
           handler = Idle, UNCHANGED <<seq, msg, handler>>,
           \/ call' = call /\ call[a] = Idle
           \/ call' = [call EXCEPT ![a] = Idle]
    PROVE  TalkInv'
<1>1. PICK new \in Seq(After(after)) :
        /\ \A i, j \in DOMAIN new : i < j => new[i] < new[j]
        /\ \A n \in After(after) : \E i \in DOMAIN new : new[i] = n
        /\ shown' = [shown EXCEPT ![a] = shown[a] \o new]
        /\ cursor' = [cursor EXCEPT ![a] = IF new = <<>> THEN after ELSE new[Len(new)]]
  BY ShowShows DEF TalkInv, ShownOK
<1> DEFINE k == Len(shown[a])
           m == Len(new)
           last == IF new = <<>> THEN after ELSE new[m]
           all == shown[a] \o new
<1>2. m \in Nat /\ DOMAIN new = 1..m /\ (new = <<>> \/ m # 0)
  BY SeqShape
<1>3. \A i \in 1..m : new[i] \in After(after)
  BY <1>2, ElementOfSeq
<1>4. \A n \in After(after) : n \in DOMAIN msg /\ n \in Nat /\ n > after /\ n <= seq /\ n >= 1
  BY DEF After, TalkInv, MsgOK
<1>5. /\ shown \in [Agent -> Seq(Nat)] /\ cursor \in [Agent -> Nat]
      /\ seq \in Nat
      /\ shown[a] \in Seq(Nat)
      /\ \A i \in DOMAIN shown[a] : shown[a][i] \in 1..cursor[a]
      /\ \A i, j \in DOMAIN shown[a] : i < j => shown[a][i] < shown[a][j]
  BY DEF TalkInv, ShownOK, CursorsOK, ShownInOrder, MsgOK
<1>6. k \in Nat /\ DOMAIN shown[a] = 1..k
  BY <1>5, LenProperties
<1>7. new \in Seq(Nat)
  <2>1. After(after) \subseteq Nat
    BY <1>4
  <2> QED
    BY <2>1, SeqMonotonic
<1>8. /\ all \in Seq(Nat) /\ Len(all) = k + m
      /\ \A i \in 1..(k + m) : all[i] = IF i <= k THEN shown[a][i] ELSE new[i - k]
  BY <1>5, <1>7, ConcatProperties
<1>9. DOMAIN all = 1..(k + m)
  BY <1>8, LenProperties
<1>10. /\ shown' = [shown EXCEPT ![a] = all]
       /\ cursor' = [cursor EXCEPT ![a] = last]
  BY <1>1
<1> HIDE DEF all, k, m
<1>11. /\ last \in Nat /\ after <= last /\ last <= seq
       /\ \A i \in 1..m : new[i] <= last
  <2>1. CASE new = <<>>
    <3>1. m = 0
      BY <2>1, EmptySeq DEF m
    <3> QED
      BY <1>5, <2>1, <3>1
  <2>2. CASE new # <<>>
    <3>1. m \in 1..m /\ last = new[m]
      BY <1>2, <2>2
    <3>2. \A i \in 1..m : i = m \/ i < m
      BY <1>2
    <3>3. last \in Nat /\ after <= last /\ last <= seq
      BY <1>3, <1>4, <3>1
    <3>4. \A i \in 1..m : new[i] \in Nat
      BY <1>3, <1>4
    <3>5. \A i \in 1..m : i < m => new[i] < new[m]
      BY <1>1, <1>2, <3>1
    <3>6. new[m] \in Nat
      BY <3>1, <3>4
    <3> QED
      BY <3>1, <3>2, <3>3, <3>4, <3>5, <3>6
  <2> QED
    BY <2>1, <2>2
<1> HIDE DEF last
<1>12. \A b \in Agent : /\ shown'[b] = IF b = a THEN all ELSE shown[b]
                        /\ cursor'[b] = IF b = a THEN last ELSE cursor[b]
  BY <1>5, <1>10
<1>13. shown' \in [Agent -> Seq(Nat)] /\ cursor' \in [Agent -> Nat]
  BY <1>5, <1>8, <1>10, <1>11
<1>14. \A i \in 1..(k + m) : \/ i \in 1..k /\ all[i] = shown[a][i]
                             \/ ~(i <= k) /\ i - k \in 1..m /\ all[i] = new[i - k]
  BY <1>2, <1>6, <1>8
<1>15. \A i \in DOMAIN all : all[i] \in 1..last
  <2> SUFFICES ASSUME NEW i \in 1..(k + m) PROVE all[i] \in 1..last
    BY <1>9
  <2>1. CASE i \in 1..k /\ all[i] = shown[a][i]
    <3>1. all[i] \in 1..cursor[a] /\ cursor[a] \in Nat
      BY <1>5, <1>6, <2>1
    <3> QED
      BY <1>11, <3>1
  <2>2. CASE i - k \in 1..m /\ all[i] = new[i - k]
    BY <1>3, <1>4, <1>11, <2>2
  <2> QED
    BY <1>14, <2>1, <2>2
<1>16. \A i, j \in DOMAIN all : i < j => all[i] < all[j]
  <2> SUFFICES ASSUME NEW i \in 1..(k + m), NEW j \in 1..(k + m), i < j PROVE all[i] < all[j]
    BY <1>9
  <2>1. CASE i \in 1..k /\ all[i] = shown[a][i] /\ j \in 1..k /\ all[j] = shown[a][j]
    BY <1>5, <1>6, <2>1
  <2>2. CASE i \in 1..k /\ all[i] = shown[a][i] /\ j - k \in 1..m /\ all[j] = new[j - k]
    <3>1. shown[a][i] \in 1..cursor[a] /\ cursor[a] \in Nat
      BY <1>5, <1>6, <2>2
    <3>2. new[j - k] \in Nat /\ new[j - k] > after
      BY <1>3, <1>4, <2>2
    <3> QED
      BY <2>2, <3>1, <3>2
  <2>3. CASE i - k \in 1..m /\ all[i] = new[i - k] /\ j - k \in 1..m /\ all[j] = new[j - k]
    <3>1. i - k < j - k
      BY <1>6
    <3> QED
      BY <1>1, <1>2, <2>3, <3>1
  <2>4. ~(i <= k) => ~(j <= k)
    BY <1>6
  <2>5. j \in 1..k => j <= k
    BY <1>6
  <2> QED
    BY <1>14, <2>1, <2>2, <2>3, <2>4, <2>5
<1>17. \A b, c : b # a /\ b \in Agent => Covered(b, c)' = Covered(b, c)
  BY <1>12 DEF Covered
<1>18. ASSUME NEW n \in DOMAIN msg, n <= last, \A i \in DOMAIN all : all[i] # n
       PROVE  \E p \in DOMAIN msg : n <= p /\ p <= last /\ msg[p] = [from |-> a, waits |-> TRUE]
  <2>1. n \in Nat
    BY DEF TalkInv, MsgOK
  <2>2. n \notin After(after)
    <3> SUFFICES ASSUME n \in After(after) PROVE FALSE
      OBVIOUS
    <3>1. PICK i \in 1..m : new[i] = n
      BY <1>1, <1>2
    <3>2. k + i \in 1..(k + m) /\ ~(k + i <= k) /\ (k + i) - k = i
      BY <1>2, <1>6
    <3>3. all[k + i] = n
      BY <1>8, <3>1, <3>2
    <3> QED
      BY <1>9, <1>18, <3>2, <3>3
  <2>3. n <= after
    BY <2>1, <2>2 DEF After
  <2>4. \A i \in DOMAIN shown[a] : shown[a][i] # n
    <3> SUFFICES ASSUME NEW i \in 1..k PROVE shown[a][i] # n
      BY <1>6
    <3>1. i \in 1..(k + m) /\ i <= k
      BY <1>2, <1>6
    <3>2. all[i] = shown[a][i]
      BY <1>8, <3>1
    <3> QED
      BY <1>9, <1>18, <3>1, <3>2
  <2>5. PICK p \in DOMAIN msg : n <= p /\ p <= after /\ msg[p] = [from |-> a, waits |-> TRUE]
    BY <2>3, <2>4 DEF Covered
  <2>6. p \in Nat
    BY DEF TalkInv, MsgOK
  <2>7. p <= last
    BY <1>11, <2>5, <2>6
  <2> QED
    BY <2>5, <2>7
<1>19. Covered(a, cursor[a])'
  BY <1>12, <1>18 DEF Covered
<1>20. \A b \in Agent : b # a => call'[b] = call[b]
  BY DEF TalkInv, CursorsOK
<1>21. call'[a] = Idle
  BY DEF TalkInv, CursorsOK
<1>22. call' \in [Agent -> {Idle} \cup Waiting]
  BY DEF TalkInv, CursorsOK
<1>23. \A c : After(c)' = After(c)
  BY DEF After
<1>24. MsgOK'
  BY <1>23 DEF TalkInv, MsgOK
<1>25. CursorsOK'
  BY <1>11, <1>12, <1>13, <1>20, <1>21, <1>22 DEF TalkInv, CursorsOK
<1>26. Pending'
  BY HandlerKinds DEF Pending
<1>27. \A b \in Agent : \A i \in DOMAIN shown'[b] : shown'[b][i] \in 1..cursor'[b]
  BY <1>12, <1>15 DEF TalkInv, ShownOK
<1>28. ShownInOrder'
  BY <1>12, <1>16 DEF TalkInv, ShownOK, ShownInOrder
<1>29. \A b \in Agent : Covered(b, cursor[b])'
  <2> SUFFICES ASSUME NEW b \in Agent, b # a PROVE Covered(b, cursor[b])'
    BY <1>19
  <2>1. cursor'[b] = cursor[b] /\ Covered(b, cursor[b]) /\ shown'[b] = shown[b]
    BY <1>12 DEF TalkInv, ShownOK
  <2> QED
    BY <2>1 DEF Covered
<1>30. \A b \in Agent : call'[b] # Idle => Covered(b, call[b].after)'
  <2> SUFFICES ASSUME NEW b \in Agent, b # a, call'[b] # Idle PROVE Covered(b, call[b].after)'
    BY <1>21
  <2>1. call'[b] = call[b] /\ Covered(b, call[b].after) /\ shown'[b] = shown[b]
    BY <1>12, <1>20 DEF TalkInv, ShownOK
  <2> QED
    BY <2>1 DEF Covered
<1>31. ShownOK'
  BY <1>13, <1>27, <1>28, <1>29, <1>30 DEF ShownOK
<1> QED
  BY <1>24, <1>25, <1>26, <1>31 DEF TalkInv

LEMMA TalkStep == TalkInv /\ [Next]_vars => TalkInv'
<1> SUFFICES ASSUME TalkInv, [Next]_vars PROVE TalkInv'
  OBVIOUS
<1>1. ASSUME NEW wish \in Wish, NEW request \in Request \cup {Nothing}, Open(wish, request)
      PROVE  TalkInv'
  <2>1. Opener \in Agent
    BY DEF Agent
  <2>2. handler' \in JoinHandler /\ UNCHANGED <<seq, msg, cursor, shown, call>>
    BY <1>1, <2>1 DEF Open, JoinHandler, agents
  <2> QED
    BY <2>2, TalkKept
<1>2. ASSUME NEW a \in Agent, NEW request \in Request \cup {Nothing}, Join(a, request)
      PROVE  TalkInv'
  <2>1. handler' \in JoinHandler /\ UNCHANGED <<seq, msg, cursor, shown, call>>
    BY <1>2 DEF Join, JoinMember, JoinHandler, agents
  <2> QED
    BY <2>1, TalkKept
<1>3. CASE JoinRoles
  <2>1. handler' = Idle /\ UNCHANGED <<seq, msg, cursor, shown, call>>
    BY <1>3 DEF JoinRoles
  <2> QED
    BY <2>1, TalkKept
<1>4. ASSUME NEW a \in Talker, NEW waits \in BOOLEAN, SendSeq(a, waits)
      PROVE  TalkInv'
  <2>1. a \in Agent
    BY HostedAssumption DEF HostedAssumption
  <2> QED
    BY <1>4, <2>1, TalkOfSendSeq
<1>5. CASE SendMsg
  BY <1>5, TalkOfSendMsg
<1>6. ASSUME NEW a \in Talker, Receive(a)
      PROVE  TalkInv'
  <2>1. a \in Agent
    BY HostedAssumption DEF HostedAssumption
  <2>2. Show(a, cursor[a]) /\ handler = Idle /\ call' = call /\ call[a] = Idle
        /\ UNCHANGED <<seq, msg, handler>>
    BY <1>6 DEF Receive, MayCall, store
  <2>3. cursor[a] \in Nat /\ cursor[a] <= seq /\ cursor[a] <= cursor[a] /\ Covered(a, cursor[a])
    BY <2>1 DEF TalkInv, CursorsOK, ShownOK
  <2> QED
    BY <2>1, <2>2, <2>3, TalkOfShow
<1>7. ASSUME NEW a \in Talker, WaitReturns(a)
      PROVE  TalkInv'
  <2>1. a \in Agent
    BY HostedAssumption DEF HostedAssumption
  <2>2. Show(a, call[a].after) /\ handler = Idle /\ call' = [call EXCEPT ![a] = Idle]
        /\ UNCHANGED <<seq, msg, handler>>
    BY <1>7 DEF WaitReturns, store
  <2>3. call[a] \in Waiting /\ call[a] # Idle
    <3>1. call[a].at = "waiting" /\ Idle.at = "idle"
      BY <1>7 DEF WaitReturns, Idle
    <3> QED
      BY <2>1, <3>1 DEF TalkInv, CursorsOK
  <2>4. /\ call[a].after \in Nat /\ call[a].after <= seq /\ cursor[a] <= call[a].after
        /\ Covered(a, call[a].after)
    BY <2>1, <2>3, CallKinds DEF TalkInv, CursorsOK, ShownOK
  <2> QED
    BY <2>1, <2>2, <2>4, TalkOfShow
<1>8. ASSUME NEW a \in Talker, Wait(a)
      PROVE  TalkInv'
  <2>1. a \in Agent
    BY HostedAssumption DEF HostedAssumption
  <2> QED
    BY <1>8, <2>1, TalkOfWait
<1>9. CASE Reset
  <2>1. /\ handler' = Idle /\ call' = [a \in Agent |-> Idle]
        /\ UNCHANGED <<seq, msg, cursor, shown>>
    BY <1>9 DEF Reset, agents, store
  <2> QED
    BY <2>1, TalkKept
<1>10. CASE UNCHANGED vars
  <2>1. handler' = handler /\ UNCHANGED <<seq, msg, cursor, shown, call>>
    BY <1>10 DEF vars, agents, store
  <2> QED
    BY <2>1, TalkKept
<1> QED
  BY <1>1, <1>2, <1>3, <1>4, <1>5, <1>6, <1>7, <1>8, <1>9, <1>10
  DEF Next, Send, SendAndWait, Deliver, TimeOut

LEMMA AlwaysTalk == Spec => []TalkInv
BY TalkInit, TalkStep, PTL DEF Spec

LEMMA ResetsBounded == Spec => [](resets \in 0..MaxReset)
<1>1. MaxReset \in Nat
  BY HostedAssumption DEF HostedAssumption
<1>2. Init => resets \in 0..MaxReset
  BY <1>1 DEF Init
<1>3. resets \in 0..MaxReset /\ [Next]_vars => (resets \in 0..MaxReset)'
  <2> SUFFICES ASSUME resets \in 0..MaxReset, [Next]_vars PROVE resets' \in 0..MaxReset
    OBVIOUS
  <2>1. CASE Reset
    BY <1>1, <2>1 DEF Reset
  <2>2. CASE resets' = resets
    BY <2>2
  <2>3. Reset \/ resets' = resets
    BY DEF Next, vars, Open, Join, JoinMember, JoinRoles, Send, SendAndWait, SendSeq, SendMsg,
           Receive, Wait, Deliver, TimeOut, WaitReturns
  <2> QED
    BY <2>1, <2>2, <2>3
<1> QED
  BY <1>2, <1>3, PTL DEF Spec

(* No agent is shown a message twice or out of order, through timeouts, resets and calls of
   different tools (the tools receive, wait_for_message and send_and_wait). *)
THEOREM MessagesAreShownInOrder == Spec => []ShownInOrder
<1>1. TalkInv => ShownInOrder
  BY DEF TalkInv, ShownOK
<1> QED
  BY <1>1, AlwaysTalk, PTL

(* Whatever an agent's cursor has passed without showing lies before, or is, a message that
   the agent made by send_and_wait (index.ts:272): nothing else loses messages. *)
THEOREM NothingElsePasses == Spec => []OnlySendAndWaitPasses
<1>1. TalkInv => OnlySendAndWaitPasses
  BY DEF TalkInv, ShownOK, Covered, OnlySendAndWaitPasses, Passed
<1> QED
  BY <1>1, AlwaysTalk, PTL

(* Every variable of a hosted room has its type, and no name is a member twice, though a
   reset may come between any two puts. *)
THEOREM HostedTypeCorrect == Spec => []TypeOK
<1>1. RoomInv /\ TalkInv /\ resets \in 0..MaxReset => TypeOK
  <2> SUFFICES ASSUME RoomInv, TalkInv, resets \in 0..MaxReset PROVE TypeOK
    OBVIOUS
  <2>1. call \in [Agent -> {Idle} \cup [at : {"waiting"}, after : 0..seq]]
    <3>1. call \in [Agent -> {Idle} \cup Waiting] /\ seq \in Nat
      BY DEF TalkInv, CursorsOK, MsgOK
    <3>2. ASSUME NEW a \in Agent, call[a] # Idle
          PROVE  call[a] \in [at : {"waiting"}, after : 0..seq]
      <4>1. call[a] \in Waiting /\ call[a].after <= seq /\ call[a].after \in Nat
        BY <3>1, <3>2, CallKinds DEF TalkInv, CursorsOK
      <4>2. call[a].after \in 0..seq
        BY <3>1, <4>1
      <4> QED
        BY <4>1, <4>2 DEF Waiting
    <3> QED
      BY <3>1, <3>2
  <2>2. cursor \in [Agent -> 0..seq]
    BY DEF TalkInv, CursorsOK, MsgOK
  <2>3. shown \in [Agent -> Seq(1..seq)]
    <3> SUFFICES ASSUME NEW a \in Agent PROVE shown[a] \in Seq(1..seq)
      BY DEF TalkInv, ShownOK
    <3> DEFINE s == shown[a]
               k == Len(s)
    <3>1. s \in Seq(Nat)
      BY DEF TalkInv, ShownOK
    <3>2. k \in Nat /\ DOMAIN s = 1..k /\ s \in [1..k -> Nat]
      BY <3>1, LenProperties
    <3>3. \A i \in DOMAIN s : s[i] \in 1..cursor[a]
      BY DEF TalkInv, ShownOK
    <3>4. cursor[a] \in Nat /\ cursor[a] <= seq /\ seq \in Nat
      BY DEF TalkInv, CursorsOK, MsgOK
    <3> HIDE DEF s, k
    <3>5. \A i \in 1..k : s[i] \in 1..seq
      BY <3>2, <3>3, <3>4
    <3>6. s \in [1..k -> 1..seq]
      BY <3>2, <3>5
    <3>7. s \in Seq(1..seq)
      BY <3>2, <3>6, SeqOfFunction
    <3> QED
      BY <3>7 DEF s
  <2>4. told => open # Nothing
    BY HostedAssumption DEF RoomInv, HostedAssumption
  <2>5. handler \in {Idle}
           \cup [at : {"joinRoles"}, by : Agent, request : Request \cup {Nothing}]
           \cup [at : {"sendMsg"}, by : Agent, waits : BOOLEAN]
    BY DEF TalkInv, JoinHandler, SendHandler
  <2>6. /\ open \in {Nothing} \cup OpenedRoom
        /\ members \in Seq(Agent) /\ Len(members) = Cardinality(Arrived)
        /\ roles \in [Agent -> Role \cup {Nothing}]
        /\ told \in BOOLEAN
    BY DEF RoomInv, MembersOK
  <2>7. /\ seq \in 0..MaxSeq
        /\ DOMAIN msg \subseteq 1..seq
        /\ msg \in [DOMAIN msg -> [from : Agent, waits : BOOLEAN]]
    BY DEF TalkInv, MsgOK
  <2> QED
    BY <2>1, <2>2, <2>3, <2>4, <2>5, <2>6, <2>7 DEF TypeOK
<1> QED
  BY <1>1, AlwaysRoom, AlwaysTalk, ResetsBounded, PTL

=============================================================================

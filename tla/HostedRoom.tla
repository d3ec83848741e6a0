----------------------------- MODULE HostedRoom -----------------------------
(***************************************************************************)
(* A room of the hosted service (apps/mcp/src/room.ts) and the agents that   *)
(* use it through the tools of apps/mcp/src/index.ts.  The Durable Object     *)
(* runs one handler at a time; a reset may come between two of its puts and    *)
(* ends every call that runs on it.  An agent makes one call at a time, and    *)
(* passes each wait or receive the cursor its last one returned, as it is told *)
(* to.  A wait is the blocking read that LongPoll is shown to implement.       *)
(*                                                                         *)
(* The opener shares the code that open_room told it.  When its call was cut    *)
(* short it has no code, and opens another room: that one is followed.  An agent *)
(* stands for its display name; texts, types and briefs are left out, and         *)
(* pause_for_human is a send.                                                  *)
(***************************************************************************)
EXTENDS Integers, Sequences, FiniteSets, Kinds

CONSTANTS
    Opener,    \* the agent that opens the room
    Guest,     \* the agents that are given its code
    Talker,    \* those of them that talk, the others only join
    Wish,      \* what open_room may be asked for: a kind, and roles for a custom one
    Request,   \* the roles an agent may ask for
    Nothing,   \* "nothing": no role asked for or stored, no room
    MaxSeq,    \* bound: how many messages are sent
    MaxReset   \* bound: how often the object is reset

Agent == {Opener} \cup Guest

(* The rooms that can be opened, the roles they have, and all roles. *)
OpenedRoom ==
    [kind : {"chat"} \cup {wish.kind : wish \in Wish},
     customRoles : {wish.customRoles : wish \in Wish}]
RoleKeys == {KINDS[kind] : kind \in DOMAIN KINDS} \cup {wish.customRoles : wish \in Wish}
Role == Request \cup {"participant"} \cup UNION {{keys[i] : i \in DOMAIN keys} : keys \in RoleKeys}

ASSUME HostedAssumption ==
    /\ Opener \notin Guest
    /\ IsFiniteSet(Guest)
    /\ Talker \subseteq Agent
    /\ Wish \subseteq [kind : STRING, customRoles : Seq(STRING)]
    /\ Request \subseteq STRING
    /\ Nothing \notin STRING \cup OpenedRoom
    /\ MaxSeq \in Nat
    /\ MaxReset \in Nat

VARIABLES
    \* the store
    open,      \* "open" with "kind" and "customRoles", or Nothing
    members,   \* "members", in order of arrival
    roles,     \* "roles"
    seq,       \* "seq"
    msg,       \* "msg:<n>": who sent it, and whether by send_and_wait
    \* memory
    handler,   \* the handler between two of its puts, or Idle
    call,      \* call[a]: the wait that agent a is blocked in, or Idle
    \* the agents
    told,      \* the opener was told the code
    cursor,    \* cursor[a]: the cursor a was returned last
    shown,     \* shown[a]: the numbers of the messages shown to a, in order
    resets

store == <<open, members, roles, seq, msg>>
agents == <<told, cursor, shown>>
vars == <<store, handler, call, agents, resets>>

Idle == [at |-> "idle"]
Arrived == {members[i] : i \in DOMAIN members}

Init ==
    /\ open = Nothing
    /\ members = <<>>
    /\ roles = [a \in Agent |-> Nothing]
    /\ seq = 0
    /\ msg = [n \in {} |-> n]
    /\ handler = Idle
    /\ call = [a \in Agent |-> Idle]
    /\ told = FALSE
    /\ cursor = [a \in Agent |-> 0]
    /\ shown = [a \in Agent |-> <<>>]
    /\ resets = 0

MayCall(a) == told /\ handler = Idle /\ call[a] = Idle

-----------------------------------------------------------------------------
(* The tool open_room: a room under a fresh code, its name never heard of before.  The puts
   of open and that of the first member are one step: a reset between them leaves a room
   that nobody has the code of, as one after them does. *)
Open(wish, request) ==
    /\ ~told
    /\ handler = Idle
    /\ open' = [kind |-> IF wish.kind = "" THEN "chat" ELSE wish.kind,
                customRoles |-> wish.customRoles]
    /\ members' = <<Opener>>
    /\ roles' = [a \in Agent |-> Nothing]
    /\ handler' = [at |-> "joinRoles", by |-> Opener, request |-> request]
    /\ UNCHANGED <<seq, msg, call, agents, resets>>

RoleAt(order) == AssignRole(HostedRoleKeys(open.kind, open.customRoles), order)

(* Room.join: the member is put at the end of "members" unless it is there, then
   its role is put.  A name may join again, with another request. *)

(* Mutant: a name that joins again is put again. *)
JoinMemberAgain(a, request) ==
    /\ Len(members) <= Cardinality(Agent)
    /\ members' = Append(members, a)
    /\ handler' = [at |-> "joinRoles", by |-> a, request |-> request]
    /\ UNCHANGED <<open, roles, seq, msg, call, agents, resets>>

JoinMember(a, request) ==
    /\ members' = IF a \in Arrived THEN members ELSE Append(members, a)
    /\ handler' = [at |-> "joinRoles", by |-> a, request |-> request]
    /\ UNCHANGED <<open, roles, seq, msg, call, agents, resets>>

(* The tool join_room; a code that was never opened is answered with an error. *)
Join(a, request) == MayCall(a) /\ JoinMember(a, request)

(* Mutant: the order is taken from the number of members. *)
AssignedByLength(a, request) ==
    IF roles[a] # Nothing THEN roles[a]
    ELSE IF request # Nothing THEN request
    ELSE RoleAt(Len(members))

Assigned(a, request) ==
    IF roles[a] # Nothing THEN roles[a]
    ELSE IF request # Nothing THEN request
    ELSE RoleAt((CHOOSE i \in DOMAIN members : members[i] = a) - 1)

(* open_room answers with the code. *)
TellCode == told' = (told \/ handler.by = Opener)

JoinRoles ==
    /\ handler.at = "joinRoles"
    /\ roles' = [roles EXCEPT ![handler.by] = Assigned(handler.by, handler.request)]
    /\ handler' = Idle
    /\ TellCode
    /\ UNCHANGED <<open, members, seq, msg, call, cursor, shown, resets>>

-----------------------------------------------------------------------------
(* Room.send: "seq", then the message.  Nobody checks that the sender joined.  *)
(* The tools send and pause_for_human end there and return no cursor.          *)

SendSeq(a, waits) ==
    /\ MayCall(a)
    /\ seq < MaxSeq
    /\ seq' = seq + 1
    /\ handler' = [at |-> "sendMsg", by |-> a, waits |-> waits]
    /\ UNCHANGED <<open, members, roles, msg, call, agents, resets>>

Send(a) == SendSeq(a, FALSE)

(* The tool goes on to wait for what follows its message. *)
SendAndWait(a) == SendSeq(a, TRUE)

(* Mutant: send moves the sender's cursor to its message. *)
SendMsgMovesCursor ==
    /\ handler.at = "sendMsg"
    /\ msg' = [n \in DOMAIN msg \cup {seq} |->
                IF n = seq THEN [from |-> handler.by, waits |-> handler.waits] ELSE msg[n]]
    /\ call' = IF handler.waits
                 THEN [call EXCEPT ![handler.by] = [at |-> "waiting", after |-> seq]] ELSE call
    /\ cursor' = [cursor EXCEPT ![handler.by] = seq]
    /\ handler' = Idle
    /\ UNCHANGED <<open, members, roles, seq, told, shown, resets>>

SendMsg ==
    /\ handler.at = "sendMsg"
    /\ msg' = [n \in DOMAIN msg \cup {seq} |->
                IF n = seq THEN [from |-> handler.by, waits |-> handler.waits] ELSE msg[n]]
    /\ call' = IF handler.waits
                 THEN [call EXCEPT ![handler.by] = [at |-> "waiting", after |-> seq]] ELSE call
    /\ handler' = Idle
    /\ UNCHANGED <<open, members, roles, seq, agents, resets>>

-----------------------------------------------------------------------------
(* Mutants: the range starts one too late; at the cursor. *)
AfterNext(c) == {n \in DOMAIN msg : n > c + 1}
AfterInclusive(c) == {n \in DOMAIN msg : n >= c}
(* Room.receive: the messages after the cursor, and the last of them. *)
After(c) == {n \in DOMAIN msg : n > c}

Ascending(S) == CHOOSE s \in [1..Cardinality(S) -> S] : \A i, j \in DOMAIN s : i < j => s[i] < s[j]

Show(a, after) ==
    LET new == Ascending(After(after)) IN
    /\ shown' = [shown EXCEPT ![a] = @ \o new]
    /\ cursor' = [cursor EXCEPT ![a] = IF new = <<>> THEN after ELSE new[Len(new)]]

Receive(a) ==
    /\ MayCall(a)
    /\ Show(a, cursor[a])
    /\ UNCHANGED <<store, handler, call, told, resets>>

(* The tool wait_for_message. *)
Wait(a) ==
    /\ MayCall(a)
    /\ call' = [call EXCEPT ![a] = [at |-> "waiting", after |-> cursor[a]]]
    /\ UNCHANGED <<store, handler, agents, resets>>

(* Room.wait returns the messages after the call's cursor once there are any; when
   the time is up and there are none, it returns that cursor. *)
WaitReturns(a) ==
    /\ handler = Idle
    /\ call[a].at = "waiting"
    /\ Show(a, call[a].after)
    /\ call' = [call EXCEPT ![a] = Idle]
    /\ UNCHANGED <<store, handler, told, resets>>

Deliver(a) == call[a] # Idle /\ After(call[a].after) # {} /\ WaitReturns(a)
TimeOut(a) == call[a] # Idle /\ After(call[a].after) = {} /\ WaitReturns(a)

(* The object is reset: the running handler and the waits fail. *)
Reset ==
    /\ handler # Idle \/ \E a \in Agent : call[a] # Idle
    /\ resets < MaxReset
    /\ resets' = resets + 1
    /\ handler' = Idle
    /\ call' = [a \in Agent |-> Idle]
    /\ UNCHANGED <<store, agents>>

Next ==
    \/ \E wish \in Wish, request \in Request \cup {Nothing} : Open(wish, request)
    \/ \E a \in Agent, request \in Request \cup {Nothing} : Join(a, request)
    \/ JoinRoles
    \/ \E a \in Talker : Send(a)
    \/ \E a \in Talker : SendAndWait(a)
    \/ SendMsg
    \/ \E a \in Talker : Receive(a)
    \/ \E a \in Talker : Wait(a)
    \/ \E a \in Talker : Deliver(a)
    \/ \E a \in Talker : TimeOut(a)
    \/ Reset

Spec == Init /\ [][Next]_vars

(* Handlers end, waits end when they should, and those that talk keep listening: the tool
   tells them to call it again.  The object takes the calls that wait for their
   turn in order, so none is passed over for ever. *)
Fairness ==
    /\ WF_vars(JoinRoles)
    /\ WF_vars(SendMsg)
    /\ \A a \in Talker : SF_vars(Deliver(a)) /\ SF_vars(TimeOut(a)) /\ SF_vars(Wait(a))

FairSpec == Spec /\ Fairness

-----------------------------------------------------------------------------
(* Every variable has its type, and no name is a member twice. *)
TypeOK ==
    /\ open \in {Nothing} \cup OpenedRoom
    /\ members \in Seq(Agent)
    /\ Len(members) = Cardinality(Arrived)
    /\ roles \in [Agent -> Role \cup {Nothing}]
    /\ seq \in 0..MaxSeq
    /\ DOMAIN msg \subseteq 1..seq
    /\ msg \in [DOMAIN msg -> [from : Agent, waits : BOOLEAN]]
    /\ handler \in {Idle}
         \cup [at : {"joinRoles"}, by : Agent, request : Request \cup {Nothing}]
         \cup [at : {"sendMsg"}, by : Agent, waits : BOOLEAN]
    /\ call \in [Agent -> {Idle} \cup [at : {"waiting"}, after : 0..seq]]
    /\ told \in BOOLEAN /\ (told => open # Nothing)
    /\ cursor \in [Agent -> 0..seq]
    /\ shown \in [Agent -> Seq(1..seq)]
    /\ resets \in 0..MaxReset

(* An agent that was not given a role it asked for has the one of its place in the
   order of arrival (kinds.ts:109), even when a join before it, or its own first one,
   was cut short before its role was put. *)
RoleByArrival ==
    \A i \in DOMAIN members :
        roles[members[i]] \in Request \cup {Nothing, RoleAt(i - 1)}

(* With a predefined kind, a hosted room gives whoever asked for no role the context that
   a key-holding client gives, which knows only that it opens or joins ("the single
   role-assignment strategy shared by both tiers", kinds.ts:108-109). *)
TiersAgree ==
    open # Nothing /\ open.kind \in DOMAIN KINDS =>
        \A i \in DOMAIN members :
            LET role == roles[members[i]]
                clients == IF i = 1 THEN OpenRoomRole(open.kind) ELSE JoinRoomRole(open.kind)
            IN role \notin Request \cup {Nothing} =>
                 RoomContext(open.kind, role, HostedGuidance(open.kind, role, open.customRoles))
                   = RoomContext(open.kind, clients, NoGuidance)

(* No agent is shown a message twice or out of order, through timeouts, resets and
   calls of different tools ("never ... repeat a message", index.ts:54). *)
ShownInOrder ==
    \A a \in Agent : \A i, j \in DOMAIN shown[a] : i < j => shown[a][i] < shown[a][j]

(* The messages an agent's cursor has passed without their being shown to it. *)
Passed(a) == {n \in DOMAIN msg : n <= cursor[a] /\ \A i \in DOMAIN shown[a] : shown[a][i] # n}

(* Only a send_and_wait passes over messages: what was passed is the agent's own
   post or lies before one that it made by send_and_wait (index.ts:272). *)
OnlySendAndWaitPasses ==
    \A a \in Agent : \A n \in Passed(a) :
        \E k \in DOMAIN msg : n <= k /\ k <= cursor[a] /\ msg[k] = [from |-> a, waits |-> TRUE]

(* Whoever listens gets to every message in the end. *)
EveryoneListens == \A a \in Talker, n \in 1..MaxSeq : n \in DOMAIN msg ~> cursor[a] >= n

=============================================================================

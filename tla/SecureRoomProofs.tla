-------------------------- MODULE SecureRoomProofs --------------------------
(***************************************************************************)
(* For every number of joiners, calls at once, messages, keys and lost calls:  *)
(* the types of the clients and the relay, and the safety properties of        *)
(* SecureRoom.                                                              *)
(***************************************************************************)
EXTENDS SecureRoom, TLAPS, FiniteSetTheorems, SequenceTheorems

-----------------------------------------------------------------------------
(* The state of a call.                                                      *)

StatusAnswer == [epoch : Epoch, members : SUBSET Member]
KeyPost == [epoch : Epoch, key : Key, members : SUBSET Member]
Awaiting(op, at, sent) == [op |-> op, at |-> at, sent |-> sent, told |-> NoAnswer]

(* What a call that begins to wait for a relay call may look like. *)
LEMMA AwaitIsCall ==
    ASSUME NEW op \in Method
    PROVE  /\ Idle \in Call
           /\ Awaiting(op, "joinSession", 0) \in Call
           /\ Awaiting(op, "status", 0) \in Call
           /\ \A k \in KeyPost : Awaiting(op, "postKeys", k) \in Call
           /\ \A e \in Epoch : Awaiting(op, "getKey", e) \in Call
           /\ \A n \in Nat : Awaiting(op, "getMessages", n) \in Call
           /\ \A m \in Message : Awaiting(op, "postMessage", m) \in Call
           /\ \A n \in Nat : Awaiting(op, "wait", n) \in Call
BY DEF Awaiting, Call, KeyPost

(* What a call holds, by the relay call it waits for. *)
LEMMA CallFields ==
    ASSUME NEW c \in Call
    PROVE  /\ c.at # "idle" => c.op \in Method
           /\ c.at \in {"joinSession", "status"} => c.told \in {NoAnswer} \cup StatusAnswer
           /\ c.at = "postKeys" => c.sent \in KeyPost
           /\ c.at = "getKey" => c.sent \in Epoch /\ c.told \in {NoAnswer, NoKey} \cup Key
           /\ c.at = "getMessages" => c.sent \in Nat /\ c.told \in {NoAnswer} \cup Nat
           /\ c.at = "postMessage" => c.sent \in Message /\ c.told \in {NoAnswer} \cup Nat
<1>1. CASE c = Idle
  BY <1>1 DEF Idle
<1>2. CASE c \in [op : Method, at : {"joinSession", "status"}, sent : {0},
                 told : {NoAnswer} \cup StatusAnswer]
  BY <1>2
<1>3. CASE c \in [op : Method, at : {"postKeys"}, sent : KeyPost, told : {NoAnswer, TRUE}]
  BY <1>3
<1>4. CASE c \in [op : Method, at : {"getKey"}, sent : Epoch, told : {NoAnswer, NoKey} \cup Key]
  BY <1>4
<1>5. CASE c \in [op : Method, at : {"getMessages"}, sent : Nat, told : {NoAnswer} \cup Nat]
  BY <1>5
<1>6. CASE c \in [op : Method, at : {"postMessage"}, sent : Message, told : {NoAnswer} \cup Nat]
  BY <1>6
<1>7. CASE c \in [op : Method, at : {"wait"}, sent : Nat, told : {NoAnswer, TRUE}]
  BY <1>7
<1> QED
  BY <1>1, <1>2, <1>3, <1>4, <1>5, <1>6, <1>7 DEF Call, StatusAnswer, KeyPost

(* An answer told to a call. *)
LEMMA ToldIsCall ==
    ASSUME NEW c \in Call
    PROVE  /\ c.at \in {"joinSession", "status"} =>
                \A a \in StatusAnswer : [c EXCEPT !.told = a] \in Call
           /\ c.at \in {"postKeys", "wait"} => [c EXCEPT !.told = TRUE] \in Call
           /\ c.at = "getKey" => \A k \in {NoKey} \cup Key : [c EXCEPT !.told = k] \in Call
           /\ c.at \in {"getMessages", "postMessage"} =>
                \A n \in Nat : [c EXCEPT !.told = n] \in Call
BY DEF Call, Idle, StatusAnswer, KeyPost

(* One slot of one client changes. *)
LEMMA OneCallChanges ==
    ASSUME call \in [Member -> [Slot -> Call]], NEW p \in Member, NEW s \in Slot, NEW c \in Call,
           call' = [call EXCEPT ![p][s] = c]
    PROVE  /\ call' \in [Member -> [Slot -> Call]]
           /\ call'[p][s] = c
           /\ \A q \in Member, t \in Slot : q # p \/ t # s => call'[q][t] = call[q][t]
OBVIOUS

-----------------------------------------------------------------------------
(* Type correctness.  The epoch is the number of joins, so that it stays in range; and a
   call that is going to post holds a key to seal with.                       *)

RelayOK ==
    /\ members \subseteq Member
    /\ relayEpoch \in Epoch
    /\ relayEpoch = Cardinality(members) - 1
    /\ messages \in Seq(Message)
    /\ wraps \in [Epoch -> [Member -> Key \cup {NoKey}]]

KeyringOK ==
    /\ epoch \in [Member -> Epoch]
    /\ groupKey \in [Member -> Key \cup {NoKey}]
    /\ groupKeys \in [Member -> [Epoch -> Key \cup {NoKey}]]
    /\ established \in Epoch \cup {-1}

ClientOK ==
    /\ connected \subseteq Member
    /\ entered \subseteq connected
    /\ membersById \in [Member -> SUBSET Member]
    /\ log \in [Member -> Seq(LogEntry)]
    /\ fetchedSeq \in [Member -> Nat]
    /\ inboxSeq \in [Member -> Nat]

HistoryOK ==
    /\ delivered \in [Member -> SUBSET LogEntry]
    /\ lastKey \in 0..MaxKey
    /\ sends \in 0..MaxSend
    /\ losses \in 0..MaxLoss
    /\ keysLost \in BOOLEAN
    /\ overlapped \subseteq Member

CallsOK ==
    /\ call \in [Member -> [Slot -> Call]]
    /\ \A p \in Member, s \in Slot :
         /\ Awaits(p, s, "joinSession") => p \in connected
         /\ Awaits(p, s, "getMessages") /\ call[p][s].op \in Posting => groupKey[p] # NoKey

TypeInv == RelayOK /\ KeyringOK /\ ClientOK /\ HistoryOK /\ CallsOK

LEMMA Frames ==
    /\ RelayOK /\ UNCHANGED relay => RelayOK'
    /\ KeyringOK /\ UNCHANGED keyring => KeyringOK'
    /\ ClientOK /\ UNCHANGED <<connected, entered, membersById, folded, inboxSeq>> => ClientOK'
    /\ HistoryOK /\ UNCHANGED history => HistoryOK'
BY DEF RelayOK, KeyringOK, ClientOK, HistoryOK, relay, keyring, folded, history, record

(* A call begins. *)
LEMMA BeginKept ==
    ASSUME HistoryOK, NEW p \in Member, NEW s, Begin(p, s), UNCHANGED record
    PROVE  HistoryOK'
BY DEF Begin, HistoryOK, record

(* A call changes, clients connect and keys are got. *)
LEMMA CallsKept ==
    ASSUME CallsOK, NEW p \in Member, NEW s \in Slot, NEW c \in Call,
           call' = [call EXCEPT ![p][s] = c],
           c.at = "joinSession" => p \in connected',
           c.at = "getMessages" /\ c.op \in Posting => groupKey'[p] # NoKey,
           connected \subseteq connected',
           \A q \in Member : groupKey[q] # NoKey => groupKey'[q] # NoKey
    PROVE  CallsOK'
<1>1. call \in [Member -> [Slot -> Call]]
  BY DEF CallsOK
<1>2. /\ call' \in [Member -> [Slot -> Call]]
      /\ call'[p][s] = c
      /\ \A q \in Member, t \in Slot : q # p \/ t # s => call'[q][t] = call[q][t]
  BY <1>1, OneCallChanges
<1>3. ASSUME NEW q \in Member, NEW t \in Slot
      PROVE  /\ call'[q][t].at = "joinSession" => q \in connected'
             /\ call'[q][t].at = "getMessages" /\ call'[q][t].op \in Posting => groupKey'[q] # NoKey
  <2>1. CASE q = p /\ t = s
    BY <1>2, <2>1
  <2>2. CASE q # p \/ t # s
    BY <1>2, <2>2 DEF CallsOK, Awaits
  <2> QED
    BY <2>1, <2>2
<1> QED
  BY <1>2, <1>3 DEF CallsOK, Awaits

(* An answer is told. *)
LEMMA TellChanges ==
    ASSUME NEW p, NEW s, NEW a, Tell(p, s, a)
    PROVE  call' = [call EXCEPT ![p][s] = [call[p][s] EXCEPT !.told = a]]
BY DEF Tell

(* What follows ensureKeys: the method returns, asks for the status again, or pulls, with a key
   if it posts. *)
LEMMA AfterKeys ==
    ASSUME CallsOK, ClientOK, NEW p \in Member, NEW s \in Slot, NEW gk,
           ~Awaits(p, s, "idle"), AfterEnsureKeys(p, s, gk)
    PROVE  \/ call' = [call EXCEPT ![p][s] = Idle]
           \/ call' = [call EXCEPT ![p][s] = Awaiting("report", "status", 0)]
           \/ /\ call' = [call EXCEPT ![p][s] = Awaiting(call[p][s].op, "getMessages", fetchedSeq[p])]
              /\ call[p][s].op \in Posting => gk # NoKey
BY DEF AfterEnsureKeys, Return, Await, Awaiting, Listening, Posting

LEMMA AfterKeysCallsOK ==
    ASSUME CallsOK, ClientOK, NEW p \in Member, NEW s \in Slot, NEW gk,
           ~Awaits(p, s, "idle"), AfterEnsureKeys(p, s, gk),
           gk # NoKey => groupKey'[p] # NoKey,
           connected \subseteq connected',
           \A q \in Member : groupKey[q] # NoKey => groupKey'[q] # NoKey
    PROVE  CallsOK'
<1>1. call[p][s] \in Call /\ call[p][s].at # "idle" /\ fetchedSeq[p] \in Nat
  BY DEF CallsOK, Awaits, ClientOK
<1> DEFINE c == Awaiting(call[p][s].op, "getMessages", fetchedSeq[p])
           r == Awaiting("report", "status", 0)
<1>2. c \in Call /\ r \in Call /\ Idle \in Call
  BY <1>1, CallFields, AwaitIsCall DEF Method
<1>3. c.at = "getMessages" /\ c.op = call[p][s].op /\ r.at = "status"
  BY DEF Awaiting
<1>4. Idle.at = "idle"
  BY DEF Idle
<1> HIDE DEF c, r
<1>5. CASE call' = [call EXCEPT ![p][s] = Idle]
  BY <1>2, <1>4, <1>5, CallsKept
<1>6. CASE call' = [call EXCEPT ![p][s] = c] /\ (c.op \in Posting => gk # NoKey)
  BY <1>2, <1>3, <1>6, CallsKept
<1>7. CASE call' = [call EXCEPT ![p][s] = r]
  BY <1>2, <1>3, <1>7, CallsKept
<1> QED
  BY <1>3, <1>5, <1>6, <1>7, AfterKeys DEF c, r

LEMMA MemberCount ==
    /\ IsFiniteSet(Member)
    /\ Cardinality(Joiner) \in Nat
    /\ Cardinality(Member) = Cardinality(Joiner) + 1
BY RoomAssumption, FS_CardinalityType, FS_AddElement DEF Member

LEMMA TypeInit == Init => TypeInv
<1> SUFFICES ASSUME Init PROVE TypeInv
  OBVIOUS
<1>1. RelayOK
  <2>1. Cardinality({Creator}) = 1
    BY FS_Singleton
  <2>2. <<>> \in Seq(Message)
    OBVIOUS
  <2> QED
    BY <2>1, <2>2, MemberCount DEF Init, RelayOK, Member, Epoch
<1>2. KeyringOK
  BY MemberCount DEF Init, KeyringOK, Epoch
<1>3. ClientOK
  BY DEF Init, ClientOK, Member
<1>4. HistoryOK
  <2>1. 0 \in 0..MaxKey /\ 0 \in 0..MaxSend /\ 0 \in 0..MaxLoss
    <3>1. MaxKey \in Nat /\ MaxSend \in Nat /\ MaxLoss \in Nat
      BY RoomAssumption
    <3> QED
      BY <3>1
  <2> QED
    BY <2>1 DEF Init, HistoryOK
<1>5. CallsOK
  <2>1. Idle \in Call
    BY DEF Call
  <2>2. call = [p \in Member |-> [s \in Slot |-> Idle]]
    BY DEF Init
  <2> QED
    BY <2>1, <2>2 DEF CallsOK, Awaits, Idle
<1> QED
  BY <1>1, <1>2, <1>3, <1>4, <1>5 DEF TypeInv

(* The tools, which begin a call. *)
LEMMA TypeTool ==
    ASSUME TypeInv, NEW p \in Member, NEW s \in Slot, Tool(p, s)
    PROVE  TypeInv'
<1> USE DEF TypeInv
<1>1. /\ \A op \in Method : Awaiting(op, "joinSession", 0) \in Call
      /\ \A op \in Method : Awaiting(op, "status", 0) \in Call
      /\ \A op \in Method, n \in Nat : Awaiting(op, "getMessages", n) \in Call
  BY AwaitIsCall
<1>2. \A op, at, sent : Awaiting(op, at, sent).at = at /\ Awaiting(op, at, sent).op = op
  BY DEF Awaiting
<1>3. Posting \subseteq Method /\ Listening \subseteq Method /\ "export" \notin Posting
      /\ {"join", "getStatus", "getSAS", "export"} \subseteq Method
  BY DEF Method, Posting, Listening
<1>4. CASE Join(p, s)
  <2>1. ClientOK'
    BY <1>4 DEF Join, TypeInv, ClientOK, folded
  <2>2. call' = [call EXCEPT ![p][s] = Awaiting("join", "joinSession", 0)]
    BY <1>4 DEF Join, Await, Awaiting
  <2> DEFINE c == Awaiting("join", "joinSession", 0)
  <2>3. c \in Call /\ c.at = "joinSession"
    BY <1>1, <1>2, <1>3
  <2>4. p \in connected' /\ connected \subseteq connected' /\ groupKey' = groupKey
    BY <1>4 DEF Join, keyring
  <2> HIDE DEF c
  <2>5. CallsOK'
    BY <2>2, <2>3, <2>4, CallsKept DEF c
  <2> QED
    BY <1>4, <2>1, <2>5, Frames, BeginKept DEF Join
<1>5. ASSUME NEW op \in Method, Await(p, s, op, "status", 0), UNCHANGED <<relay, client>>, HistoryOK'
      PROVE  TypeInv'
  <2>1. call' = [call EXCEPT ![p][s] = Awaiting(op, "status", 0)]
    BY <1>5 DEF Await, Awaiting
  <2> DEFINE c == Awaiting(op, "status", 0)
  <2>2. c \in Call /\ c.at = "status"
    BY <1>1, <1>2
  <2>3. connected' = connected /\ groupKey' = groupKey
    BY <1>5 DEF client, keyring
  <2> HIDE DEF c
  <2>4. CallsOK'
    BY <2>1, <2>2, <2>3, CallsKept DEF c
  <2> QED
    BY <1>5, <2>4, Frames DEF client
<1>6. CASE Send(p, s)
  <2>1. HistoryOK'
    BY <1>6, RoomAssumption DEF Send, Begin, HistoryOK
  <2> QED
    BY <1>3, <1>5, <1>6, <2>1 DEF Send
<1>7. CASE Receive(p, s)
  BY <1>3, <1>5, <1>7, BeginKept DEF Receive
<1>8. CASE GetStatus(p, s)
  BY <1>3, <1>5, <1>8, BeginKept DEF GetStatus
<1>9. CASE GetSAS(p, s)
  BY <1>3, <1>5, <1>9, BeginKept DEF GetSAS
<1>10. CASE Export(p, s)
  <2>1. call' = [call EXCEPT ![p][s] = Awaiting("export", "getMessages", fetchedSeq[p])]
    BY <1>10 DEF Export, Await, Awaiting
  <2>2. fetchedSeq[p] \in Nat
    BY DEF ClientOK
  <2> DEFINE c == Awaiting("export", "getMessages", fetchedSeq[p])
  <2>3. c \in Call /\ c.at = "getMessages" /\ c.op \notin Posting
    BY <1>1, <1>2, <1>3, <2>2
  <2>4. connected' = connected /\ groupKey' = groupKey
    BY <1>10 DEF Export, client, keyring
  <2> HIDE DEF c
  <2>5. CallsOK'
    BY <2>1, <2>3, <2>4, CallsKept DEF c
  <2> QED
    BY <1>10, <2>5, Frames, BeginKept DEF Export, client
<1> QED
  BY <1>4, <1>6, <1>7, <1>8, <1>9, <1>10 DEF Tool

(* An answer arrives, or a call ends: nothing of the client changes. *)
LEMMA TellKept ==
    ASSUME CallsOK, NEW p \in Member, NEW s \in Slot, NEW a, Tell(p, s, a),
           ~Awaits(p, s, "idle"), [call[p][s] EXCEPT !.told = a] \in Call,
           UNCHANGED <<connected, groupKey>>
    PROVE  CallsOK'
<1> DEFINE c == [call[p][s] EXCEPT !.told = a]
<1>1. call[p][s] \in Call /\ call[p][s].at # "idle"
  BY DEF CallsOK, Awaits
<1>2. c.at = call[p][s].at /\ (c.at # "wait" => c.op = call[p][s].op)
  <2>1. call[p][s] # Idle
    BY <1>1 DEF Idle
  <2> QED
    BY <1>1, <2>1 DEF Call
<1>3. call' = [call EXCEPT ![p][s] = c]
  BY TellChanges
<1>4. c.at = "joinSession" => p \in connected'
  BY <1>2 DEF CallsOK, Awaits
<1>5. c.at = "getMessages" /\ c.op \in Posting => groupKey'[p] # NoKey
  BY <1>2 DEF CallsOK, Awaits
<1> HIDE DEF c
<1> QED
  BY <1>3, <1>4, <1>5, CallsKept DEF c

LEMMA ReturnKept ==
    ASSUME CallsOK, NEW p \in Member, NEW s \in Slot, Return(p, s),
           UNCHANGED <<connected, groupKey>>
    PROVE  CallsOK'
<1>1. Idle \in Call /\ Idle.at = "idle"
  BY DEF Call, Idle
<1> QED
  BY <1>1, CallsKept DEF Return

(* The relay. *)
LEMMA TypeServe ==
    ASSUME TypeInv, NEW p \in Member, NEW s \in Slot, Serve(p, s)
    PROVE  TypeInv'
<1> DEFINE c == call[p][s]
<1>1. c \in Call /\ messages \in Seq(Message) /\ Len(messages) \in Nat
  BY DEF TypeInv, CallsOK, RelayOK
<1>2. ASSUME NEW a, Tell(p, s, a), [c EXCEPT !.told = a] \in Call, c.at # "idle", RelayOK',
             UNCHANGED <<client, history>>
      PROVE  TypeInv'
  <2>1. CallsOK'
    BY <1>2, TellKept DEF TypeInv, Awaits, client, keyring
  <2> QED
    BY <1>2, <2>1, Frames DEF TypeInv, client
<1>3. CASE ServeJoin(p, s)
  <2>1. c.at = "joinSession"
    BY <1>3 DEF ServeJoin, Asked, Awaits
  <2>2. IsFiniteSet(members) /\ Cardinality(members) \in Nat
    BY MemberCount, FS_Subset, FS_CardinalityType DEF TypeInv, RelayOK
  <2>3. members' \subseteq Member /\ Cardinality(members') = Cardinality(members) + 1
    BY <1>3, <2>2, FS_AddElement DEF ServeJoin, TypeInv, RelayOK
  <2>4. relayEpoch' \in Epoch /\ relayEpoch' = Cardinality(members') - 1
    <3>1. Cardinality(members') <= Cardinality(Member)
      BY <2>3, MemberCount, FS_Subset
    <3> QED
      BY <1>3, <2>2, <2>3, <3>1, MemberCount DEF ServeJoin, TypeInv, RelayOK, Epoch
  <2>5. RelayOK'
    BY <1>3, <2>3, <2>4 DEF ServeJoin, TypeInv, RelayOK
  <2>6. [epoch |-> relayEpoch', members |-> members'] \in StatusAnswer
    BY <2>3, <2>4 DEF StatusAnswer
  <2> QED
    BY <1>1, <1>2, <1>3, <2>1, <2>5, <2>6, ToldIsCall DEF ServeJoin
<1>4. CASE ServeStatus(p, s)
  <2>1. c.at = "status"
    BY <1>4 DEF ServeStatus, Asked, Awaits
  <2>2. [epoch |-> relayEpoch, members |-> members] \in StatusAnswer
    BY DEF StatusAnswer, TypeInv, RelayOK
  <2> QED
    BY <1>1, <1>2, <1>4, <2>1, <2>2, ToldIsCall, Frames DEF ServeStatus, TypeInv
<1>5. CASE ServePostKeys(p, s)
  <2>1. c.at = "postKeys" /\ c.sent \in KeyPost
    BY <1>1, <1>5, CallFields DEF ServePostKeys, Asked, Awaits
  <2>2. wraps' \in [Epoch -> [Member -> Key \cup {NoKey}]]
    BY <1>5, <2>1 DEF ServePostKeys, TypeInv, RelayOK, KeyPost
  <2>3. RelayOK'
    BY <1>5, <2>2 DEF ServePostKeys, TypeInv, RelayOK
  <2> QED
    BY <1>1, <1>2, <1>5, <2>1, <2>3, ToldIsCall DEF ServePostKeys
<1>6. CASE ServeGetKey(p, s)
  <2>1. c.at = "getKey" /\ c.sent \in Epoch
    BY <1>1, <1>6, CallFields DEF ServeGetKey, Asked, Awaits
  <2>2. wraps[c.sent][p] \in {NoKey} \cup Key
    BY <2>1 DEF TypeInv, RelayOK
  <2> QED
    BY <1>1, <1>2, <1>6, <2>1, <2>2, ToldIsCall, Frames DEF ServeGetKey, TypeInv
<1>7. CASE ServeGetMessages(p, s)
  <2>1. c.at = "getMessages"
    BY <1>7 DEF ServeGetMessages, Asked, Awaits
  <2> QED
    BY <1>1, <1>2, <1>7, <2>1, ToldIsCall, Frames DEF ServeGetMessages, TypeInv
<1>8. CASE ServePostMessage(p, s)
  <2>1. c.at = "postMessage" /\ c.sent \in Message
    BY <1>1, <1>8, CallFields DEF ServePostMessage, Asked, Awaits
  <2>2. messages' \in Seq(Message) /\ Len(messages') \in Nat
    BY <1>1, <1>8, <2>1 DEF ServePostMessage
  <2>3. RelayOK'
    BY <1>8, <2>2 DEF ServePostMessage, TypeInv, RelayOK
  <2> QED
    BY <1>1, <1>2, <1>8, <2>1, <2>2, <2>3, ToldIsCall DEF ServePostMessage
<1>9. CASE ServeWait(p, s)
  <2>1. c.at = "wait"
    BY <1>9 DEF ServeWait, Asked, Awaits
  <2> QED
    BY <1>1, <1>2, <1>9, <2>1, ToldIsCall, Frames DEF ServeWait, TypeInv
<1>10. CASE Refuse(p, s)
  BY <1>10, ReturnKept, Frames DEF Refuse, TypeInv, client, keyring
<1> QED
  BY <1>3, <1>4, <1>5, <1>6, <1>7, <1>8, <1>9, <1>10 DEF Serve

LEMMA TypeLose ==
    ASSUME TypeInv, NEW p \in Member, NEW s \in Slot, Lose(p, s)
    PROVE  TypeInv'
<1>1. HistoryOK'
  BY RoomAssumption DEF Lose, TypeInv, HistoryOK
<1>2. CallsOK'
  <2>1. CASE Awaits(p, s, "wait") /\ Tell(p, s, TRUE)
    <3>1. call[p][s] \in Call /\ [call[p][s] EXCEPT !.told = TRUE] \in Call
      BY <2>1, ToldIsCall DEF TypeInv, CallsOK, Awaits
    <3> QED
      BY <2>1, <3>1, TellKept DEF Lose, TypeInv, Awaits, client, keyring
  <2>2. CASE Return(p, s)
    BY <2>2, ReturnKept DEF Lose, TypeInv, client, keyring
  <2> QED
    BY <2>1, <2>2 DEF Lose
<1> QED
  BY <1>1, <1>2, Frames DEF Lose, TypeInv, client

-----------------------------------------------------------------------------
(* pull. *)
LEMMA EntryFields ==
    ASSUME NEW p, NEW n \in Nat, NEW head
    PROVE  /\ Entry(p, n, head) \in LogEntry
           /\ Entry(p, n, head).seq = n
           /\ Entry(p, n, head).chainOk = (messages[n].prev = head)
<1> DEFINE chainOk == messages[n].prev = head
           verified == chainOk /\ messages[n].sender \in membersById[p]
           readable == verified /\ messages[n].sender # p
                         /\ groupKeys[p][messages[n].epoch] = messages[n].key
           e == [seq |-> n, chainOk |-> chainOk, verified |-> verified, readable |-> readable]
<1>1. Entry(p, n, head) = e
  BY DEF Entry
<1>2. chainOk \in BOOLEAN /\ verified \in BOOLEAN /\ readable \in BOOLEAN
  OBVIOUS
<1> HIDE DEF chainOk, verified, readable
<1>3. e \in LogEntry /\ e.seq = n /\ e.chainOk = chainOk
  BY <1>2 DEF LogEntry
<1> QED
  BY <1>1, <1>3 DEF chainOk

(* A function on 1..k is a sequence. *)
LEMMA SeqOfFunction ==
    ASSUME NEW S, NEW k \in Nat, NEW f \in [1..k -> S]
    PROVE  f \in Seq(S) /\ Len(f) = k /\ DOMAIN f = 1..k
<1>1. f \in Seq(S)
  BY SeqDef
<1>2. Len(f) \in Nat /\ DOMAIN f = 1..Len(f)
  BY <1>1, LenProperties
<1> QED
  BY <1>1, <1>2

LEMMA PulledEntries ==
    ASSUME NEW p \in Member, log[p] \in Seq(LogEntry), NEW from \in Nat, NEW upto \in Nat
    PROVE  /\ Pulled(p, from, upto) \in Seq(LogEntry)
           /\ Len(Pulled(p, from, upto)) =
                Len(log[p]) + (IF from < upto THEN upto - from ELSE 0)
           /\ \A i \in 1..Len(log[p]) : Pulled(p, from, upto)[i] = log[p][i]
           /\ \A i \in 1..(upto - from) :
                Pulled(p, from, upto)[Len(log[p]) + i] =
                  Entry(p, from + i, HeadHash(p) \o [j \in 1..(i - 1) |-> from + j])
<1> DEFINE E(i) == Entry(p, from + i, HeadHash(p) \o [j \in 1..(i - 1) |-> from + j])
           new == [i \in 1..(upto - from) |-> E(i)]
           k == IF from < upto THEN upto - from ELSE 0
<1>1. \A i \in 1..(upto - from) : E(i) \in LogEntry
  BY EntryFields
<1> HIDE DEF E
<1>2. k \in Nat /\ 1..(upto - from) = 1..k
  OBVIOUS
<1>3. new \in [1..k -> LogEntry]
  BY <1>1, <1>2
<1> HIDE DEF new, k
<1>4. new \in Seq(LogEntry) /\ Len(new) = k
  BY <1>2, <1>3, SeqOfFunction
<1>5. /\ log[p] \o new \in Seq(LogEntry)
      /\ Len(log[p] \o new) = Len(log[p]) + k
      /\ \A i \in 1..(Len(log[p]) + k) :
           (log[p] \o new)[i] = IF i <= Len(log[p]) THEN log[p][i] ELSE new[i - Len(log[p])]
  BY <1>4, ConcatProperties
<1>6. Pulled(p, from, upto) = log[p] \o new
  BY DEF Pulled, E, new
<1>7. Len(log[p]) \in Nat
  OBVIOUS
<1>8. \A i \in 1..(upto - from) : (log[p] \o new)[Len(log[p]) + i] = E(i)
  <2>1. \A i \in 1..(upto - from) : new[i] = E(i)
    BY DEF new
  <2> QED
    BY <1>2, <1>5, <1>7, <2>1
<1>9. \A i \in 1..Len(log[p]) : (log[p] \o new)[i] = log[p][i]
  BY <1>2, <1>5, <1>7
<1> QED
  BY <1>5, <1>6, <1>8, <1>9 DEF E, k

LEMMA PullKept ==
    ASSUME TypeInv, NEW p \in Member, NEW s \in Slot, Answered(p, s, "getMessages"), Pull(p, s)
    PROVE  /\ log' \in [Member -> Seq(LogEntry)]
           /\ fetchedSeq' \in [Member -> Nat]
           /\ call[p][s].sent \in Nat /\ call[p][s].told \in Nat
           /\ log' = [log EXCEPT ![p] = Pulled(p, call[p][s].sent, call[p][s].told)]
<1>1. call[p][s] \in Call /\ log \in [Member -> Seq(LogEntry)] /\ fetchedSeq \in [Member -> Nat]
  BY DEF TypeInv, CallsOK, ClientOK
<1>2. call[p][s].sent \in Nat /\ call[p][s].told \in Nat
  BY <1>1, CallFields DEF Answered, Awaits
<1>3. Pulled(p, call[p][s].sent, call[p][s].told) \in Seq(LogEntry)
  BY <1>1, <1>2, PulledEntries
<1>4. log' = [log EXCEPT ![p] = Pulled(p, call[p][s].sent, call[p][s].told)]
  BY DEF Pull
<1>5. log' \in [Member -> Seq(LogEntry)]
  BY <1>1, <1>3, <1>4
<1> QED
  BY <1>1, <1>2, <1>4, <1>5 DEF Pull

(* The answer to a call, by the relay call. *)
LEMMA AnswerTyped ==
    ASSUME TypeInv, NEW p \in Member, NEW s \in Slot, call[p][s].at # "idle", 
           call[p][s].told # NoAnswer
    PROVE  /\ call[p][s].op \in Method
           /\ call[p][s].at \in {"joinSession", "status"} => call[p][s].told \in StatusAnswer
           /\ call[p][s].at = "postKeys" => call[p][s].sent \in KeyPost
           /\ call[p][s].at = "getKey" =>
                call[p][s].sent \in Epoch /\ call[p][s].told \in {NoKey} \cup Key
BY CallFields DEF TypeInv, CallsOK

(* The members of a status are cached, and perhaps the call answered is a join. *)
LEMMA CacheKept ==
    ASSUME TypeInv, NEW p \in Member, NEW dtos \in SUBSET Member, Cache(p, dtos),
           UNCHANGED <<connected, folded, inboxSeq>>,
           entered' = entered \/ (entered' = entered \cup {p} /\ p \in connected)
    PROVE  ClientOK'
<1>1. membersById' \in [Member -> SUBSET Member]
  BY DEF Cache, TypeInv, ClientOK
<1>2. entered' \subseteq connected'
  BY DEF TypeInv, ClientOK
<1> QED
  BY <1>1, <1>2 DEF TypeInv, ClientOK, folded

(* ensureKeys and join_room go on. *)
LEMMA TypeKeys ==
    ASSUME TypeInv, NEW p \in Member, NEW s \in Slot,
           \/ Joined(p, s) \/ KeyIsThere(p, s) \/ MakeKey(p, s) \/ AskForKey(p, s)
           \/ KeyPosted(p, s) \/ GotKey(p, s) \/ GotNoKey(p, s) \/ SasComputed(p, s)
           \/ Reported(p, s)
    PROVE  TypeInv'
<1> DEFINE c == call[p][s]
<1>1. CallsOK /\ ClientOK /\ KeyringOK /\ HistoryOK /\ RelayOK
  BY DEF TypeInv
<1>2. /\ c.at # "idle" /\ c.told # NoAnswer => c.op \in Method
      /\ c.at \in {"joinSession", "status"} /\ c.told # NoAnswer =>
           c.told \in StatusAnswer /\ c.told.epoch \in Epoch /\ c.told.members \in SUBSET Member
      /\ c.at = "postKeys" /\ c.told # NoAnswer =>
           c.sent \in KeyPost /\ c.sent.epoch \in Epoch /\ c.sent.key \in Key
      /\ c.at = "getKey" /\ c.told # NoAnswer => c.sent \in Epoch /\ c.told \in {NoKey} \cup Key
  BY AnswerTyped DEF StatusAnswer, KeyPost
<1>3. \A op, at, sent : Awaiting(op, at, sent).at = at /\ Awaiting(op, at, sent).op = op
  BY DEF Awaiting
<1>4. CASE Joined(p, s)
  <2>1. c.at = "joinSession" /\ c.told # NoAnswer /\ p \in connected
    BY <1>1, <1>4 DEF Joined, Answered, Awaits, CallsOK
  <2>2. ClientOK'
    BY <1>2, <1>4, <2>1, CacheKept DEF Joined
  <2>3. KeyringOK'
    BY <1>1, <1>2, <1>4, <2>1 DEF Joined, KeyringOK
  <2>4. CallsOK'
    BY <1>1, <1>4, ReturnKept DEF Joined
  <2> QED
    BY <1>1, <1>4, <2>2, <2>3, <2>4, Frames DEF Joined, TypeInv
<1>5. CASE KeyIsThere(p, s)
  <2>1. c.at = "status" /\ c.told # NoAnswer
    BY <1>5 DEF KeyIsThere, HasStatus, Answered, Awaits
  <2>2. ClientOK'
    BY <1>2, <1>5, <2>1, CacheKept DEF KeyIsThere
  <2>3. groupKey' = groupKey /\ connected' = connected /\ AfterEnsureKeys(p, s, groupKey[p])
    BY <1>5 DEF KeyIsThere, keyring
  <2>4. CallsOK'
    BY <1>1, <2>1, <2>3, AfterKeysCallsOK DEF Awaits
  <2> QED
    BY <1>1, <1>5, <2>2, <2>4, Frames DEF KeyIsThere, TypeInv
<1>6. CASE MakeKey(p, s)
  <2>1. c.at = "status" /\ c.told # NoAnswer
    BY <1>6 DEF MakeKey, HasStatus, Answered, Awaits
  <2>2. ClientOK'
    BY <1>2, <1>6, <2>1, CacheKept DEF MakeKey
  <2>3. KeyringOK'
    BY <1>1, <1>2, <1>6, <2>1 DEF MakeKey, KeyringOK
  <2>4. lastKey' \in Key /\ HistoryOK'
    BY <1>1, <1>6, RoomAssumption DEF MakeKey, HistoryOK, Key
  <2> DEFINE k == [epoch |-> c.told.epoch, key |-> lastKey', members |-> c.told.members]
             d == Awaiting(c.op, "postKeys", k)
  <2>5. k \in KeyPost
    BY <1>2, <2>1, <2>4 DEF KeyPost
  <2>6. call' = [call EXCEPT ![p][s] = d]
    BY <1>6 DEF MakeKey, Await, Awaiting
  <2> HIDE DEF k
  <2>7. d \in Call /\ d.at = "postKeys"
    BY <1>2, <1>3, <2>1, <2>5, AwaitIsCall
  <2>8. connected' = connected /\ groupKey' = groupKey
    BY <1>6 DEF MakeKey
  <2> HIDE DEF d
  <2>9. CallsOK'
    BY <1>1, <2>6, <2>7, <2>8, CallsKept
  <2> QED
    BY <1>1, <1>6, <2>2, <2>3, <2>4, <2>9, Frames DEF MakeKey, TypeInv
<1>7. CASE AskForKey(p, s)
  <2>1. c.at = "status" /\ c.told # NoAnswer
    BY <1>7 DEF AskForKey, HasStatus, Answered, Awaits
  <2>2. ClientOK'
    BY <1>2, <1>7, <2>1, CacheKept DEF AskForKey
  <2> DEFINE d == Awaiting(c.op, "getKey", c.told.epoch)
  <2>3. call' = [call EXCEPT ![p][s] = d]
    BY <1>7 DEF AskForKey, Await, Awaiting
  <2>4. d \in Call /\ d.at = "getKey"
    BY <1>2, <1>3, <2>1, AwaitIsCall
  <2>5. connected' = connected /\ groupKey' = groupKey
    BY <1>7 DEF AskForKey, keyring
  <2> HIDE DEF d
  <2>6. CallsOK'
    BY <1>1, <2>3, <2>4, <2>5, CallsKept
  <2> QED
    BY <1>1, <1>7, <2>2, <2>6, Frames DEF AskForKey, TypeInv
<1>8. CASE KeyPosted(p, s)
  <2>1. c.at = "postKeys" /\ c.told # NoAnswer
    BY <1>8 DEF KeyPosted, Answered, Awaits
  <2>2. c.sent.key \in Key /\ c.sent.epoch \in Epoch /\ NoKey \notin Key
    BY <1>2, <2>1 DEF NoKey, Key
  <2>3. KeyringOK'
    BY <1>1, <1>8, <2>2 DEF KeyPosted, HoldKey, KeyringOK
  <2>4. /\ \A q \in Member : groupKey[q] # NoKey => groupKey'[q] # NoKey
        /\ groupKey'[p] # NoKey
    BY <1>1, <1>8, <2>2 DEF KeyPosted, HoldKey, KeyringOK
  <2>5. connected' = connected /\ AfterEnsureKeys(p, s, c.sent.key)
    BY <1>8 DEF KeyPosted
  <2>6. CallsOK'
    BY <1>1, <2>1, <2>4, <2>5, AfterKeysCallsOK DEF Awaits
  <2> QED
    BY <1>1, <1>8, <2>3, <2>6, Frames DEF KeyPosted, TypeInv
<1>9. CASE GotKey(p, s)
  <2>1. c.at = "getKey" /\ c.told # NoAnswer /\ c.told # NoKey
    BY <1>9 DEF GotKey, Answered, Awaits
  <2>2. c.told \in Key /\ c.sent \in Epoch /\ NoKey \notin Key
    BY <1>2, <2>1 DEF NoKey, Key
  <2>3. KeyringOK'
    BY <1>1, <1>9, <2>2 DEF GotKey, HoldKey, KeyringOK
  <2>4. /\ \A q \in Member : groupKey[q] # NoKey => groupKey'[q] # NoKey
        /\ groupKey'[p] # NoKey
    BY <1>1, <1>9, <2>2 DEF GotKey, HoldKey, KeyringOK
  <2>5. connected' = connected /\ AfterEnsureKeys(p, s, c.told)
    BY <1>9 DEF GotKey
  <2>6. CallsOK'
    BY <1>1, <2>1, <2>4, <2>5, AfterKeysCallsOK DEF Awaits
  <2> QED
    BY <1>1, <1>9, <2>3, <2>6, Frames DEF GotKey, TypeInv
<1>10. CASE GotNoKey(p, s)
  <2>1. c.at = "getKey"
    BY <1>10 DEF GotNoKey, Answered, Awaits
  <2>2. groupKey' = groupKey /\ connected' = connected /\ AfterEnsureKeys(p, s, groupKey[p])
    BY <1>10 DEF GotNoKey, client, keyring
  <2>3. CallsOK'
    BY <1>1, <2>1, <2>2, AfterKeysCallsOK DEF Awaits
  <2> QED
    BY <1>1, <1>10, <2>3, Frames DEF GotNoKey, TypeInv, client
<1>11. CASE SasComputed(p, s)
  <2>1. c.at = "status" /\ c.told # NoAnswer
    BY <1>11 DEF SasComputed, Answered, Awaits
  <2>2. ClientOK'
    BY <1>2, <1>11, <2>1, CacheKept DEF SasComputed
  <2>3. CallsOK'
    BY <1>1, <1>11, ReturnKept DEF SasComputed, keyring
  <2> QED
    BY <1>1, <1>11, <2>2, <2>3, Frames DEF SasComputed, TypeInv
<1>12. CASE Reported(p, s)
  BY <1>1, <1>12, ReturnKept, Frames DEF Reported, TypeInv, client, keyring
<1> QED
  BY <1>4, <1>5, <1>6, <1>7, <1>8, <1>9, <1>10, <1>11, <1>12

LEMMA HeadTyped ==
    ASSUME NEW l \in Seq(LogEntry)
    PROVE  [i \in DOMAIN l |-> l[i].seq] \in Seq(Nat)
<1>1. Len(l) \in Nat /\ DOMAIN l = 1..Len(l) /\ \A i \in 1..Len(l) : l[i] \in LogEntry
  BY ElementOfSeq, LenProperties
<1>2. \A e \in LogEntry : e.seq \in Nat
  BY DEF LogEntry
<1>3. [i \in DOMAIN l |-> l[i].seq] \in [1..Len(l) -> Nat]
  BY <1>1, <1>2
<1> QED
  BY <1>1, <1>3, SeqOfFunction

(* pull and what follows it. *)
LEMMA TypePull ==
    ASSUME TypeInv, NEW p \in Member, NEW s \in Slot,
           Exported(p, s) \/ Post(p, s) \/ Sent(p, s) \/ Received(p, s) \/ WaitAgain(p, s)
    PROVE  TypeInv'
<1> DEFINE c == call[p][s]
<1>1. CallsOK /\ ClientOK /\ KeyringOK /\ HistoryOK /\ RelayOK
  BY DEF TypeInv
<1>2. \A op, at, sent : Awaiting(op, at, sent).at = at /\ Awaiting(op, at, sent).op = op
  BY DEF Awaiting
<1>3. Posting \subseteq Method /\ Listening \subseteq Method /\ "waitForMessage" \in Method
  BY DEF Method, Posting, Listening
<1>4. ASSUME c.at = "getMessages", c.told # NoAnswer, Pull(p, s)
      PROVE  /\ log' \in [Member -> Seq(LogEntry)]
             /\ fetchedSeq' \in [Member -> Nat]
  BY <1>4, PullKept DEF Answered, Awaits
<1>5. CASE Exported(p, s)
  <2>1. ClientOK'
    BY <1>1, <1>4, <1>5 DEF Exported, Answered, Awaits, ClientOK
  <2>2. CallsOK'
    BY <1>1, <1>5, ReturnKept DEF Exported, keyring
  <2> QED
    BY <1>1, <1>5, <2>1, <2>2, Frames DEF Exported, TypeInv
<1>6. CASE Post(p, s)
  <2>1. ClientOK'
    BY <1>1, <1>4, <1>6 DEF Post, Answered, Awaits, ClientOK
  <2> DEFINE prev == [i \in DOMAIN log'[p] |-> log'[p][i].seq]
             m == [sender |-> p, epoch |-> epoch[p], key |-> groupKey[p], prev |-> prev]
             d == Awaiting(c.op, "postMessage", m)
  <2>2. prev \in Seq(Nat)
    BY <2>1, HeadTyped DEF ClientOK
  <2>3. call' = [call EXCEPT ![p][s] = d]
    BY <1>6 DEF Post, Await, Awaiting, HeadHash
  <2> HIDE DEF prev
  <2>4. groupKey[p] \in Key /\ epoch[p] \in Epoch
    BY <1>1, <1>6 DEF Post, Answered, CallsOK, KeyringOK
  <2>5. m \in Message
    BY <2>2, <2>4 DEF Message
  <2> HIDE DEF m
  <2>6. d \in Call /\ d.at = "postMessage"
    BY <1>2, <1>3, <1>6, <2>5, AwaitIsCall DEF Post
  <2>7. connected' = connected /\ groupKey' = groupKey
    BY <1>6 DEF Post, keyring
  <2> HIDE DEF d
  <2>8. CallsOK'
    BY <1>1, <2>3, <2>6, <2>7, CallsKept
  <2> QED
    BY <1>1, <1>6, <2>1, <2>8, Frames DEF Post, TypeInv
<1>7. ASSUME Await(p, s, "waitForMessage", "status", 0), UNCHANGED <<connected, groupKey>>
      PROVE  CallsOK'
  <2> DEFINE d == Awaiting("waitForMessage", "status", 0)
  <2>1. call' = [call EXCEPT ![p][s] = d]
    BY <1>7 DEF Await, Awaiting
  <2>2. d \in Call /\ d.at = "status"
    BY <1>2, <1>3, AwaitIsCall
  <2> HIDE DEF d
  <2> QED
    BY <1>1, <1>7, <2>1, <2>2, CallsKept
<1>8. CASE Sent(p, s)
  <2>1. CallsOK'
    BY <1>1, <1>7, <1>8, ReturnKept DEF Sent, client, keyring
  <2> QED
    BY <1>1, <1>8, <2>1, Frames DEF Sent, TypeInv, client
<1>9. CASE Received(p, s)
  <2>1. log' \in [Member -> Seq(LogEntry)] /\ fetchedSeq' \in [Member -> Nat]
    BY <1>4, <1>9 DEF Received, Answered, Awaits
  <2>2. ClientOK'
    BY <1>1, <1>9, <2>1 DEF Received, ClientOK
  <2> DEFINE others == {e \in New(p, log'[p]) : messages[e.seq].sender # p}
  <2>3. others \subseteq LogEntry
    <3>1. log'[p] \in Seq(LogEntry)
      BY <2>1
    <3>2. \A i \in DOMAIN log'[p] : log'[p][i] \in LogEntry
      BY <3>1
    <3> QED
      BY <3>2 DEF New
  <2>4. delivered' = [delivered EXCEPT ![p] = @ \cup others]
    BY <1>9 DEF Received
  <2> HIDE DEF others
  <2>5. HistoryOK'
    BY <1>1, <1>9, <2>3, <2>4 DEF Received, HistoryOK
  <2> DEFINE d == Awaiting("waitForMessage", "wait", fetchedSeq'[p])
  <2>6. d \in Call /\ d.at = "wait"
    BY <1>2, <1>3, <2>1, AwaitIsCall
  <2>7. Return(p, s) \/ call' = [call EXCEPT ![p][s] = d]
    BY <1>9 DEF Received, Await, Awaiting
  <2>8. connected' = connected /\ groupKey' = groupKey
    BY <1>9 DEF Received, keyring
  <2> HIDE DEF d
  <2>9. CallsOK'
    BY <1>1, <2>6, <2>7, <2>8, ReturnKept, CallsKept
  <2> QED
    BY <1>1, <1>9, <2>2, <2>5, <2>9, Frames DEF Received, TypeInv
<1>10. CASE WaitAgain(p, s)
  <2>1. CallsOK'
    BY <1>7, <1>10 DEF WaitAgain, client, keyring
  <2> QED
    BY <1>1, <1>10, <2>1, Frames DEF WaitAgain, TypeInv, client
<1> QED
  BY <1>5, <1>6, <1>8, <1>9, <1>10

LEMMA TypeStep == TypeInv /\ [Next]_vars => TypeInv'
<1> SUFFICES ASSUME TypeInv, [Next]_vars PROVE TypeInv'
  OBVIOUS
<1>1. ASSUME NEW p \in Member, NEW s \in Slot,
             Tool(p, s) \/ Serve(p, s) \/ Continue(p, s) \/ Lose(p, s)
      PROVE  TypeInv'
  BY <1>1, TypeTool, TypeServe, TypeKeys, TypePull, TypeLose DEF Continue
<1>2. CASE UNCHANGED vars
  <2>1. CallsOK'
    BY <1>2 DEF vars, client, keyring, TypeInv, CallsOK, Awaits
  <2> QED
    BY <1>2, <2>1, Frames DEF vars, client, TypeInv
<1> QED
  BY <1>1, <1>2 DEF Next

LEMMA AlwaysTyped == Spec => []TypeInv
BY TypeInit, TypeStep, PTL DEF Spec

(* Every variable of the relay and of the clients keeps its type, whatever the agents call and
   whichever relay calls fail; above all, a message is never sealed without a key, and the
   epoch stays the number of joins. *)
THEOREM RoomTypeCorrect == Spec => []TypeOK
<1>1. TypeInv => TypeOK
  BY DEF TypeInv, RelayOK, KeyringOK, ClientOK, HistoryOK, CallsOK, TypeOK
<1> QED
  BY <1>1, AlwaysTyped, PTL

-----------------------------------------------------------------------------
(* A client that was asked for one thing at a time runs one call.            *)

Alone ==
    \A p \in Member \ overlapped : \A s, t \in Slot :
        s # t => call[p][s] = Idle \/ call[p][t] = Idle

(* A step of slot s of p goes on with a call, or begins one, which is noted if it overlaps. *)
Busy(p, s) ==
    /\ overlapped \subseteq overlapped'
    /\ keysLost => keysLost'
    /\ call[p][s] = Idle => p \in overlapped' \/ \A t \in Slot : call[p][t] = Idle

LEMMA StepBusy ==
    ASSUME NEW p \in Member, NEW s \in Slot,
           Tool(p, s) \/ Serve(p, s) \/ Continue(p, s) \/ Lose(p, s)
    PROVE  Busy(p, s)
<1>1. Idle.at = "idle"
  BY DEF Idle
<1>2. ASSUME call[p][s].at # "idle", overlapped' = overlapped, keysLost => keysLost'
      PROVE  Busy(p, s)
  BY <1>1, <1>2 DEF Busy
<1>3. CASE Tool(p, s)
  BY <1>3 DEF Tool, Join, Send, Receive, GetStatus, GetSAS, Export, Begin, Busy,
     record
<1>4. CASE Serve(p, s)
  BY <1>2, <1>4 DEF Serve, ServeJoin, ServeStatus, ServePostKeys, ServeGetKey, ServeGetMessages,
     ServePostMessage, ServeWait, Refuse, Asked, Awaits, history, record
<1>5. CASE Continue(p, s)
  BY <1>2, <1>5 DEF Continue, Joined, KeyIsThere, MakeKey, AskForKey, KeyPosted, GotKey, GotNoKey,
     SasComputed, Reported, Exported, Post, Sent, Received, WaitAgain, HasStatus, Answered, Awaits,
     history, record
<1>6. CASE Lose(p, s)
  BY <1>2, <1>6, RoomAssumption DEF Lose
<1> QED
  BY <1>3, <1>4, <1>5, <1>6

(* One slot changes, and a client that was asked for one thing at a time has no other call. *)
LEMMA CallsAfter ==
    ASSUME TypeInv, Alone, NEW p \in Member, NEW s \in Slot, Busy(p, s), NEW c,
           call' = [call EXCEPT ![p][s] = c]
    PROVE  /\ call'[p][s] = c
           /\ \A q \in Member, t \in Slot : q # p \/ t # s => call'[q][t] = call[q][t]
           /\ p \notin overlapped' => \A t \in Slot : t # s => call[p][t] = Idle
<1>1. call \in [Member -> [Slot -> Call]]
  BY DEF TypeInv, CallsOK
<1>2. call'[p][s] = c /\ \A q \in Member, t \in Slot : q # p \/ t # s => call'[q][t] = call[q][t]
  BY <1>1
<1>3. ASSUME p \notin overlapped', NEW t \in Slot, t # s
      PROVE  call[p][t] = Idle
  BY <1>3 DEF Alone, Busy
<1> QED
  BY <1>2, <1>3

LEMMA AloneKept ==
    ASSUME TypeInv, Alone, NEW p \in Member, NEW s \in Slot, Busy(p, s), NEW c,
           call' = [call EXCEPT ![p][s] = c]
    PROVE  Alone'
<1> SUFFICES ASSUME NEW q \in Member, q \notin overlapped', NEW t \in Slot, NEW u \in Slot, t # u
             PROVE  call'[q][t] = Idle \/ call'[q][u] = Idle
  BY DEF Alone
<1>1. /\ call'[p][s] = c
      /\ \A r \in Member, v \in Slot : r # p \/ v # s => call'[r][v] = call[r][v]
      /\ p \notin overlapped' => \A v \in Slot : v # s => call[p][v] = Idle
  BY CallsAfter
<1>2. CASE q = p
  BY <1>1, <1>2
<1>3. CASE q # p
  <2>1. call'[q][t] = call[q][t] /\ call'[q][u] = call[q][u] /\ q \notin overlapped
    BY <1>1, <1>3 DEF Busy
  <2> QED
    BY <2>1 DEF Alone
<1> QED
  BY <1>2, <1>3

-----------------------------------------------------------------------------
(* What the steps do to the log of a client: a turn that folds nothing, or one that folds
   what the relay answered.                                                  *)

Turn(p, s, c) ==
    /\ call' = [call EXCEPT ![p][s] = c]
    /\ c.at = "getMessages" =>
         \/ c.sent = fetchedSeq[p] /\ c.told = NoAnswer
         \/ /\ Awaits(p, s, "getMessages")
            /\ c.sent = call[p][s].sent
            /\ c.told = Len(messages)
    /\ UNCHANGED <<folded, inboxSeq, delivered>>
    /\ messages' = messages \/ \E m \in Message : messages' = Append(messages, m)

FoldTurn(p, s, c) ==
    /\ Answered(p, s, "getMessages")
    /\ Pull(p, s)
    /\ call' = [call EXCEPT ![p][s] = c]
    /\ c.at # "getMessages"
    /\ messages' = messages
    /\ \/ UNCHANGED <<inboxSeq, delivered>>
       \/ /\ inboxSeq' = [inboxSeq EXCEPT ![p] = fetchedSeq'[p]]
          /\ delivered' = [delivered EXCEPT ![p] =
                @ \cup {e \in New(p, log'[p]) : messages[e.seq].sender # p}]

LEMMA TurnOfAwait ==
    ASSUME NEW p, NEW s, NEW op, NEW at, NEW sent, Await(p, s, op, at, sent),
           at = "getMessages" => sent = fetchedSeq[p],
           UNCHANGED <<messages, folded, inboxSeq, delivered>>
    PROVE  \E c : Turn(p, s, c)
<1>1. Awaiting(op, at, sent).at = at /\ Awaiting(op, at, sent).sent = sent
      /\ Awaiting(op, at, sent).told = NoAnswer
  BY DEF Awaiting
<1>2. Turn(p, s, Awaiting(op, at, sent))
  BY <1>1 DEF Turn, Await, Awaiting
<1> QED
  BY <1>2

LEMMA TurnOfReturn ==
    ASSUME NEW p, NEW s, Return(p, s), UNCHANGED <<messages, folded, inboxSeq, delivered>>
    PROVE  \E c : Turn(p, s, c)
<1>1. Turn(p, s, Idle)
  BY DEF Turn, Return, Idle
<1> QED
  BY <1>1

LEMMA TurnOfTell ==
    ASSUME NEW p \in Member, NEW s \in Slot, CallsOK, NEW a, Tell(p, s, a), call[p][s].at # "idle",
           Awaits(p, s, "getMessages") => a = Len(messages),
           UNCHANGED <<folded, inboxSeq, delivered>>,
           messages' = messages \/ \E m \in Message : messages' = Append(messages, m)
    PROVE  \E c : Turn(p, s, c)
<1> DEFINE d == call[p][s]
           c == [d EXCEPT !.told = a]
<1>1. d \in Call /\ d # Idle
  BY DEF CallsOK, Idle
<1>2. c.at = d.at /\ (d.at = "getMessages" => c.sent = d.sent /\ c.told = a)
  BY <1>1 DEF Call
<1>3. call' = [call EXCEPT ![p][s] = c]
  BY TellChanges
<1> HIDE DEF c
<1>4. Turn(p, s, c)
  BY <1>2, <1>3 DEF Turn, Awaits
<1> QED
  BY <1>4

LEMMA Turns ==
    ASSUME TypeInv, NEW p \in Member, NEW s \in Slot,
           Tool(p, s) \/ Serve(p, s) \/ Continue(p, s) \/ Lose(p, s)
    PROVE  (\E c : Turn(p, s, c)) \/ \E c : FoldTurn(p, s, c)
<1> DEFINE Still == UNCHANGED <<messages, folded, inboxSeq, delivered>>
           Done == (\E c : Turn(p, s, c)) \/ \E c : FoldTurn(p, s, c)
<1> SUFFICES Done
  OBVIOUS
<1>1. ASSUME Still, NEW op, NEW at, NEW sent, Await(p, s, op, at, sent),
             at = "getMessages" => sent = fetchedSeq[p]
      PROVE  Done
  BY <1>1, TurnOfAwait
<1>2. ASSUME Still, Return(p, s)
      PROVE  Done
  BY <1>2, TurnOfReturn
<1>3. ASSUME Still, NEW a, Tell(p, s, a), call[p][s].at # "idle",
             Awaits(p, s, "getMessages") => a = Len(messages)
      PROVE  Done
  BY <1>3, TurnOfTell DEF TypeInv
<1>4. ASSUME Still, NEW gk, AfterEnsureKeys(p, s, gk)
      PROVE  Done
  BY <1>1, <1>2, <1>4 DEF AfterEnsureKeys
<1>5. ASSUME Answered(p, s, "getMessages"), Pull(p, s), messages' = messages,
             \/ UNCHANGED <<inboxSeq, delivered>>
             \/ /\ inboxSeq' = [inboxSeq EXCEPT ![p] = fetchedSeq'[p]]
                /\ delivered' = [delivered EXCEPT ![p] =
                      @ \cup {e \in New(p, log'[p]) : messages[e.seq].sender # p}],
             Return(p, s) \/ \E op, at, sent : at # "getMessages" /\ Await(p, s, op, at, sent)
      PROVE  Done
  <2>1. CASE Return(p, s)
    <3>1. FoldTurn(p, s, Idle)
      BY <1>5, <2>1 DEF FoldTurn, Return, Idle
    <3> QED
      BY <3>1
  <2>2. ASSUME NEW op, NEW at, NEW sent, at # "getMessages", Await(p, s, op, at, sent)
        PROVE  Done
    <3>1. Awaiting(op, at, sent).at = at
      BY DEF Awaiting
    <3>2. FoldTurn(p, s, Awaiting(op, at, sent))
      BY <1>5, <2>2, <3>1 DEF FoldTurn, Await, Awaiting
    <3> QED
      BY <3>2
  <2> QED
    BY <1>5, <2>1, <2>2
<1> HIDE DEF Done
<1>6. CASE Tool(p, s)
  <2>1. CASE Join(p, s)
    BY <1>1, <2>1 DEF Join, relay, folded, record
  <2>2. CASE Send(p, s)
    BY <1>1, <2>2 DEF Send, relay, client, folded
  <2>3. CASE Receive(p, s)
    BY <1>1, <2>3 DEF Receive, relay, client, folded, record
  <2>4. CASE GetStatus(p, s)
    BY <1>1, <2>4 DEF GetStatus, relay, client, folded, record
  <2>5. CASE GetSAS(p, s)
    BY <1>1, <2>5 DEF GetSAS, relay, client, folded, record
  <2>6. CASE Export(p, s)
    BY <1>1, <2>6 DEF Export, relay, client, folded, record
  <2> QED
    BY <1>6, <2>1, <2>2, <2>3, <2>4, <2>5, <2>6 DEF Tool
<1>7. CASE Serve(p, s)
  <2>1. CASE ServeJoin(p, s)
    BY <1>3, <2>1 DEF ServeJoin, Asked, Awaits, client, folded, history, record
  <2>2. CASE ServeStatus(p, s)
    BY <1>3, <2>2 DEF ServeStatus, Asked, Awaits, relay, client, folded, history, record
  <2>3. CASE ServePostKeys(p, s)
    BY <1>3, <2>3 DEF ServePostKeys, Asked, Awaits, client, folded, history, record
  <2>4. CASE ServeGetKey(p, s)
    BY <1>3, <2>4 DEF ServeGetKey, Asked, Awaits, relay, client, folded, history, record
  <2>5. CASE ServeGetMessages(p, s)
    BY <1>3, <2>5 DEF ServeGetMessages, Asked, Awaits, relay, client, folded, history, record
  <2>6. CASE ServePostMessage(p, s)
    <3>1. call[p][s].at = "postMessage" /\ call[p][s].sent \in Message
      BY <2>6, CallFields DEF ServePostMessage, Asked, Awaits, TypeInv, CallsOK
    <3>2. UNCHANGED <<folded, inboxSeq, delivered>>
      BY <2>6 DEF ServePostMessage, client, history, record
    <3> QED
      BY <2>6, <3>1, <3>2, TurnOfTell DEF ServePostMessage, Awaits, Done, TypeInv
  <2>7. CASE ServeWait(p, s)
    BY <1>3, <2>7 DEF ServeWait, Asked, Awaits, relay, client, folded, history, record
  <2>8. CASE Refuse(p, s)
    BY <1>2, <2>8 DEF Refuse, relay, client, folded, history, record
  <2> QED
    BY <1>7, <2>1, <2>2, <2>3, <2>4, <2>5, <2>6, <2>7, <2>8 DEF Serve
<1>8. CASE Continue(p, s)
  <2>1. CASE Joined(p, s)
    BY <1>2, <2>1 DEF Joined, relay, folded, history, record
  <2>2. CASE KeyIsThere(p, s)
    BY <1>4, <2>2 DEF KeyIsThere, relay, folded, history, record
  <2>3. CASE MakeKey(p, s)
    BY <1>1, <2>3 DEF MakeKey, relay, folded
  <2>4. CASE AskForKey(p, s)
    BY <1>1, <2>4 DEF AskForKey, relay, folded, history, record
  <2>5. CASE KeyPosted(p, s)
    BY <1>4, <2>5 DEF KeyPosted, relay, folded, history, record
  <2>6. CASE GotKey(p, s)
    BY <1>4, <2>6 DEF GotKey, relay, folded, history, record
  <2>7. CASE GotNoKey(p, s)
    BY <1>4, <2>7 DEF GotNoKey, relay, client, folded, history, record
  <2>8. CASE SasComputed(p, s)
    BY <1>2, <2>8 DEF SasComputed, relay, folded, history, record
  <2>9. CASE Exported(p, s)
    BY <1>5, <2>9 DEF Exported, relay, history, record
  <2>10. CASE Post(p, s)
    BY <1>5, <2>10 DEF Post, relay, history, record
  <2>11. CASE Sent(p, s)
    BY <1>1, <1>2, <2>11 DEF Sent, relay, client, folded, history, record
  <2>12. CASE Received(p, s)
    BY <1>5, <2>12 DEF Received, relay
  <2>13. CASE WaitAgain(p, s)
    BY <1>1, <2>13 DEF WaitAgain, relay, client, folded, history, record
  <2>14. CASE Reported(p, s)
    BY <1>2, <2>14 DEF Reported, relay, client, folded, history, record
  <2> QED
    BY <1>8, <2>1, <2>2, <2>3, <2>4, <2>5, <2>6, <2>7, <2>8, <2>9, <2>10, <2>11, <2>12, <2>13,
       <2>14 DEF Continue
<1>9. CASE Lose(p, s)
  BY <1>2, <1>3, <1>9 DEF Lose, Awaits, relay, client, folded
<1> QED
  BY <1>6, <1>7, <1>8, <1>9

-----------------------------------------------------------------------------
(* The log of a client that was asked for one thing at a time.  With two calls at once, both
   may pull from the same cursor and fold the same messages twice.            *)

UpTo(n) == [j \in 1..n |-> j]

(* The log of a client is the relay's up to its cursor, and judged by what the relay stores;
   a pull under way asks from the cursor. *)
LogIsPrefix(p) ==
    /\ Len(log[p]) = fetchedSeq[p]
    /\ fetchedSeq[p] <= Len(messages)
    /\ inboxSeq[p] <= fetchedSeq[p]
    /\ \A i \in 1..fetchedSeq[p] :
         /\ log[p][i].seq = i
         /\ log[p][i].chainOk = (messages[i].prev = UpTo(i - 1))

PullFromCursor(p, s) ==
    Awaits(p, s, "getMessages") =>
        /\ call[p][s].sent = fetchedSeq[p]
        /\ call[p][s].told # NoAnswer => call[p][s].told \in fetchedSeq[p]..Len(messages)

FoldInv ==
    \A p \in Member \ overlapped : LogIsPrefix(p) /\ \A s \in Slot : PullFromCursor(p, s)

(* A log that is a prefix folds into the numbers up to its cursor. *)
LEMMA HeadOfPrefix ==
    ASSUME TypeInv, NEW p \in Member, LogIsPrefix(p)
    PROVE  HeadHash(p) = UpTo(fetchedSeq[p])
<1>1. log[p] \in Seq(LogEntry)
  BY DEF TypeInv, ClientOK
<1>2. DOMAIN log[p] = 1..fetchedSeq[p]
  BY <1>1, LenProperties DEF LogIsPrefix
<1> QED
  BY <1>2 DEF HeadHash, UpTo, LogIsPrefix

LEMMA UpToIsSeq ==
    ASSUME NEW n \in Nat
    PROVE  UpTo(n) \in Seq(Nat) /\ Len(UpTo(n)) = n /\ \A j \in 1..n : UpTo(n)[j] = j
<1>1. UpTo(n) \in [1..n -> Nat]
  BY DEF UpTo
<1> QED
  BY <1>1, SeqOfFunction DEF UpTo

(* The head before the k-th message pulled. *)
LEMMA HeadGrows ==
    ASSUME NEW n \in Nat, NEW k \in Nat
    PROVE  UpTo(n) \o [j \in 1..k |-> n + j] = UpTo(n + k)
<1> DEFINE f == [j \in 1..k |-> n + j]
<1>1. f \in [1..k -> Nat]
  OBVIOUS
<1>2. f \in Seq(Nat) /\ Len(f) = k /\ \A j \in 1..k : f[j] = n + j
  BY <1>1, SeqOfFunction
<1> HIDE DEF f
<1>3. /\ UpTo(n) \in Seq(Nat) /\ Len(UpTo(n)) = n
      /\ \A j \in 1..n : UpTo(n)[j] = j
      /\ UpTo(n + k) \in Seq(Nat) /\ Len(UpTo(n + k)) = n + k
      /\ \A j \in 1..(n + k) : UpTo(n + k)[j] = j
  BY UpToIsSeq
<1>4. /\ UpTo(n) \o f \in Seq(Nat)
      /\ Len(UpTo(n) \o f) = n + k
      /\ \A j \in 1..(n + k) : (UpTo(n) \o f)[j] = IF j <= n THEN UpTo(n)[j] ELSE f[j - n]
  <2>1. /\ UpTo(n) \o f \in Seq(Nat)
        /\ Len(UpTo(n) \o f) = Len(UpTo(n)) + Len(f)
        /\ \A j \in 1..(Len(UpTo(n)) + Len(f)) :
              (UpTo(n) \o f)[j] = IF j <= Len(UpTo(n)) THEN UpTo(n)[j] ELSE f[j - Len(UpTo(n))]
    <3>1. UpTo(n) \in Seq(Nat) /\ f \in Seq(Nat)
      BY <1>2, <1>3
    <3> QED
      BY <3>1, ConcatProperties, Zenon
  <2>2. Len(UpTo(n)) = n /\ Len(f) = k
    BY <1>2, <1>3
  <2> QED
    BY <2>1, <2>2, Zenon
<1>5. ASSUME NEW j \in 1..(n + k)
      PROVE  (UpTo(n) \o f)[j] = j
  <2>1. CASE j <= n
    BY <1>3, <1>4, <2>1
  <2>2. CASE j > n
    <3>1. j - n \in 1..k /\ n + (j - n) = j
      BY <2>2
    <3>2. f[j - n] = n + (j - n)
      BY <1>2, <3>1
    <3>3. (UpTo(n) \o f)[j] = f[j - n]
      BY <1>4, <2>2
    <3> QED
      BY <3>1, <3>2, <3>3
  <2>3. j <= n \/ j > n
    OBVIOUS
  <2> QED
    BY <2>1, <2>2, <2>3
<1>6. UpTo(n) \o f = UpTo(n + k)
  BY <1>3, <1>4, <1>5, SeqEqual
<1> QED
  BY <1>6 DEF f

(* pull from the cursor appends the messages after it, in order, and moves the cursor. *)
LEMMA PullExtends ==
    ASSUME TypeInv, NEW p \in Member, NEW s \in Slot, Answered(p, s, "getMessages"), Pull(p, s),
           LogIsPrefix(p), PullFromCursor(p, s)
    PROVE  /\ fetchedSeq'[p] \in fetchedSeq[p]..Len(messages)
           /\ Len(log'[p]) = fetchedSeq'[p]
           /\ \A i \in 1..fetchedSeq'[p] :
                /\ log'[p][i].seq = i
                /\ log'[p][i].chainOk = (messages[i].prev = UpTo(i - 1))
<1> DEFINE n == fetchedSeq[p]
           u == call[p][s].told
<1>1. /\ log[p] \in Seq(LogEntry) /\ n \in Nat /\ Len(messages) \in Nat /\ Len(log[p]) = n
      /\ fetchedSeq \in [Member -> Nat] /\ log \in [Member -> Seq(LogEntry)]
  BY DEF TypeInv, ClientOK, RelayOK, LogIsPrefix
<1>2. call[p][s].sent = n /\ u \in n..Len(messages) /\ u \in Nat
  BY <1>1 DEF PullFromCursor, Answered
<1>3. fetchedSeq'[p] = u
  BY <1>1, <1>2 DEF Pull
<1>4. log'[p] = Pulled(p, n, u)
  BY <1>1, <1>2 DEF Pull
<1> HIDE DEF n, u
<1>5. /\ Len(Pulled(p, n, u)) = u
      /\ \A i \in 1..n : Pulled(p, n, u)[i] = log[p][i]
      /\ \A i \in 1..(u - n) :
           Pulled(p, n, u)[n + i] = Entry(p, n + i, HeadHash(p) \o [j \in 1..(i - 1) |-> n + j])
  <2>1. /\ Len(Pulled(p, n, u)) = Len(log[p]) + (IF n < u THEN u - n ELSE 0)
        /\ \A i \in 1..Len(log[p]) : Pulled(p, n, u)[i] = log[p][i]
        /\ \A i \in 1..(u - n) :
             Pulled(p, n, u)[Len(log[p]) + i] =
               Entry(p, n + i, HeadHash(p) \o [j \in 1..(i - 1) |-> n + j])
    BY <1>1, <1>2, PulledEntries
  <2>2. n + (IF n < u THEN u - n ELSE 0) = u
    BY <1>1, <1>2
  <2> QED
    BY <1>1, <2>1, <2>2
<1>6. HeadHash(p) = UpTo(n)
  BY HeadOfPrefix DEF n
<1>7. ASSUME NEW i \in 1..u
      PROVE  /\ Pulled(p, n, u)[i].seq = i
             /\ Pulled(p, n, u)[i].chainOk = (messages[i].prev = UpTo(i - 1))
  <2>1. CASE i <= n
    BY <1>1, <1>2, <1>5, <2>1 DEF LogIsPrefix, n
  <2>2. CASE i > n
    <3> DEFINE k == i - n
    <3>1. k \in 1..(u - n) /\ n + k = i /\ k - 1 \in Nat /\ n + (k - 1) = i - 1 /\ i \in Nat
      BY <1>1, <1>2, <2>2
    <3> HIDE DEF k
    <3>2. UpTo(n) \o [j \in 1..(k - 1) |-> n + j] = UpTo(i - 1)
      BY <1>1, <3>1, HeadGrows
    <3>3. Pulled(p, n, u)[i] = Entry(p, i, UpTo(i - 1))
      <4>1. Pulled(p, n, u)[n + k] = Entry(p, n + k, HeadHash(p) \o [j \in 1..(k - 1) |-> n + j])
        BY <1>5, <3>1
      <4> QED
        BY <1>6, <3>1, <3>2, <4>1
    <3> QED
      BY <3>1, <3>3, EntryFields
  <2> QED
    BY <1>1, <1>2, <2>1, <2>2
<1>8. fetchedSeq'[p] \in n..Len(messages)
  BY <1>2, <1>3
<1> QED
  BY <1>3, <1>4, <1>5, <1>7, <1>8 DEF n

LEMMA FoldInit == Init => FoldInv /\ NothingSkipped
<1> SUFFICES ASSUME Init PROVE FoldInv /\ NothingSkipped
  OBVIOUS
<1>1. /\ log = [p \in Member |-> <<>>] /\ messages = <<>>
      /\ fetchedSeq = [p \in Member |-> 0] /\ inboxSeq = [p \in Member |-> 0]
      /\ call = [p \in Member |-> [s \in Slot |-> Idle]]
      /\ delivered = [p \in Member |-> {}]
  BY DEF Init
<1>2. FoldInv
  BY <1>1 DEF FoldInv, LogIsPrefix, PullFromCursor, Awaits, Idle
<1>3. NothingSkipped
  BY <1>1 DEF NothingSkipped
<1> QED
  BY <1>2, <1>3

LEMMA MessagesGrow ==
    ASSUME TypeInv, messages' = messages \/ \E m \in Message : messages' = Append(messages, m)
    PROVE  /\ Len(messages) \in Nat /\ Len(messages') \in Nat /\ Len(messages) <= Len(messages')
           /\ \A i \in 1..Len(messages) : messages'[i] = messages[i]
<1>1. messages \in Seq(Message) /\ Len(messages) \in Nat
  BY DEF TypeInv, RelayOK
<1>2. ASSUME NEW m \in Message, messages' = Append(messages, m)
      PROVE  Len(messages') = Len(messages) + 1
             /\ \A i \in 1..Len(messages) : messages'[i] = messages[i]
  BY <1>1, <1>2, AppendProperties
<1> QED
  BY <1>1, <1>2

LEMMA FoldOfTurn ==
    ASSUME TypeInv, FoldInv, NEW p \in Member, NEW s \in Slot, Busy(p, s), NEW c, Turn(p, s, c)
    PROVE  FoldInv'
<1>1. /\ UNCHANGED <<log, fetchedSeq, inboxSeq>>
      /\ call' = [call EXCEPT ![p][s] = c]
      /\ fetchedSeq \in [Member -> Nat]
  BY DEF Turn, folded, TypeInv, ClientOK
<1>2. /\ Len(messages) \in Nat /\ Len(messages') \in Nat /\ Len(messages) <= Len(messages')
      /\ \A i \in 1..Len(messages) : messages'[i] = messages[i]
  BY MessagesGrow DEF Turn
<1>3. ASSUME NEW q \in Member, q \notin overlapped'
      PROVE  LogIsPrefix(q)'
  <2>1. LogIsPrefix(q) /\ fetchedSeq[q] \in Nat
    BY <1>1, <1>3 DEF FoldInv, Busy
  <2>2. \A i \in 1..fetchedSeq[q] : messages'[i] = messages[i]
    BY <1>2, <2>1 DEF LogIsPrefix
  <2> QED
    BY <1>1, <1>2, <2>1, <2>2 DEF LogIsPrefix, UpTo
<1>4. ASSUME NEW q \in Member, q \notin overlapped', NEW t \in Slot
      PROVE  PullFromCursor(q, t)'
  <2>1. call'[q][t] = IF q = p /\ t = s THEN c ELSE call[q][t]
    BY <1>1 DEF TypeInv, CallsOK
  <2>2. PullFromCursor(q, t) /\ fetchedSeq[q] \in Nat /\ fetchedSeq[q] <= Len(messages)
    BY <1>1, <1>4 DEF FoldInv, LogIsPrefix, Busy
  <2>3. c.at = "getMessages" =>
          \/ c.sent = fetchedSeq[p] /\ c.told = NoAnswer
          \/ /\ call[p][s].at = "getMessages"
             /\ c.sent = call[p][s].sent
             /\ c.told = Len(messages)
    BY DEF Turn, Awaits
  <2>4. CASE q = p /\ t = s
    BY <1>1, <1>2, <2>1, <2>2, <2>3, <2>4 DEF PullFromCursor, Awaits
  <2>5. CASE ~(q = p /\ t = s)
    BY <1>1, <1>2, <2>1, <2>2, <2>5 DEF PullFromCursor, Awaits
  <2> QED
    BY <2>4, <2>5
<1> QED
  BY <1>3, <1>4 DEF FoldInv

LEMMA FoldOfPull ==
    ASSUME TypeInv, Alone, FoldInv, NEW p \in Member, NEW s \in Slot, Busy(p, s), NEW c,
           FoldTurn(p, s, c)
    PROVE  FoldInv'
<1>1. /\ Answered(p, s, "getMessages") /\ Pull(p, s)
      /\ call' = [call EXCEPT ![p][s] = c]
      /\ c.at # "getMessages"
      /\ messages' = messages
      /\ inboxSeq' = inboxSeq \/ inboxSeq' = [inboxSeq EXCEPT ![p] = fetchedSeq'[p]]
  BY DEF FoldTurn
<1>2. /\ fetchedSeq \in [Member -> Nat] /\ inboxSeq \in [Member -> Nat]
      /\ log \in [Member -> Seq(LogEntry)] /\ Len(messages) \in Nat
  BY DEF TypeInv, ClientOK, RelayOK
<1>3. ASSUME p \notin overlapped'
      PROVE  LogIsPrefix(p)'
  <2>1. LogIsPrefix(p) /\ PullFromCursor(p, s)
    BY <1>3 DEF FoldInv, Busy
  <2>2. /\ fetchedSeq'[p] \in fetchedSeq[p]..Len(messages)
        /\ Len(log'[p]) = fetchedSeq'[p]
        /\ \A i \in 1..fetchedSeq'[p] :
             /\ log'[p][i].seq = i
             /\ log'[p][i].chainOk = (messages[i].prev = UpTo(i - 1))
    BY <1>1, <2>1, PullExtends
  <2>3. inboxSeq'[p] <= fetchedSeq'[p]
    <3>1. inboxSeq[p] <= fetchedSeq[p] /\ inboxSeq[p] \in Nat /\ fetchedSeq[p] \in Nat
      BY <1>2, <2>1 DEF LogIsPrefix
    <3> QED
      BY <1>1, <1>2, <2>2, <3>1
  <2>4. fetchedSeq'[p] <= Len(messages')
    BY <1>1, <2>2
  <2> QED
    BY <1>1, <2>2, <2>3, <2>4 DEF LogIsPrefix, UpTo
<1>4. \A q \in Member : q # p =>
        log'[q] = log[q] /\ fetchedSeq'[q] = fetchedSeq[q] /\ inboxSeq'[q] = inboxSeq[q]
  BY <1>1, <1>2 DEF Pull
<1>5. ASSUME NEW q \in Member, q \notin overlapped', q # p
      PROVE  LogIsPrefix(q)'
  <2>1. LogIsPrefix(q)
    BY <1>5 DEF FoldInv, Busy
  <2> QED
    BY <1>1, <1>4, <1>5, <2>1 DEF LogIsPrefix, UpTo
<1>6. ASSUME NEW q \in Member, q \notin overlapped', NEW t \in Slot
      PROVE  PullFromCursor(q, t)'
  <2>1. /\ call'[p][s] = c
        /\ \A r \in Member, v \in Slot : r # p \/ v # s => call'[r][v] = call[r][v]
        /\ p \notin overlapped' => \A v \in Slot : v # s => call[p][v] = Idle
    BY <1>1, CallsAfter
  <2>2. CASE q = p
    <3>1. Idle.at = "idle"
      BY DEF Idle
    <3> QED
      BY <1>1, <1>6, <2>1, <2>2, <3>1 DEF PullFromCursor, Awaits
  <2>3. CASE q # p
    <3>1. PullFromCursor(q, t)
      BY <1>6 DEF FoldInv, Busy
    <3> QED
      BY <1>1, <1>4, <2>1, <2>3, <3>1 DEF PullFromCursor, Awaits
  <2> QED
    BY <2>2, <2>3
<1> QED
  BY <1>3, <1>5, <1>6 DEF FoldInv

(* What receive returns to the agent of a log that is a prefix: the entries after inboxSeq. *)
LEMMA NewEntries ==
    ASSUME NEW p, NEW L \in Seq(LogEntry), inboxSeq[p] \in Nat,
           \A i \in 1..Len(L) : L[i].seq = i
    PROVE  New(p, L) = {L[i] : i \in (inboxSeq[p] + 1)..Len(L)}
<1>1. DOMAIN L = 1..Len(L) /\ Len(L) \in Nat
  BY LenProperties
<1>2. {i \in DOMAIN L : L[i].seq > inboxSeq[p] /\ \A j \in 1..(i - 1) : L[j].seq < L[i].seq}
        = (inboxSeq[p] + 1)..Len(L)
  BY <1>1
<1> QED
  BY <1>2 DEF New

LEMMA SkipOfTurn ==
    ASSUME TypeInv, FoldInv, NothingSkipped, NEW p \in Member, NEW s \in Slot, Busy(p, s), NEW c,
           Turn(p, s, c)
    PROVE  NothingSkipped'
<1>1. /\ UNCHANGED <<inboxSeq, delivered>> /\ overlapped \subseteq overlapped'
      /\ inboxSeq \in [Member -> Nat] /\ fetchedSeq \in [Member -> Nat]
  BY DEF Turn, TypeInv, ClientOK, Busy
<1>2. Len(messages) \in Nat /\ \A i \in 1..Len(messages) : messages'[i] = messages[i]
  BY MessagesGrow DEF Turn
<1>3. ASSUME NEW q \in Member \ overlapped
      PROVE  \A n \in 1..inboxSeq[q] : messages'[n] = messages[n]
  BY <1>1, <1>2 DEF FoldInv, LogIsPrefix
<1> QED
  BY <1>1, <1>3 DEF NothingSkipped

LEMMA SkipOfPull ==
    ASSUME TypeInv, FoldInv, NothingSkipped, NEW p \in Member, NEW s \in Slot, Busy(p, s), NEW c,
           FoldTurn(p, s, c)
    PROVE  NothingSkipped'
<1> DEFINE others == {e \in New(p, log'[p]) : messages[e.seq].sender # p}
           u == fetchedSeq'[p]
           n == inboxSeq[p]
<1>1. /\ inboxSeq \in [Member -> Nat] /\ fetchedSeq \in [Member -> Nat]
      /\ delivered \in [Member -> SUBSET LogEntry] /\ Len(messages) \in Nat
  BY DEF TypeInv, ClientOK, HistoryOK, RelayOK
<1>2. messages' = messages /\ overlapped \subseteq overlapped'
  BY DEF FoldTurn, Busy
<1>3. CASE UNCHANGED <<inboxSeq, delivered>>
  BY <1>2, <1>3 DEF NothingSkipped
<1>4. CASE /\ inboxSeq' = [inboxSeq EXCEPT ![p] = u]
           /\ delivered' = [delivered EXCEPT ![p] = @ \cup others]
  <2>1. /\ inboxSeq'[p] = u
        /\ delivered'[p] = delivered[p] \cup others
        /\ \A q \in Member : q # p => inboxSeq'[q] = inboxSeq[q] /\ delivered'[q] = delivered[q]
    BY <1>1, <1>4
  <2>2. ASSUME p \notin overlapped'
        PROVE  {e.seq : e \in delivered'[p]} = {i \in 1..u : messages[i].sender # p}
    <3>1. /\ Answered(p, s, "getMessages") /\ Pull(p, s) /\ LogIsPrefix(p) /\ PullFromCursor(p, s)
      BY <1>2, <2>2 DEF FoldTurn, FoldInv
    <3>2. /\ u \in fetchedSeq[p]..Len(messages)
          /\ Len(log'[p]) = u
          /\ \A i \in 1..u : log'[p][i].seq = i
      BY <3>1, PullExtends
    <3>3. log'[p] \in Seq(LogEntry)
      BY <3>1, PullKept
    <3>4. n \in Nat /\ u \in Nat /\ n <= u
      BY <1>1, <3>1, <3>2 DEF LogIsPrefix
    <3>5. New(p, log'[p]) = {log'[p][i] : i \in (n + 1)..u}
      BY <3>2, <3>3, <3>4, NewEntries
    <3>6. {e.seq : e \in delivered[p]} = {i \in 1..n : messages[i].sender # p}
      BY <1>2, <2>2 DEF NothingSkipped
    <3>7. \A i \in (n + 1)..u : log'[p][i].seq = i
      BY <3>2, <3>4
    <3> HIDE DEF u, n
    <3>8. {e.seq : e \in others} = {i \in (n + 1)..u : messages[i].sender # p}
      BY <3>5, <3>7
    <3> HIDE DEF others
    <3>9. {e.seq : e \in delivered'[p]} = {e.seq : e \in delivered[p]} \cup {e.seq : e \in others}
      BY <2>1
    <3>10. 1..u = (1..n) \cup ((n + 1)..u)
      BY <3>4
    <3> QED
      BY <3>6, <3>8, <3>9, <3>10
  <2>3. ASSUME NEW q \in Member, q \notin overlapped'
        PROVE  {e.seq : e \in delivered'[q]} = {i \in 1..inboxSeq'[q] : messages[i].sender # q}
    <3>1. CASE q = p
      BY <2>1, <2>2, <2>3, <3>1
    <3>2. CASE q # p
      BY <1>2, <2>1, <2>3, <3>2 DEF NothingSkipped
    <3> QED
      BY <3>1, <3>2
  <2> QED
    BY <1>2, <2>3 DEF NothingSkipped
<1> QED
  BY <1>3, <1>4 DEF FoldTurn

LEMMA AloneInit == Init => Alone
BY DEF Init, Alone

LEMMA AlwaysFolded == Spec => [](TypeInv /\ Alone /\ FoldInv /\ NothingSkipped)
<1>1. TypeInv /\ Alone /\ FoldInv /\ NothingSkipped /\ [Next]_vars
        => (TypeInv /\ Alone /\ FoldInv /\ NothingSkipped)'
  <2> SUFFICES ASSUME TypeInv, Alone, FoldInv, NothingSkipped, [Next]_vars
               PROVE  (TypeInv /\ Alone /\ FoldInv /\ NothingSkipped)'
    OBVIOUS
  <2>1. TypeInv'
    BY TypeStep
  <2>2. ASSUME NEW p \in Member, NEW s \in Slot,
               Tool(p, s) \/ Serve(p, s) \/ Continue(p, s) \/ Lose(p, s)
        PROVE  Alone' /\ FoldInv' /\ NothingSkipped'
    <3>1. (\E c : Turn(p, s, c)) \/ \E c : FoldTurn(p, s, c)
      BY <2>2, Turns
    <3>2. Busy(p, s)
      BY <2>2, StepBusy
    <3>3. \E c : call' = [call EXCEPT ![p][s] = c]
      BY <3>1 DEF Turn, FoldTurn
    <3> QED
      BY <3>1, <3>2, <3>3, AloneKept, FoldOfTurn, FoldOfPull, SkipOfTurn, SkipOfPull
  <2>3. CASE UNCHANGED vars
    <3>1. UNCHANGED <<messages, log, fetchedSeq, inboxSeq, delivered, call, overlapped>>
      BY <2>3 DEF vars, relay, client, folded, history, record
    <3>2. Alone' /\ FoldInv'
      BY <3>1 DEF Alone, FoldInv, LogIsPrefix, PullFromCursor, Awaits, UpTo
    <3>3. NothingSkipped'
      BY <3>1 DEF NothingSkipped
    <3> QED
      BY <2>1, <3>2, <3>3
  <2> QED
    BY <2>1, <2>2, <2>3 DEF Next
<1> QED
  BY <1>1, TypeInit, AloneInit, FoldInit, PTL DEF Spec

(* Each message is folded once and in order into the head of a client that was asked for one
   thing at a time, whichever relay calls fail and whatever the others do. *)
THEOREM MessagesAreFoldedOnce == Spec => []FoldedOnce
<1>1. TypeInv /\ FoldInv => FoldedOnce
  BY HeadOfPrefix DEF FoldInv, FoldedOnce, UpTo
<1> QED
  BY <1>1, AlwaysFolded, PTL

(* What such a client folded and is another's was handed to its agent, up to inboxSeq: a pull of
   a send, of an export or of a receive that failed later hides nothing. *)
THEOREM NoMessageIsSkipped == Spec => []NothingSkipped
BY AlwaysFolded, PTL

(* Such clients judge a message's place in the chain alike. *)
THEOREM ChainVerdictsAgree == Spec => []VerdictsAgree
<1>1. TypeInv /\ FoldInv => VerdictsAgree
  <2> SUFFICES ASSUME TypeInv, FoldInv, NEW p \in Member \ overlapped, NEW q \in Member \ overlapped,
                      NEW i \in DOMAIN log[p], NEW j \in DOMAIN log[q],
                      log[p][i].seq = log[q][j].seq
               PROVE  log[p][i].chainOk = log[q][j].chainOk
    BY DEF VerdictsAgree
  <2>1. log[p] \in Seq(LogEntry) /\ log[q] \in Seq(LogEntry)
    BY DEF TypeInv, ClientOK
  <2>2. i \in 1..fetchedSeq[p] /\ j \in 1..fetchedSeq[q]
    BY <2>1, LenProperties DEF FoldInv, LogIsPrefix
  <2>3. /\ log[p][i].seq = i /\ log[p][i].chainOk = (messages[i].prev = UpTo(i - 1))
        /\ log[q][j].seq = j /\ log[q][j].chainOk = (messages[j].prev = UpTo(j - 1))
    BY <2>2 DEF FoldInv, LogIsPrefix
  <2> QED
    BY <2>3
<1> QED
  BY <1>1, AlwaysFolded, PTL

-----------------------------------------------------------------------------
(* The keys, as long as the holder has lost no answer to a postKeys and its calls have not
   overlapped (OneKeyMade).                                                  *)

(* The key of epoch e that the relay took and whose holder has not heard so yet. *)
PostedKey(e, k) ==
    \E s \in Slot : /\ Answered(Creator, s, "postKeys")
                    /\ call[Creator][s].sent.epoch = e
                    /\ call[Creator][s].sent.key = k

(* The relay answers nothing to a client that is no member, which so holds no key. *)
Unserved(c) ==
    /\ c.at \in {"idle", "joinSession", "status", "getMessages"}
    /\ c.at # "idle" => c.told = NoAnswer
Stranger(p) == groupKey[p] = NoKey /\ \A s \in Slot : Unserved(call[p][s])

(* The key-holder makes a new key only for an epoch it has none for; the others hold
   copies of what the relay has. *)
KeysHeld ==
    /\ Creator \in members
    /\ established <= relayEpoch
    /\ groupKey[Creator] = NoKey => established = -1
    /\ \A e \in Epoch : groupKeys[Creator][e] # NoKey => e <= established
    /\ \A p \in Joiner, e \in Epoch : groupKeys[p][e] \in {NoKey, wraps[e][p]}

WrapsHeld ==
    \A e \in Epoch, p \in Member :
        wraps[e][p] \in {NoKey, groupKeys[Creator][e]} \/ PostedKey(e, wraps[e][p])

(* A client that was asked for one thing at a time seals with the key of the epoch it names. *)
KeyInUse(p) ==
    groupKey[p] # NoKey =>
        \/ groupKey[p] = groupKeys[p][epoch[p]]
        \/ \E s \in Slot : Awaits(p, s, "postKeys")

(* What a call c of p knows of the keys. *)
Informed(p, c) ==
    /\ c.at = "joinSession" =>
         p # Creator /\ (p \notin overlapped /\ c.told # NoAnswer => groupKey[p] = NoKey)
    /\ c.at = "status" /\ c.told # NoAnswer =>
         c.told.epoch <= relayEpoch /\ (p = Creator => established <= c.told.epoch)
    /\ c.at = "postKeys" =>
         /\ p = Creator
         /\ established < c.sent.epoch /\ c.sent.epoch <= relayEpoch
         /\ epoch[p] = c.sent.epoch
    /\ c.at = "getKey" =>
         p # Creator /\ (c.told # NoAnswer => c.told \in {NoKey, wraps[c.sent][p]})
    /\ c.at = "postMessage" =>
         c.sent.sender = p /\ (p \notin overlapped => groupKeys[p][c.sent.epoch] = c.sent.key)

KeptSealed ==
    \A i \in DOMAIN messages : messages[i].sender \notin overlapped =>
        groupKeys[messages[i].sender][messages[i].epoch] = messages[i].key

KeyInv ==
    OneKeyMade =>
        /\ \A p \in Member \ members : Stranger(p)
        /\ KeysHeld
        /\ WrapsHeld
        /\ \A p \in Member \ overlapped : KeyInUse(p)
        /\ \A p \in Member, s \in Slot : Informed(p, call[p][s])
        /\ KeptSealed

LEMMA KeyInit == Init => KeyInv
<1> SUFFICES ASSUME Init PROVE KeyInv
  OBVIOUS
<1>1. /\ members = {Creator}
      /\ groupKey = [p \in Member |-> NoKey]
      /\ groupKeys = [p \in Member |-> [e \in Epoch |-> NoKey]]
      /\ wraps = [e \in Epoch |-> [p \in Member |-> NoKey]]
      /\ established = -1 /\ relayEpoch = 0 /\ messages = <<>>
      /\ call = [p \in Member |-> [s \in Slot |-> Idle]]
  BY DEF Init
<1>2. Creator \in Member /\ Joiner \subseteq Member
  BY DEF Member
<1>3. Idle.at = "idle"
  BY DEF Idle
<1>4. \A p \in Member \ members : Stranger(p)
  BY <1>1, <1>3 DEF Stranger, Unserved
<1>5. KeysHeld /\ WrapsHeld
  BY <1>1, <1>2 DEF KeysHeld, WrapsHeld
<1>6. \A p \in Member : KeyInUse(p)
  BY <1>1 DEF KeyInUse
<1>7. \A p \in Member, s \in Slot : Informed(p, call[p][s])
  BY <1>1, <1>3 DEF Informed
<1>8. KeptSealed
  BY <1>1 DEF KeptSealed
<1> QED
  BY <1>4, <1>5, <1>6, <1>7, <1>8 DEF KeyInv

(* A client that was answered is a member. *)
LEMMA IsMember ==
    ASSUME TypeInv, KeyInv, OneKeyMade, NEW p \in Member, NEW s \in Slot, ~Unserved(call[p][s])
    PROVE  p \in members
BY DEF KeyInv, Stranger

(* A step of p leaves the keys of the others, and overwrites none that the relay has. *)
KeysKept(p) ==
    /\ members \subseteq members' /\ relayEpoch' \in Nat /\ relayEpoch <= relayEpoch'
    /\ \A e \in Epoch, q \in Member : wraps[e][q] # NoKey => wraps'[e][q] = wraps[e][q]
    /\ \A q \in Member : q # p =>
         groupKey'[q] = groupKey[q] /\ groupKeys'[q] = groupKeys[q] /\ epoch'[q] = epoch[q]
    /\ p # Creator => established' = established

(* What is left to show of a step of p. *)
LEMMA KeysOfStep ==
    ASSUME TypeInv, Alone, KeyInv, OneKeyMade, OneKeyMade', NEW p \in Member, NEW s \in Slot,
           Busy(p, s), NEW c, call' = [call EXCEPT ![p][s] = c],
           KeysKept(p),
           p \notin members' => groupKey'[p] = NoKey /\ Unserved(c),
           KeysHeld', WrapsHeld', p \notin overlapped' => KeyInUse(p)', Informed(p, call[p][s])',
           KeptSealed'
    PROVE  KeyInv'
<1>1. /\ call'[p][s] = c
      /\ \A q \in Member, t \in Slot : q # p \/ t # s => call'[q][t] = call[q][t]
      /\ p \notin overlapped' => \A t \in Slot : t # s => call[p][t] = Idle
  BY CallsAfter
<1>2. Idle.at = "idle" /\ overlapped \subseteq overlapped' /\ Creator \notin overlapped'
  BY DEF Idle, Busy, OneKeyMade
<1> USE DEF KeysKept
<1>3. ASSUME NEW q \in Member, q \notin members'
      PROVE  Stranger(q)'
  <2>1. Stranger(q)
    BY <1>3 DEF KeyInv
  <2>2. CASE q = p
    <3>1. \A t \in Slot : Unserved(call'[q][t])
      BY <1>1, <1>3, <2>1, <2>2 DEF Stranger
    <3> QED
      BY <1>3, <2>2, <3>1 DEF Stranger, Unserved
  <2>3. CASE q # p
    BY <1>1, <2>1, <2>3 DEF Stranger, Unserved
  <2> QED
    BY <2>2, <2>3
<1>4. ASSUME NEW q \in Member, q \notin overlapped'
      PROVE  KeyInUse(q)'
  <2>1. CASE q = p
    BY <1>4, <2>1
  <2>2. CASE q # p
    <3>1. KeyInUse(q)
      BY <1>2, <1>4 DEF KeyInv
    <3> QED
      BY <1>1, <2>2, <3>1 DEF KeyInUse, Awaits
  <2> QED
    BY <2>1, <2>2
<1>5. ASSUME NEW q \in Member, NEW t \in Slot
      PROVE  Informed(q, call[q][t])'
  <2>1. CASE q = p /\ t = s
    BY <2>1
  <2>2. CASE q = p /\ t # s /\ p \notin overlapped'
    <3>1. call'[q][t].at = "idle"
      BY <1>1, <1>2, <2>2
    <3> QED
      BY <3>1 DEF Informed
  <2>3. CASE q # p \/ (t # s /\ p \in overlapped')
    <3>1. Informed(q, call[q][t]) /\ call'[q][t] = call[q][t] /\ call[q][t] \in Call
      BY <1>1, <2>3 DEF KeyInv, TypeInv, CallsOK
    <3>2. /\ call[q][t].at = "status" /\ call[q][t].told # NoAnswer => call[q][t].told.epoch \in Nat
          /\ call[q][t].at = "postKeys" => call[q][t].sent.epoch \in Nat
          /\ call[q][t].at = "getKey" => call[q][t].sent \in Epoch
      BY <3>1, CallFields, MemberCount DEF StatusAnswer, KeyPost, Epoch
    <3>3. relayEpoch \in Nat /\ established \in Int
      BY MemberCount DEF TypeInv, RelayOK, KeyringOK, Epoch
    <3>4. q = Creator => established' = established /\ epoch'[q] = epoch[q]
      BY <1>2, <2>3
    <3>5. q \notin overlapped' =>
            q \notin overlapped /\ groupKey'[q] = groupKey[q] /\ groupKeys'[q] = groupKeys[q]
      BY <1>2, <2>3
    <3>6. call[q][t].at = "getKey" /\ call[q][t].told # NoAnswer =>
            call[q][t].told \in {NoKey, wraps'[call[q][t].sent][q]}
      BY <3>1, <3>2 DEF Informed
    <3>7. call[q][t].at = "status" /\ call[q][t].told # NoAnswer =>
            /\ call[q][t].told.epoch <= relayEpoch'
            /\ q = Creator => established' <= call[q][t].told.epoch
      BY <3>1, <3>2, <3>3, <3>4 DEF Informed
    <3>8. call[q][t].at = "postKeys" =>
            /\ q = Creator /\ epoch'[q] = call[q][t].sent.epoch
            /\ established' < call[q][t].sent.epoch /\ call[q][t].sent.epoch <= relayEpoch'
      BY <3>1, <3>2, <3>3, <3>4 DEF Informed
    <3> QED
      BY <3>1, <3>5, <3>6, <3>7, <3>8 DEF Informed
  <2> QED
    BY <2>1, <2>2, <2>3
<1> QED
  BY <1>3, <1>4, <1>5 DEF KeyInv

(* A step that posts no keys leaves the key posted. *)
LEMMA PostedStays ==
    ASSUME TypeInv, Alone, NEW p \in Member, NEW s \in Slot, Busy(p, s), NEW c,
           call' = [call EXCEPT ![p][s] = c],
           p # Creator \/ call[p][s].at # "postKeys"
    PROVE  \A e, k : PostedKey(e, k) => PostedKey(e, k)'
<1>1. /\ call'[p][s] = c
      /\ \A q \in Member, t \in Slot : q # p \/ t # s => call'[q][t] = call[q][t]
      /\ p \notin overlapped' => \A t \in Slot : t # s => call[p][t] = Idle
  BY CallsAfter
<1>2. Creator \in Member
  BY DEF Member
<1> QED
  BY <1>1, <1>2 DEF PostedKey, Answered, Awaits

(* Steps after which the relay and the clients hold the same keys. *)
LEMMA KeysOfQuiet ==
    ASSUME TypeInv, Alone, KeyInv, OneKeyMade, OneKeyMade', NEW p \in Member, NEW s \in Slot,
           Busy(p, s), NEW c, call' = [call EXCEPT ![p][s] = c],
           UNCHANGED <<relay, keyring>>,
           p \notin members => Unserved(c),
           call[p][s].at # "postKeys", Informed(p, c)
    PROVE  KeyInv'
<1>1. /\ call'[p][s] = c
      /\ \A q \in Member, t \in Slot : q # p \/ t # s => call'[q][t] = call[q][t]
      /\ p \notin overlapped' => \A t \in Slot : t # s => call[p][t] = Idle
  BY CallsAfter
<1>2. /\ UNCHANGED <<members, relayEpoch, messages, wraps, epoch, groupKey, groupKeys, established>>
      /\ overlapped \subseteq overlapped' /\ relayEpoch \in Nat
  BY MemberCount DEF relay, keyring, Busy, TypeInv, RelayOK, Epoch
<1>3. \A e, k : PostedKey(e, k) => PostedKey(e, k)'
  BY PostedStays
<1>4. KeysHeld'
  BY <1>2 DEF KeyInv, KeysHeld
<1>5. WrapsHeld'
  BY <1>2, <1>3 DEF KeyInv, WrapsHeld
<1>6. ASSUME p \notin overlapped'
      PROVE  KeyInUse(p)'
  <2>1. KeyInUse(p)
    BY <1>2, <1>6 DEF KeyInv
  <2>2. ASSUME NEW t \in Slot, Awaits(p, t, "postKeys")
        PROVE  Awaits(p, t, "postKeys")'
    BY <1>1, <2>2 DEF Awaits
  <2> QED
    BY <1>2, <2>1, <2>2 DEF KeyInUse
<1>7. Informed(p, call[p][s])'
  BY <1>1, <1>2 DEF Informed
<1>8. KeptSealed'
  BY <1>2 DEF KeyInv, KeptSealed
<1>9. p \notin members' => groupKey'[p] = NoKey
  BY <1>2 DEF KeyInv, Stranger
<1>10. KeysKept(p)
  BY <1>2 DEF KeysKept
<1>11. p \notin members' => groupKey'[p] = NoKey /\ Unserved(c)
  BY <1>2, <1>9
<1>12. p \notin overlapped' => KeyInUse(p)'
  BY <1>6
<1> QED
  BY <1>4, <1>5, <1>7, <1>8, <1>10, <1>11, <1>12, KeysOfStep

LEMMA InformedAwait ==
    ASSUME NEW p, NEW op, NEW sent
    PROVE  /\ Informed(p, Idle) /\ Unserved(Idle)
           /\ \A at \in {"status", "getMessages", "wait"} : Informed(p, Awaiting(op, at, sent))
           /\ \A at \in {"joinSession", "status", "getMessages"} : Unserved(Awaiting(op, at, sent))
           /\ p # Creator => /\ Informed(p, Awaiting(op, "joinSession", sent))
                             /\ Informed(p, Awaiting(op, "getKey", sent))
           /\ sent.sender = p /\ (p \notin overlapped => groupKeys[p][sent.epoch] = sent.key) =>
                Informed(p, Awaiting(op, "postMessage", sent))
BY DEF Informed, Unserved, Awaiting, Idle

(* A call whose answer tells nothing of keys. *)
LEMMA InformedTold ==
    ASSUME NEW p, NEW c \in Call, NEW a, Informed(p, c),
           c.at \in {"getMessages", "wait", "postMessage"}
    PROVE  Informed(p, [c EXCEPT !.told = a]) /\ [c EXCEPT !.told = a].at = c.at
<1>1. c # Idle
  BY DEF Idle
<1>2. [c EXCEPT !.told = a].at = c.at /\ [c EXCEPT !.told = a].sent = c.sent
  BY <1>1 DEF Call
<1> HIDE DEF Call
<1> QED
  BY <1>2 DEF Informed

LEMMA QuietSteps ==
    ASSUME TypeInv, Alone, KeyInv, OneKeyMade, OneKeyMade', NEW p \in Member, NEW s \in Slot,
           Busy(p, s),
           \/ Join(p, s) \/ Send(p, s) \/ Receive(p, s) \/ GetStatus(p, s) \/ GetSAS(p, s)
           \/ Export(p, s)
           \/ ServeStatus(p, s) \/ ServeGetKey(p, s) \/ ServeGetMessages(p, s) \/ ServeWait(p, s)
           \/ Refuse(p, s)
           \/ KeyIsThere(p, s) \/ AskForKey(p, s) \/ GotNoKey(p, s) \/ SasComputed(p, s)
           \/ Reported(p, s) \/ Exported(p, s) \/ Post(p, s) \/ Sent(p, s) \/ Received(p, s)
           \/ WaitAgain(p, s)
           \/ Lose(p, s)
    PROVE  KeyInv'
<1> DEFINE d == call[p][s]
           Same == UNCHANGED <<relay, keyring>>
<1>1. /\ Idle.at = "idle"
      /\ \A op, at, sent : Awaiting(op, at, sent).at = at
  BY DEF Idle, Awaiting
<1>2. d \in Call /\ Informed(p, d) /\ KeysHeld
  BY DEF TypeInv, CallsOK, KeyInv
<1>3. ~Unserved(d) => p \in members
  BY IsMember
<1>4. ASSUME Same, d.at # "postKeys",
             NEW op, NEW at \in {"status", "getMessages"}, NEW sent, Await(p, s, op, at, sent)
      PROVE  KeyInv'
  <2> DEFINE c == Awaiting(op, at, sent)
  <2>1. Informed(p, c) /\ Unserved(c)
    BY InformedAwait
  <2>2. call' = [call EXCEPT ![p][s] = c]
    BY <1>4 DEF Await, Awaiting
  <2> HIDE DEF c
  <2> QED
    BY <1>4, <2>1, <2>2, KeysOfQuiet
<1>5. ASSUME Same, d.at # "postKeys", Return(p, s)
      PROVE  KeyInv'
  BY <1>5, InformedAwait, KeysOfQuiet DEF Return
<1>6. ASSUME Same, d.at # "postKeys", p \in members, NEW a, Tell(p, s, a),
             Informed(p, [d EXCEPT !.told = a])
      PROVE  KeyInv'
  <2> DEFINE c == [d EXCEPT !.told = a]
  <2>1. call' = [call EXCEPT ![p][s] = c]
    BY <1>6, TellChanges
  <2>2. Informed(p, c)
    BY <1>6
  <2> HIDE DEF c
  <2> QED
    BY <1>6, <2>1, <2>2, KeysOfQuiet
<1>7. ASSUME Same, d.at # "postKeys", NEW gk, AfterEnsureKeys(p, s, gk)
      PROVE  KeyInv'
  BY <1>4, <1>5, <1>7 DEF AfterEnsureKeys
<1> HIDE DEF d
<1>8. CASE Join(p, s)
  <2> DEFINE c == Awaiting("join", "joinSession", 0)
  <2>1. d = Idle /\ Same /\ p # Creator /\ call' = [call EXCEPT ![p][s] = c]
    BY <1>8, RoomAssumption DEF Join, Begin, Await, Awaiting, d
  <2>2. Informed(p, c) /\ Unserved(c)
    BY <2>1, InformedAwait
  <2> HIDE DEF c
  <2> QED
    BY <1>1, <2>1, <2>2, KeysOfQuiet DEF d
<1>9. CASE Send(p, s) \/ Receive(p, s) \/ GetStatus(p, s) \/ GetSAS(p, s) \/ Export(p, s)
  <2>1. d = Idle /\ Same
    BY <1>9 DEF Send, Receive, GetStatus, GetSAS, Export, Begin, client, d
  <2>2. \E op, at, sent : at \in {"status", "getMessages"} /\ Await(p, s, op, at, sent)
    BY <1>9 DEF Send, Receive, GetStatus, GetSAS, Export
  <2> QED
    BY <1>1, <1>4, <2>1, <2>2
<1>10. CASE ServeStatus(p, s)
  <2> DEFINE a == [epoch |-> relayEpoch, members |-> members]
             c == [d EXCEPT !.told = a]
  <2>1. d.at = "status" /\ Same /\ Tell(p, s, a) /\ p \in members
    BY <1>10 DEF ServeStatus, Asked, Awaits, client, d
  <2>2. d # Idle
    BY <1>1, <2>1
  <2>3. a.epoch = relayEpoch
    OBVIOUS
  <2> HIDE DEF a
  <2>4. c.at = "status" /\ c.told = a
    BY <1>2, <2>1, <2>2 DEF Call
  <2>5. relayEpoch <= relayEpoch /\ established <= relayEpoch
    BY <1>2, MemberCount DEF KeysHeld, TypeInv, RelayOK, Epoch
  <2> HIDE DEF c
  <2>6. Informed(p, c)
    BY <2>3, <2>4, <2>5 DEF Informed
  <2> QED
    BY <1>6, <2>1, <2>6 DEF c
<1>11. CASE ServeGetKey(p, s)
  <2> DEFINE a == wraps[d.sent][p]
             c == [d EXCEPT !.told = a]
  <2>1. d.at = "getKey" /\ Same /\ Tell(p, s, a)
    BY <1>11 DEF ServeGetKey, Asked, Awaits, client, d
  <2>2. d # Idle /\ p \in members
    BY <1>1, <1>3, <2>1 DEF Unserved
  <2>3. c.at = "getKey" /\ c.sent = d.sent /\ c.told = a
    BY <1>2, <2>1, <2>2 DEF Call
  <2> HIDE DEF c
  <2>4. Informed(p, c)
    BY <1>2, <2>1, <2>3 DEF Informed
  <2> QED
    BY <1>6, <2>1, <2>2, <2>4 DEF c
<1>12. CASE ServeGetMessages(p, s)
  <2>1. d.at = "getMessages" /\ Same /\ Tell(p, s, Len(messages)) /\ p \in members
    BY <1>12 DEF ServeGetMessages, Asked, Awaits, client, d
  <2> QED
    BY <1>2, <1>6, <2>1, InformedTold
<1>13. ASSUME d.at = "wait", Same, Tell(p, s, TRUE)
       PROVE  KeyInv'
  <2>1. p \in members
    BY <1>3, <1>13 DEF Unserved
  <2> QED
    BY <1>2, <1>6, <1>13, <2>1, InformedTold
<1>14. CASE ServeWait(p, s)
  BY <1>13, <1>14 DEF ServeWait, Asked, Awaits, client, d
<1>15. CASE Refuse(p, s)
  <2>1. d.at \in {"joinSession", "status", "getMessages"} /\ Same /\ Return(p, s)
    BY <1>15 DEF Refuse, Asked, Awaits, client, d
  <2> QED
    BY <1>5, <2>1
<1>16. CASE KeyIsThere(p, s)
  <2>1. d.at = "status" /\ Same /\ AfterEnsureKeys(p, s, groupKey[p])
    BY <1>16 DEF KeyIsThere, HasStatus, Answered, Awaits, d
  <2> QED
    BY <1>7, <2>1
<1>17. CASE GotNoKey(p, s)
  <2>1. d.at = "getKey" /\ Same /\ AfterEnsureKeys(p, s, groupKey[p])
    BY <1>17 DEF GotNoKey, Answered, Awaits, client, d
  <2> QED
    BY <1>7, <2>1
<1>18. CASE AskForKey(p, s)
  <2> DEFINE c == Awaiting(d.op, "getKey", d.told.epoch)
  <2>1. /\ d.at = "status" /\ d.told # NoAnswer /\ Same /\ p # Creator
        /\ call' = [call EXCEPT ![p][s] = c]
    BY <1>18 DEF AskForKey, HasStatus, Answered, Awaits, Await, Awaiting, d
  <2>2. Informed(p, c)
    BY <2>1, InformedAwait
  <2>3. p \in members
    BY <1>3, <2>1 DEF Unserved
  <2> HIDE DEF c
  <2> QED
    BY <2>1, <2>2, <2>3, KeysOfQuiet DEF d
<1>19. CASE SasComputed(p, s) \/ Reported(p, s)
  <2>1. d.at = "status" /\ Same /\ Return(p, s)
    BY <1>19 DEF SasComputed, Reported, Answered, Awaits, client, d
  <2> QED
    BY <1>5, <2>1
<1>20. CASE Exported(p, s)
  <2>1. d.at = "getMessages" /\ Same /\ Return(p, s)
    BY <1>20 DEF Exported, Answered, Awaits, d
  <2> QED
    BY <1>5, <2>1
<1>21. CASE Post(p, s)
  <2> DEFINE m == [sender |-> p, epoch |-> epoch[p], key |-> groupKey[p], prev |-> HeadHash(p)']
             c == Awaiting(d.op, "postMessage", m)
  <2>1. /\ d.at = "getMessages" /\ d.told # NoAnswer /\ Same /\ d.op \in Posting
        /\ call' = [call EXCEPT ![p][s] = c]
    BY <1>21 DEF Post, Answered, Awaits, Await, Awaiting, d
  <2>2. groupKey[p] # NoKey
    BY <2>1 DEF TypeInv, CallsOK, Awaits, d
  <2>3. ASSUME p \notin overlapped
        PROVE  groupKeys[p][epoch[p]] = groupKey[p]
    <3>1. d # Idle
      BY <1>1, <2>1
    <3>2. \A t \in Slot : t # s => call[p][t] = Idle
      BY <2>3, <3>1 DEF Alone, d
    <3>3. ~\E t \in Slot : Awaits(p, t, "postKeys")
      BY <1>1, <2>1, <3>2 DEF Awaits, d
    <3> QED
      BY <2>2, <2>3, <3>3 DEF KeyInv, KeyInUse
  <2>4. m.sender = p /\ m.epoch = epoch[p] /\ m.key = groupKey[p]
    OBVIOUS
  <2> HIDE DEF m
  <2>5. Informed(p, c)
    BY <2>3, <2>4, InformedAwait
  <2>6. p \in members
    BY <1>3, <2>1 DEF Unserved
  <2> HIDE DEF c
  <2> QED
    BY <2>1, <2>5, <2>6, KeysOfQuiet DEF d
<1>22. CASE Sent(p, s)
  <2>1. /\ d.at = "postMessage" /\ Same
        /\ Return(p, s) \/ Await(p, s, "waitForMessage", "status", 0)
    BY <1>22 DEF Sent, Answered, Awaits, client, d
  <2> QED
    BY <1>4, <1>5, <2>1
<1>23. CASE Received(p, s)
  <2> DEFINE c == Awaiting("waitForMessage", "wait", fetchedSeq'[p])
  <2>1. /\ d.at = "getMessages" /\ d.told # NoAnswer /\ Same
        /\ Return(p, s) \/ call' = [call EXCEPT ![p][s] = c]
    BY <1>23 DEF Received, Answered, Awaits, Await, Awaiting, d
  <2>2. Informed(p, c)
    BY InformedAwait
  <2>3. p \in members
    BY <1>3, <2>1 DEF Unserved
  <2> HIDE DEF c
  <2>4. CASE Return(p, s)
    BY <1>5, <2>1, <2>4
  <2>5. CASE call' = [call EXCEPT ![p][s] = c]
    BY <2>1, <2>2, <2>3, <2>5, KeysOfQuiet DEF d
  <2> QED
    BY <2>1, <2>4, <2>5
<1>24. CASE WaitAgain(p, s)
  <2>1. d.at = "wait" /\ Same /\ Await(p, s, "waitForMessage", "status", 0)
    BY <1>24 DEF WaitAgain, Answered, Awaits, client, d
  <2> QED
    BY <1>4, <2>1
<1>25. CASE Lose(p, s)
  <2>1. d.at # "postKeys" /\ Same /\ (Return(p, s) \/ (d.at = "wait" /\ Tell(p, s, TRUE)))
    BY <1>25 DEF Lose, Awaits, OneKeyMade, client, d
  <2> QED
    BY <1>5, <1>13, <2>1
<1> QED
  BY <1>8, <1>9, <1>10, <1>11, <1>12, <1>14, <1>15, <1>16, <1>17, <1>18, <1>19, <1>20, <1>21, <1>22,
     <1>23, <1>24, <1>25

(* Joining. *)
LEMMA KeysOfServeJoin ==
    ASSUME TypeInv, Alone, KeyInv, OneKeyMade, OneKeyMade', NEW p \in Member, NEW s \in Slot,
           Busy(p, s), ServeJoin(p, s)
    PROVE  KeyInv'
<1> DEFINE a == [epoch |-> relayEpoch', members |-> members']
           c == [call[p][s] EXCEPT !.told = a]
<1>1. call[p][s].at = "joinSession" /\ p \notin members /\ Tell(p, s, a)
  BY DEF ServeJoin, Asked, Awaits
<1>2. c.at = "joinSession"
  <2>1. call[p][s] \in Call /\ call[p][s] # Idle
    BY <1>1 DEF TypeInv, CallsOK, Idle
  <2> QED
    BY <1>1, <2>1 DEF Call
<1>3. /\ call' = [call EXCEPT ![p][s] = c]
      /\ members' = members \cup {p} /\ relayEpoch' = relayEpoch + 1 /\ relayEpoch \in Nat
      /\ UNCHANGED <<messages, wraps, epoch, groupKey, groupKeys, established>>
  BY <1>1, TellChanges, MemberCount DEF ServeJoin, client, keyring, TypeInv, RelayOK, Epoch
<1> HIDE DEF c
<1>4. call'[p][s] = c
  BY <1>3 DEF TypeInv, CallsOK
<1>5. p # Creator /\ groupKey[p] = NoKey
  BY <1>1 DEF KeyInv, Informed, Stranger
<1>6. \A e, k : PostedKey(e, k) => PostedKey(e, k)'
  BY <1>3, <1>5, PostedStays
<1>7. established \in Int
  BY MemberCount DEF TypeInv, KeyringOK, Epoch
<1>8. KeysHeld'
  BY <1>3, <1>7 DEF KeyInv, KeysHeld
<1>9. WrapsHeld'
  BY <1>3, <1>6 DEF KeyInv, WrapsHeld
<1>10. KeyInUse(p)'
  BY <1>3, <1>5 DEF KeyInUse
<1>11. Informed(p, call[p][s])'
  BY <1>2, <1>3, <1>4, <1>5 DEF Informed
<1>12. KeptSealed'
  BY <1>3 DEF KeyInv, KeptSealed, Busy
<1>13. relayEpoch' \in Nat /\ relayEpoch <= relayEpoch' /\ p \in members' /\ members \subseteq members'
  BY <1>3
<1>14. KeysKept(p)
  BY <1>3, <1>13 DEF KeysKept
<1> QED
  BY <1>3, <1>8, <1>9, <1>10, <1>11, <1>12, <1>13, <1>14, KeysOfStep

LEMMA KeysOfJoined ==
    ASSUME TypeInv, Alone, KeyInv, OneKeyMade, OneKeyMade', NEW p \in Member, NEW s \in Slot,
           Busy(p, s), Joined(p, s)
    PROVE  KeyInv'
<1>1. call[p][s].at = "joinSession" /\ call[p][s].told # NoAnswer
  BY DEF Joined, Answered, Awaits
<1>2. /\ call' = [call EXCEPT ![p][s] = Idle]
      /\ epoch' = [epoch EXCEPT ![p] = call[p][s].told.epoch] /\ epoch \in [Member -> Epoch]
      /\ UNCHANGED <<members, relayEpoch, messages, wraps, groupKey, groupKeys, established>>
      /\ relayEpoch \in Nat
  BY MemberCount DEF Joined, Return, relay, TypeInv, KeyringOK, RelayOK, Epoch
<1>3. call'[p][s] = Idle /\ \A q \in Member : q # p => epoch'[q] = epoch[q]
  BY <1>2 DEF TypeInv, CallsOK
<1>4. p # Creator /\ p \in members
  BY <1>1, IsMember DEF KeyInv, Informed, Unserved
<1>5. \A e, k : PostedKey(e, k) => PostedKey(e, k)'
  BY <1>2, <1>4, PostedStays
<1>6. KeysHeld'
  BY <1>2 DEF KeyInv, KeysHeld
<1>7. WrapsHeld'
  BY <1>2, <1>5 DEF KeyInv, WrapsHeld
<1>8. p \notin overlapped' => KeyInUse(p)'
  BY <1>1, <1>2 DEF KeyInv, Informed, KeyInUse, Busy
<1>9. Informed(p, call[p][s])'
  BY <1>3 DEF Informed, Idle
<1>10. KeptSealed'
  BY <1>2 DEF KeyInv, KeptSealed, Busy
<1>11. KeysKept(p)
  BY <1>2, <1>3 DEF KeysKept
<1>12. p \in members'
  BY <1>2, <1>4
<1> QED
  BY <1>2, <1>6, <1>7, <1>8, <1>9, <1>10, <1>11, <1>12, KeysOfStep

(* Posting. *)
LEMMA KeysOfPostMessage ==
    ASSUME TypeInv, Alone, KeyInv, OneKeyMade, OneKeyMade', NEW p \in Member, NEW s \in Slot,
           Busy(p, s), ServePostMessage(p, s)
    PROVE  KeyInv'
<1> DEFINE d == call[p][s]
           a == Len(messages')
           c == [d EXCEPT !.told = a]
<1>1. d.at = "postMessage" /\ Tell(p, s, a) /\ d \in Call /\ Informed(p, d)
  BY DEF ServePostMessage, Asked, Awaits, TypeInv, CallsOK, KeyInv
<1>2. d.sent \in Message /\ messages' = Append(messages, d.sent) /\ messages \in Seq(Message)
  BY <1>1, CallFields DEF ServePostMessage, TypeInv, RelayOK
<1> HIDE DEF a
<1>3. c.at = "postMessage" /\ Informed(p, c)
  BY <1>1, InformedTold
<1>4. /\ call' = [call EXCEPT ![p][s] = c]
      /\ UNCHANGED <<members, relayEpoch, wraps, epoch, groupKey, groupKeys, established>>
      /\ relayEpoch \in Nat /\ overlapped \subseteq overlapped'
  BY <1>1, TellChanges, MemberCount
     DEF ServePostMessage, client, keyring, TypeInv, RelayOK, Epoch, Busy
<1>5. d.sent.sender = p /\ (p \notin overlapped => groupKeys[p][d.sent.epoch] = d.sent.key)
  BY <1>1 DEF Informed
<1>6. p \in members
  BY <1>1, IsMember DEF Unserved
<1> HIDE DEF c, d
<1>7. /\ call'[p][s] = c
      /\ \A q \in Member, t \in Slot : q # p \/ t # s => call'[q][t] = call[q][t]
      /\ p \notin overlapped' => \A t \in Slot : t # s => call[p][t] = Idle
  BY <1>4, CallsAfter
<1>8. \A e, k : PostedKey(e, k) => PostedKey(e, k)'
  BY <1>1, <1>4, PostedStays DEF d
<1>9. KeysHeld'
  BY <1>4 DEF KeyInv, KeysHeld
<1>10. WrapsHeld'
  BY <1>4, <1>8 DEF KeyInv, WrapsHeld
<1>11. ASSUME p \notin overlapped'
       PROVE  KeyInUse(p)'
  <2>1. KeyInUse(p)
    BY <1>4, <1>11 DEF KeyInv
  <2>2. ASSUME NEW t \in Slot, Awaits(p, t, "postKeys")
        PROVE  Awaits(p, t, "postKeys")'
    BY <1>1, <1>7, <2>2 DEF Awaits, d
  <2> QED
    BY <1>4, <2>1, <2>2 DEF KeyInUse
<1>12. Informed(p, call[p][s])'
  BY <1>3, <1>4, <1>7 DEF Informed
<1>13. KeptSealed'
  <2>1. /\ DOMAIN messages = 1..Len(messages) /\ DOMAIN messages' = 1..(Len(messages) + 1)
        /\ Len(messages) \in Nat
        /\ \A i \in 1..Len(messages) : messages'[i] = messages[i]
        /\ messages'[Len(messages) + 1] = d.sent
    BY <1>2, AppendProperties, LenProperties
  <2>2. \A i \in DOMAIN messages' : i \in DOMAIN messages \/ i = Len(messages) + 1
    BY <2>1
  <2> QED
    BY <1>4, <1>5, <2>1, <2>2 DEF KeyInv, KeptSealed
<1>14. KeysKept(p) /\ p \in members'
  BY <1>4, <1>6 DEF KeysKept
<1>15. p \notin overlapped' => KeyInUse(p)'
  BY <1>11
<1> QED
  BY <1>4, <1>9, <1>10, <1>12, <1>13, <1>14, <1>15, KeysOfStep

(* The key posted is for an epoch that nobody has a key for. *)
LEMMA EpochIsNew ==
    ASSUME TypeInv, Alone, KeyInv, OneKeyMade, NEW p \in Member, NEW s \in Slot,
           Awaits(p, s, "postKeys")
    PROVE  /\ p = Creator /\ p \in members
           /\ call[p][s].sent.epoch \in Epoch /\ call[p][s].sent.key \in Key
           /\ established < call[p][s].sent.epoch /\ call[p][s].sent.epoch <= relayEpoch
           /\ epoch[p] = call[p][s].sent.epoch
           /\ groupKeys[Creator][call[p][s].sent.epoch] = NoKey
           /\ \A e, k : PostedKey(e, k) =>
                call[p][s].told # NoAnswer /\ e = call[p][s].sent.epoch /\ k = call[p][s].sent.key
<1>1. call[p][s] \in Call /\ Informed(p, call[p][s]) /\ KeysHeld
  BY DEF TypeInv, CallsOK, KeyInv
<1>2. call[p][s].sent.epoch \in Epoch /\ call[p][s].sent.key \in Key
  BY <1>1, CallFields DEF KeyPost, Awaits
<1>3. p = Creator /\ p \in members
  BY <1>1 DEF Informed, KeysHeld, Awaits
<1>4. /\ established < call[p][s].sent.epoch /\ call[p][s].sent.epoch <= relayEpoch
      /\ epoch[p] = call[p][s].sent.epoch
  BY <1>1 DEF Informed, Awaits
<1>5. established \in Int /\ call[p][s].sent.epoch \in Int
  BY <1>2, MemberCount DEF TypeInv, KeyringOK, Epoch
<1>6. groupKeys[Creator][call[p][s].sent.epoch] = NoKey
  BY <1>1, <1>2, <1>4, <1>5 DEF KeysHeld
<1>7. \A e, k : PostedKey(e, k) =>
        call[p][s].told # NoAnswer /\ e = call[p][s].sent.epoch /\ k = call[p][s].sent.key
  <2>1. Idle.at = "idle"
    BY DEF Idle
  <2>2. p \notin overlapped /\ call[p][s] # Idle
    BY <1>3, <2>1 DEF OneKeyMade, Awaits
  <2>3. \A t \in Slot : t # s => call[p][t].at = "idle"
    BY <2>1, <2>2 DEF Alone
  <2> QED
    BY <1>3, <2>3 DEF PostedKey, Answered, Awaits
<1> QED
  BY <1>2, <1>3, <1>4, <1>6, <1>7

LEMMA KeysOfPostKeys ==
    ASSUME TypeInv, Alone, KeyInv, OneKeyMade, OneKeyMade', NEW p \in Member, NEW s \in Slot,
           Busy(p, s), ServePostKeys(p, s)
    PROVE  KeyInv'
<1> DEFINE d == call[p][s]
           c == [d EXCEPT !.told = TRUE]
           e0 == d.sent.epoch
<1>1. d.at = "postKeys" /\ d.told = NoAnswer /\ Tell(p, s, TRUE) /\ d \in Call /\ d # Idle
  <2>1. d.at = "postKeys" /\ d.told = NoAnswer /\ Tell(p, s, TRUE)
    BY DEF ServePostKeys, Asked, Awaits
  <2>2. d \in Call
    BY DEF TypeInv, CallsOK
  <2>3. d # Idle
    BY <2>1 DEF Idle
  <2> QED
    BY <2>1, <2>2, <2>3
<1>2. /\ p = Creator /\ p \in members /\ e0 \in Epoch /\ d.sent.key \in Key
      /\ established < e0 /\ e0 <= relayEpoch /\ epoch[p] = e0
      /\ groupKeys[Creator][e0] = NoKey
      /\ \A e, k : ~PostedKey(e, k)
  BY <1>1, EpochIsNew DEF Awaits
<1>3. c.at = "postKeys" /\ c.sent = d.sent /\ c.told # NoAnswer
  <2>1. c.at = "postKeys" /\ c.sent = d.sent
    BY <1>1 DEF Call
  <2>2. c.told = TRUE
    BY <1>1 DEF Call
  <2>3. TRUE # NoAnswer
    BY RoomAssumption
  <2> QED
    BY <2>1, <2>2, <2>3
<1>4. /\ call' = [call EXCEPT ![p][s] = c]
      /\ UNCHANGED <<members, relayEpoch, messages, epoch, groupKey, groupKeys, established>>
      /\ relayEpoch \in Nat
  <2>1. call' = [call EXCEPT ![p][s] = c]
    BY <1>1 DEF Tell
  <2> QED
    BY <2>1, MemberCount DEF ServePostKeys, client, keyring, TypeInv, RelayOK, Epoch
<1>5. \A e \in Epoch, q \in Member :
        wraps'[e][q] = IF e = e0 /\ q \in d.sent.members THEN d.sent.key ELSE wraps[e][q]
  BY <1>2 DEF ServePostKeys, TypeInv, RelayOK
<1> HIDE DEF c, d, e0
<1>6. call'[p][s] = c
  BY <1>4 DEF TypeInv, CallsOK
<1>7. \A e \in Epoch, q \in Member : wraps[e][q] \in {NoKey, groupKeys[Creator][e]}
  BY <1>2 DEF KeyInv, WrapsHeld
<1>8. \A q \in Member : wraps[e0][q] = NoKey
  BY <1>2, <1>7
<1>9. \A e, k : e = e0 /\ k = d.sent.key => PostedKey(e, k)'
  BY <1>2, <1>3, <1>6 DEF PostedKey, Answered, Awaits, e0
<1>10. KeysHeld'
  <2>1. \A q \in Joiner, e \in Epoch : groupKeys[q][e] \in {NoKey, wraps'[e][q]}
    BY <1>5, <1>8 DEF KeyInv, KeysHeld, Member
  <2> QED
    BY <1>4, <2>1 DEF KeyInv, KeysHeld
<1>11. WrapsHeld'
  <2>1. ASSUME NEW e \in Epoch, NEW q \in Member
        PROVE  wraps'[e][q] \in {NoKey, groupKeys[Creator][e]} \/ PostedKey(e, wraps[e][q])'
    <3>1. CASE e = e0 /\ q \in d.sent.members
      BY <1>5, <1>9, <3>1
    <3>2. CASE ~(e = e0 /\ q \in d.sent.members)
      BY <1>5, <1>7, <3>2
    <3> QED
      BY <3>1, <3>2
  <2> QED
    BY <1>4, <2>1 DEF WrapsHeld
<1>12. KeyInUse(p)'
  <2>1. Awaits(p, s, "postKeys")'
    BY <1>3, <1>6 DEF Awaits
  <2> QED
    BY <2>1 DEF KeyInUse
<1>13. Informed(p, call[p][s])'
  BY <1>2, <1>3, <1>4, <1>6 DEF Informed, e0
<1>14. KeptSealed'
  BY <1>4 DEF KeyInv, KeptSealed, Busy
<1>15. \A e \in Epoch, q \in Member : wraps[e][q] # NoKey => wraps'[e][q] = wraps[e][q]
  BY <1>5, <1>8
<1>16. KeysKept(p) /\ p \in members'
  BY <1>2, <1>4, <1>15 DEF KeysKept
<1> QED
  BY <1>4, <1>10, <1>11, <1>12, <1>13, <1>14, <1>16, KeysOfStep

(* The key-holder makes a key for an epoch it has none for, and holds it once it is posted. *)
LEMMA KeysOfMakeKey ==
    ASSUME TypeInv, Alone, KeyInv, OneKeyMade, OneKeyMade', NEW p \in Member, NEW s \in Slot,
           Busy(p, s), MakeKey(p, s)
    PROVE  KeyInv'
<1> DEFINE d == call[p][s]
           k == [epoch |-> d.told.epoch, key |-> lastKey', members |-> d.told.members]
           c == Awaiting(d.op, "postKeys", k)
<1>1. /\ d.at = "status" /\ d.told # NoAnswer /\ p = Creator
      /\ groupKey[p] = NoKey \/ d.told.epoch # established
  BY DEF MakeKey, HasStatus, Answered, Awaits, NeedsKey
<1>2. k.epoch = d.told.epoch
  OBVIOUS
<1>3. call' = [call EXCEPT ![p][s] = c]
  BY DEF MakeKey, Await, Awaiting
<1> HIDE DEF k
<1>4. c.at = "postKeys" /\ c.sent = k
  BY DEF Awaiting
<1>5. /\ epoch' = [epoch EXCEPT ![p] = d.told.epoch] /\ epoch \in [Member -> Epoch]
      /\ UNCHANGED <<members, relayEpoch, messages, wraps, groupKey, groupKeys, established>>
      /\ relayEpoch \in Nat
  BY MemberCount DEF MakeKey, relay, TypeInv, KeyringOK, RelayOK, Epoch
<1> HIDE DEF c
<1>6. call'[p][s] = c /\ epoch'[p] = d.told.epoch /\ \A q \in Member : q # p => epoch'[q] = epoch[q]
  BY <1>3, <1>5 DEF TypeInv, CallsOK
<1>7. /\ established < d.told.epoch /\ d.told.epoch <= relayEpoch
  <2>1. d \in Call /\ Informed(p, d) /\ KeysHeld
    BY DEF TypeInv, CallsOK, KeyInv
  <2>2. d.told.epoch \in Nat /\ established \in Int
    BY <1>1, <2>1, CallFields, MemberCount DEF StatusAnswer, Epoch, TypeInv, KeyringOK
  <2> QED
    BY <1>1, <2>1, <2>2 DEF KeysHeld, Informed
<1>8. p \in members
  BY <1>1 DEF KeyInv, KeysHeld
<1>9. \A e, x : PostedKey(e, x) => PostedKey(e, x)'
  BY <1>1, <1>3, PostedStays
<1> HIDE DEF d
<1>10. KeysHeld'
  BY <1>5 DEF KeyInv, KeysHeld
<1>11. WrapsHeld'
  BY <1>5, <1>9 DEF KeyInv, WrapsHeld
<1>12. KeyInUse(p)'
  <2>1. Awaits(p, s, "postKeys")'
    BY <1>4, <1>6 DEF Awaits
  <2> QED
    BY <2>1 DEF KeyInUse
<1>13. Informed(p, call[p][s])'
  BY <1>1, <1>2, <1>4, <1>5, <1>6, <1>7 DEF Informed
<1>14. KeptSealed'
  BY <1>5 DEF KeyInv, KeptSealed, Busy
<1>15. KeysKept(p) /\ p \in members'
  BY <1>1, <1>5, <1>6, <1>8 DEF KeysKept
<1> QED
  BY <1>3, <1>10, <1>11, <1>12, <1>13, <1>14, <1>15, KeysOfStep

(* What follows ensureKeys is no call that posts keys, or a message. *)
LEMMA AfterKeysInformed ==
    ASSUME NEW p, NEW s, NEW gk, AfterEnsureKeys(p, s, gk)
    PROVE  \E c : /\ call' = [call EXCEPT ![p][s] = c]
                  /\ c.at \in {"idle", "status", "getMessages"}
                  /\ Unserved(c)
<1>1. ASSUME NEW op, NEW at \in {"status", "getMessages"}, NEW sent, Await(p, s, op, at, sent)
      PROVE  \E c : /\ call' = [call EXCEPT ![p][s] = c]
                    /\ c.at \in {"idle", "status", "getMessages"}
                    /\ Unserved(c)
  <2>1. /\ Awaiting(op, at, sent).at = at
        /\ Awaiting(op, at, sent).told = NoAnswer
    BY DEF Awaiting
  <2>2. call' = [call EXCEPT ![p][s] = Awaiting(op, at, sent)]
    BY <1>1 DEF Await, Awaiting
  <2> QED
    BY <2>1, <2>2 DEF Unserved
<1>2. CASE Return(p, s)
  <2>1. Idle.at = "idle"
    BY DEF Idle
  <2> QED
    BY <1>2, <2>1 DEF Return, Unserved
<1> QED
  BY <1>1, <1>2 DEF AfterEnsureKeys

LEMMA KeysOfKeyPosted ==
    ASSUME TypeInv, Alone, KeyInv, OneKeyMade, OneKeyMade', NEW p \in Member, NEW s \in Slot,
           Busy(p, s), KeyPosted(p, s)
    PROVE  KeyInv'
<1> DEFINE e0 == call[p][s].sent.epoch
           k0 == call[p][s].sent.key
<1>1. /\ p = Creator /\ p \in members /\ e0 \in Epoch /\ k0 \in Key
      /\ established < e0 /\ e0 <= relayEpoch /\ epoch[p] = e0
      /\ groupKeys[Creator][e0] = NoKey
      /\ \A e, k : PostedKey(e, k) => e = e0 /\ k = k0
  BY EpochIsNew DEF KeyPosted, Answered
<1>2. PICK c : call' = [call EXCEPT ![p][s] = c] /\ c.at \in {"idle", "status", "getMessages"}
                                                 /\ Unserved(c)
  BY AfterKeysInformed DEF KeyPosted
<1>3. call'[p][s] = c
  BY <1>2 DEF TypeInv, CallsOK
<1>4. /\ groupKey \in [Member -> Key \cup {NoKey}]
      /\ groupKeys \in [Member -> [Epoch -> Key \cup {NoKey}]]
      /\ established \in Int /\ relayEpoch \in Nat /\ \A e \in Epoch : e \in Int
  BY MemberCount DEF TypeInv, KeyringOK, RelayOK, Epoch
<1>5. /\ groupKey' = [groupKey EXCEPT ![p] = k0]
      /\ groupKeys' = [groupKeys EXCEPT ![p][e0] = k0]
      /\ established' = e0
      /\ UNCHANGED <<members, relayEpoch, messages, wraps, epoch>>
  BY DEF KeyPosted, HoldKey, relay
<1> HIDE DEF e0, k0
<1>6. /\ groupKey'[p] = k0 /\ groupKeys'[p][e0] = k0
      /\ \A e \in Epoch : e # e0 => groupKeys'[p][e] = groupKeys[p][e]
      /\ \A q \in Member : q # p => groupKey'[q] = groupKey[q] /\ groupKeys'[q] = groupKeys[q]
  BY <1>1, <1>4, <1>5
<1>7. NoKey \notin Key
  BY DEF NoKey, Key
<1>8. KeysHeld'
  <2>1. \A q \in Joiner : q \in Member /\ q # p
    BY <1>1, RoomAssumption DEF Member
  <2>2. \A e \in Epoch : groupKeys'[Creator][e] # NoKey => e <= e0
    <3> SUFFICES ASSUME NEW e \in Epoch, groupKeys'[Creator][e] # NoKey, e # e0 PROVE e <= e0
      BY <1>4
    <3>1. e <= established
      BY <1>1, <1>6 DEF KeyInv, KeysHeld
    <3> QED
      BY <1>1, <1>4, <3>1
  <2>3. groupKey'[Creator] # NoKey
    BY <1>1, <1>6, <1>7
  <2> QED
    BY <1>1, <1>5, <1>6, <2>1, <2>2, <2>3 DEF KeyInv, KeysHeld
<1>9. WrapsHeld'
  <2>1. ASSUME NEW e \in Epoch, NEW q \in Member
        PROVE  wraps[e][q] \in {NoKey, groupKeys'[Creator][e]}
    <3>1. wraps[e][q] \in {NoKey, groupKeys[Creator][e]} \/ PostedKey(e, wraps[e][q])
      BY DEF KeyInv, WrapsHeld
    <3> QED
      BY <1>1, <1>6, <3>1
  <2> QED
    BY <1>5, <2>1 DEF WrapsHeld
<1>10. KeyInUse(p)'
  BY <1>1, <1>5, <1>6 DEF KeyInUse
<1>11. Informed(p, call[p][s])'
  BY <1>2, <1>3 DEF Informed, Unserved
<1>12. KeptSealed'
  <2>1. ASSUME NEW i \in DOMAIN messages, messages[i].sender \notin overlapped'
        PROVE  groupKeys'[messages[i].sender][messages[i].epoch] = messages[i].key
    <3>1. messages[i] \in Message
      BY DEF TypeInv, RelayOK
    <3>2. messages[i].sender \in Member /\ messages[i].epoch \in Epoch /\ messages[i].key \in Key
      BY <3>1 DEF Message
    <3>3. groupKeys[messages[i].sender][messages[i].epoch] = messages[i].key
      BY <2>1 DEF KeyInv, KeptSealed, Busy
    <3> QED
      BY <1>1, <1>6, <1>7, <3>2, <3>3
  <2> QED
    BY <1>5, <2>1 DEF KeptSealed
<1>13. KeysKept(p) /\ p \in members'
  BY <1>1, <1>4, <1>5, <1>6 DEF KeysKept
<1> QED
  BY <1>2, <1>8, <1>9, <1>10, <1>11, <1>12, <1>13, KeysOfStep

(* Another member gets its copy, which is the one the relay has. *)
LEMMA KeysOfGotKey ==
    ASSUME TypeInv, Alone, KeyInv, OneKeyMade, OneKeyMade', NEW p \in Member, NEW s \in Slot,
           Busy(p, s), GotKey(p, s)
    PROVE  KeyInv'
<1> DEFINE e0 == call[p][s].sent
           k0 == call[p][s].told
<1>1. /\ call[p][s].at = "getKey" /\ k0 # NoAnswer /\ k0 # NoKey
      /\ call[p][s] \in Call /\ Informed(p, call[p][s])
  BY DEF GotKey, Answered, Awaits, TypeInv, CallsOK, KeyInv
<1>2. e0 \in Epoch /\ k0 \in Key /\ k0 = wraps[e0][p] /\ p # Creator
  BY <1>1, CallFields DEF Informed
<1>3. p \in members /\ p \in Joiner /\ Creator \in Member
  BY <1>1, <1>2, IsMember DEF Member, Unserved
<1>4. PICK c : call' = [call EXCEPT ![p][s] = c] /\ c.at \in {"idle", "status", "getMessages"}
                                                 /\ Unserved(c)
  BY AfterKeysInformed DEF GotKey
<1>5. call'[p][s] = c
  BY <1>4 DEF TypeInv, CallsOK
<1>6. /\ groupKey' = [groupKey EXCEPT ![p] = k0] /\ groupKey \in [Member -> Key \cup {NoKey}]
      /\ groupKeys' = [groupKeys EXCEPT ![p][e0] = k0]
      /\ groupKeys \in [Member -> [Epoch -> Key \cup {NoKey}]]
      /\ epoch' = [epoch EXCEPT ![p] = e0] /\ epoch \in [Member -> Epoch]
      /\ UNCHANGED <<members, relayEpoch, messages, wraps, established>>
      /\ relayEpoch \in Nat
  BY MemberCount DEF GotKey, HoldKey, relay, TypeInv, KeyringOK, RelayOK, Epoch
<1> HIDE DEF e0, k0
<1>7. /\ groupKey'[p] = k0 /\ groupKeys'[p][e0] = k0 /\ epoch'[p] = e0
      /\ \A e \in Epoch : e # e0 => groupKeys'[p][e] = groupKeys[p][e]
      /\ \A q \in Member : q # p =>
           groupKey'[q] = groupKey[q] /\ groupKeys'[q] = groupKeys[q] /\ epoch'[q] = epoch[q]
  BY <1>2, <1>6
<1>8. NoKey \notin Key
  BY DEF NoKey, Key
<1>9. \A e, k : PostedKey(e, k) => PostedKey(e, k)'
  BY <1>2, <1>4, PostedStays
<1>10. KeysHeld'
  <2>1. ASSUME NEW q \in Joiner, NEW e \in Epoch
        PROVE  groupKeys'[q][e] \in {NoKey, wraps[e][q]}
    <3>1. groupKeys[q][e] \in {NoKey, wraps[e][q]} /\ q \in Member
      BY DEF KeyInv, KeysHeld, Member
    <3> QED
      BY <1>2, <1>7, <3>1
  <2>2. groupKeys'[Creator] = groupKeys[Creator] /\ groupKey'[Creator] = groupKey[Creator]
    BY <1>2, <1>3, <1>7
  <2> QED
    BY <1>6, <2>1, <2>2 DEF KeyInv, KeysHeld
<1>11. WrapsHeld'
  BY <1>2, <1>3, <1>6, <1>7, <1>9 DEF KeyInv, WrapsHeld
<1>12. KeyInUse(p)'
  BY <1>7 DEF KeyInUse
<1>13. Informed(p, call[p][s])'
  BY <1>4, <1>5 DEF Informed, Unserved
<1>14. KeptSealed'
  <2>1. ASSUME NEW i \in DOMAIN messages, messages[i].sender \notin overlapped'
        PROVE  groupKeys'[messages[i].sender][messages[i].epoch] = messages[i].key
    <3>1. messages[i] \in Message
      BY DEF TypeInv, RelayOK
    <3>2. messages[i].sender \in Member /\ messages[i].epoch \in Epoch /\ messages[i].key \in Key
      BY <3>1 DEF Message
    <3>3. groupKeys[messages[i].sender][messages[i].epoch] = messages[i].key
      BY <2>1 DEF KeyInv, KeptSealed, Busy
    <3>4. groupKeys[p][e0] \in {NoKey, k0}
      BY <1>2, <1>3 DEF KeyInv, KeysHeld
    <3> QED
      BY <1>2, <1>7, <1>8, <3>2, <3>3, <3>4
  <2> QED
    BY <1>6, <2>1 DEF KeptSealed
<1>15. KeysKept(p) /\ p \in members'
  BY <1>3, <1>6, <1>7 DEF KeysKept
<1> QED
  BY <1>4, <1>10, <1>11, <1>12, <1>13, <1>14, <1>15, KeysOfStep

LEMMA KeyStep ==
    ASSUME TypeInv, Alone, KeyInv, [Next]_vars
    PROVE  KeyInv'
<1>1. ASSUME OneKeyMade', NEW p \in Member, NEW s \in Slot,
             Tool(p, s) \/ Serve(p, s) \/ Continue(p, s) \/ Lose(p, s)
      PROVE  KeyInv'
  <2>1. Busy(p, s)
    BY <1>1, StepBusy
  <2>2. OneKeyMade
    BY <1>1, <2>1 DEF Busy, OneKeyMade
  <2>3. CASE Tool(p, s) \/ Lose(p, s)
    BY <1>1, <2>1, <2>2, <2>3, QuietSteps DEF Tool
  <2>4. CASE Serve(p, s)
    BY <1>1, <2>1, <2>2, <2>4, QuietSteps, KeysOfServeJoin, KeysOfPostKeys, KeysOfPostMessage
       DEF Serve
  <2>5. CASE Continue(p, s)
    BY <1>1, <2>1, <2>2, <2>5, QuietSteps, KeysOfJoined, KeysOfMakeKey, KeysOfKeyPosted, KeysOfGotKey
       DEF Continue
  <2> QED
    BY <1>1, <2>3, <2>4, <2>5
<1>2. CASE UNCHANGED vars
  <2>1. UNCHANGED <<members, relayEpoch, messages, wraps, epoch, groupKey, groupKeys, established,
                    call, keysLost, overlapped>>
    BY <1>2 DEF vars, relay, client, keyring, history, record
  <2> QED
    BY <2>1 DEF KeyInv, OneKeyMade, Stranger, Unserved, KeysHeld, WrapsHeld, PostedKey, Answered,
                KeyInUse, Awaits, Informed, KeptSealed
<1> QED
  BY <1>1, <1>2 DEF Next, KeyInv

LEMMA AlwaysKeyed == Spec => [](TypeInv /\ Alone /\ KeyInv)
<1>1. TypeInv /\ Alone /\ KeyInv /\ [Next]_vars => KeyInv'
  BY KeyStep
<1>2. Spec => [](TypeInv /\ Alone)
  BY AlwaysFolded, PTL
<1> QED
  BY <1>1, <1>2, KeyInit, PTL DEF Spec

(* The relay's copies for an epoch are of one key, and so is what the clients hold. *)
LEMMA OneWrap ==
    ASSUME TypeInv, Alone, KeyInv, OneKeyMade, NEW e \in Epoch
    PROVE  \E k : \A p \in Member : wraps[e][p] \in {NoKey, k} /\ groupKeys[p][e] \in {NoKey, k}
<1>1. /\ KeysHeld /\ WrapsHeld
      /\ Creator \in Member /\ \A p \in Member : p # Creator => p \in Joiner
  BY DEF KeyInv, Member
<1>2. \A p \in Member : p # Creator => groupKeys[p][e] \in {NoKey, wraps[e][p]}
  BY <1>1 DEF KeysHeld
<1>3. CASE \E s \in Slot : Answered(Creator, s, "postKeys") /\ call[Creator][s].sent.epoch = e
  <2>1. PICK s \in Slot : Answered(Creator, s, "postKeys") /\ call[Creator][s].sent.epoch = e
    BY <1>3
  <2>2. /\ groupKeys[Creator][e] = NoKey
        /\ \A x, k : PostedKey(x, k) => k = call[Creator][s].sent.key
    BY <1>1, <2>1, EpochIsNew DEF Answered
  <2>3. \A p \in Member : wraps[e][p] \in {NoKey, call[Creator][s].sent.key}
    BY <1>1, <2>2 DEF WrapsHeld
  <2>4. \A p \in Member : groupKeys[p][e] \in {NoKey, call[Creator][s].sent.key}
    BY <1>2, <2>2, <2>3
  <2> QED
    BY <2>3, <2>4
<1>4. CASE ~\E s \in Slot : Answered(Creator, s, "postKeys") /\ call[Creator][s].sent.epoch = e
  <2>1. \A p \in Member : wraps[e][p] \in {NoKey, groupKeys[Creator][e]}
    BY <1>1, <1>4 DEF WrapsHeld, PostedKey
  <2>2. \A p \in Member : groupKeys[p][e] \in {NoKey, groupKeys[Creator][e]}
    BY <1>2, <2>1
  <2> QED
    BY <2>1, <2>2
<1> QED
  BY <1>3, <1>4

(* A message of a client that was asked for one thing at a time can be opened with the key the
   relay holds for the epoch it names, by everyone it was wrapped for, whatever the other joiners
   overlap and whichever calls fail, as long as OneKeyMade. *)
THEOREM MessagesAreSealedForTheirEpoch == Spec => []SealedForEpoch
<1>1. TypeInv /\ Alone /\ KeyInv => SealedForEpoch
  <2> SUFFICES ASSUME TypeInv, Alone, KeyInv, OneKeyMade, NEW i \in DOMAIN messages,
                      messages[i].sender \notin overlapped, NEW p \in Member
               PROVE  wraps[messages[i].epoch][p] \in {NoKey, messages[i].key}
    BY DEF SealedForEpoch
  <2>1. messages[i] \in Message
    BY DEF TypeInv, RelayOK
  <2>2. messages[i].sender \in Member /\ messages[i].epoch \in Epoch /\ messages[i].key \in Key
    BY <2>1 DEF Message
  <2>3. groupKeys[messages[i].sender][messages[i].epoch] = messages[i].key
    BY DEF KeyInv, KeptSealed
  <2>4. PICK k : \A q \in Member : /\ wraps[messages[i].epoch][q] \in {NoKey, k}
                                   /\ groupKeys[q][messages[i].epoch] \in {NoKey, k}
    BY <2>2, OneWrap
  <2>5. NoKey \notin Key
    BY DEF NoKey, Key
  <2> QED
    BY <2>2, <2>3, <2>4, <2>5
<1> QED
  BY <1>1, AlwaysKeyed, PTL

(* As long as OneKeyMade, two members that hold a key for an epoch hold the same, however the
   calls of the joiners overlap and whichever other relay calls fail. *)
THEOREM MembersHoldOneKey == Spec => []OneKeyHeld
<1>1. TypeInv /\ Alone /\ KeyInv => OneKeyHeld
  <2> SUFFICES ASSUME TypeInv, Alone, KeyInv, OneKeyMade, NEW e \in Epoch
               PROVE  Cardinality({groupKeys[p][e] : p \in Member} \ {NoKey}) <= 1
    BY DEF OneKeyHeld
  <2> DEFINE held == {groupKeys[p][e] : p \in Member} \ {NoKey}
  <2>1. PICK k : \A p \in Member : groupKeys[p][e] \in {NoKey, k}
    BY OneWrap
  <2>2. held \subseteq {k}
    BY <2>1
  <2>3. IsFiniteSet({k}) /\ Cardinality({k}) = 1
    BY FS_Singleton
  <2> HIDE DEF held
  <2>4. Cardinality(held) <= 1
    BY <2>2, <2>3, FS_Subset
  <2> QED
    BY <2>4 DEF held
<1> QED
  BY <1>1, AlwaysKeyed, PTL

=============================================================================

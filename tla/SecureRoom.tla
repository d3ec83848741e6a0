----------------------------- MODULE SecureRoom -----------------------------
(***************************************************************************)
(* The key-holding clients of one session (RandevuLocal,                    *)
(* packages/local/src/server.ts) and the relay between them.  A tool call of *)
(* an agent is a run of one client method; at each await of a relay call it  *)
(* stops, the relay serves the request in one turn, and the method goes on    *)
(* in a turn of its own when the answer arrives.  Calls of one client share   *)
(* its fields, and any of them may run between two awaits of another.  A      *)
(* relay call may fail, before or after the relay served it.                 *)
(*                                                                         *)
(* The relay is the one of RelaySession, with every handler in one step.     *)
(* A message is [sender, epoch, key, prev]: who signed it, the epoch it names, *)
(* the key that sealed it, and the numbers of the messages folded into its    *)
(* prevHash (hashes do not collide).  Left out: text, types, refs, rooms'     *)
(* kinds and roles (Kinds), and the checks that only a dishonest relay or     *)
(* member fails.  The session starts with createSession answered.            *)
(***************************************************************************)
EXTENDS Integers, Sequences, FiniteSets

CONSTANTS
    Creator,   \* the member that opened the session, its key-holder
    Joiner,    \* the members that hold its invite
    Slot,      \* the tool calls of one agent that may run at once
    Tools,     \* the tools the agents call besides join
    NoAnswer,  \* "the relay has not served the request"
    Lossy,     \* the relay calls that may fail
    MaxSend,   \* bound: how many sends are started
    MaxKey,    \* bound: how many group keys are generated
    MaxLoss    \* bound: how many relay calls fail

Member == {Creator} \cup Joiner
Epoch == 0..Cardinality(Joiner)
NoKey == 0
Key == 1..MaxKey

ASSUME RoomAssumption ==
    /\ Creator \notin Joiner
    /\ IsFiniteSet(Joiner)
    /\ "idle" \notin Lossy
    /\ NoAnswer \notin Nat \cup {TRUE} \cup [epoch : Epoch, members : SUBSET Member]
    /\ MaxSend \in Nat
    /\ MaxKey \in Nat
    /\ MaxLoss \in Nat

VARIABLES
    \* the relay
    members,      \* the members it registered
    relayEpoch,   \* meta.epoch
    messages,     \* the log
    wraps,        \* wraps[e][p]: the key wrapped for p under epoch e
    \* the fields of client p
    connected,    \* the clients whose sessionId is set
    entered,      \* the clients that createSession or joinSession returned to
    membersById,
    epoch,
    groupKey,
    groupKeys,    \* by epoch
    established,  \* establishedEpoch
    log,          \* its entries are [seq, chainOk, verified, readable]
    fetchedSeq,
    inboxSeq,
    \* the calls
    call,         \* call[p][s]: the method running in slot s and what it awaits
    \* history
    delivered,    \* delivered[p]: the entries receive returned to p's agent
    lastKey,      \* the last group key generated
    sends,        \* how many sends were started
    losses,       \* how many relay calls failed
    keysLost,     \* whether a postKeys was among them
    overlapped    \* the clients that have had two calls running at once

relay == <<members, relayEpoch, messages, wraps>>
keyring == <<epoch, groupKey, groupKeys, established>>
folded == <<log, fetchedSeq>>
client == <<connected, entered, membersById, keyring, folded, inboxSeq>>
record == <<delivered, lastKey, sends, losses, keysLost>>
history == <<record, overlapped>>
vars == <<relay, client, call, history>>

Idle == [at |-> "idle"]

Init ==
    /\ members = {Creator}
    /\ relayEpoch = 0
    /\ messages = <<>>
    /\ wraps = [e \in Epoch |-> [p \in Member |-> NoKey]]
    /\ connected = {Creator}
    /\ entered = {Creator}
    /\ membersById = [p \in Member |-> IF p = Creator THEN {Creator} ELSE {}]
    /\ epoch = [p \in Member |-> 0]
    /\ groupKey = [p \in Member |-> NoKey]
    /\ groupKeys = [p \in Member |-> [e \in Epoch |-> NoKey]]
    /\ established = -1
    /\ log = [p \in Member |-> <<>>]
    /\ fetchedSeq = [p \in Member |-> 0]
    /\ inboxSeq = [p \in Member |-> 0]
    /\ call = [p \in Member |-> [s \in Slot |-> Idle]]
    /\ delivered = [p \in Member |-> {}]
    /\ lastKey = 0
    /\ sends = 0
    /\ losses = 0
    /\ keysLost = FALSE
    /\ overlapped = {}

-----------------------------------------------------------------------------
(* Running a method: op is the method, at the relay call it awaits, sent its   *)
(* arguments, told the relay's answer.                                       *)

Awaits(p, s, at) == call[p][s].at = at
Answered(p, s, at) == Awaits(p, s, at) /\ call[p][s].told # NoAnswer
Asked(p, s, at) == Awaits(p, s, at) /\ call[p][s].told = NoAnswer

Await(p, s, op, at, sent) ==
    call' = [call EXCEPT ![p][s] = [op |-> op, at |-> at, sent |-> sent, told |-> NoAnswer]]
Tell(p, s, answer) == call' = [call EXCEPT ![p][s].told = answer]
Return(p, s) == call' = [call EXCEPT ![p][s] = Idle]

(* The methods that post (offer, counter, accept and reject are sends with another type,
   pause_for_human is one), and those that hand messages to the agent. *)
Posting == {"send", "sendAndWait"}
Listening == {"receive", "waitForMessage"}

(* this.head: the numbers folded so far. *)
HeadHash(p) == [i \in DOMAIN log[p] |-> log[p][i].seq]

-----------------------------------------------------------------------------
(* The tools an agent calls.                                                 *)

Begin(p, s) ==
    /\ call[p][s] = Idle
    /\ overlapped' = IF \E t \in Slot : call[p][t] # Idle THEN overlapped \cup {p} ELSE overlapped

(* join_room, until it was answered once. *)
Join(p, s) ==
    /\ p \in Joiner
    /\ Begin(p, s)
    /\ p \notin entered
    /\ connected' = connected \cup {p}
    /\ Await(p, s, "join", "joinSession", 0)
    /\ UNCHANGED <<relay, entered, membersById, keyring, folded, inboxSeq, record>>

(* send, receive and getStatus begin with ensureKeys, and so do sendAndWait, which begins
   with send, and waitForMessage, which begins with receive. *)
Send(p, s) ==
    /\ Begin(p, s)
    /\ p \in connected
    /\ sends < MaxSend
    /\ sends' = sends + 1
    /\ \E op \in Posting \cap Tools : Await(p, s, op, "status", 0)
    /\ UNCHANGED <<relay, client, delivered, lastKey, losses, keysLost>>

Receive(p, s) ==
    /\ Begin(p, s)
    /\ p \in connected
    /\ \E op \in Listening \cap Tools : Await(p, s, op, "status", 0)
    /\ UNCHANGED <<relay, client, record>>

GetStatus(p, s) ==
    /\ "getStatus" \in Tools
    /\ Begin(p, s)
    /\ p \in connected
    /\ Await(p, s, "getStatus", "status", 0)
    /\ UNCHANGED <<relay, client, record>>

GetSAS(p, s) ==
    /\ "getSAS" \in Tools
    /\ Begin(p, s)
    /\ p \in connected
    /\ Await(p, s, "getSAS", "status", 0)
    /\ UNCHANGED <<relay, client, record>>

(* exportTranscript begins with pull. *)
Export(p, s) ==
    /\ "export" \in Tools
    /\ Begin(p, s)
    /\ p \in connected
    /\ Await(p, s, "export", "getMessages", fetchedSeq[p])
    /\ UNCHANGED <<relay, client, record>>

-----------------------------------------------------------------------------
(* The relay serves a request of a member.                                   *)

ServeJoin(p, s) ==
    /\ Asked(p, s, "joinSession")
    /\ p \notin members
    /\ members' = members \cup {p}
    /\ relayEpoch' = relayEpoch + 1
    /\ Tell(p, s, [epoch |-> relayEpoch', members |-> members'])
    /\ UNCHANGED <<messages, wraps, client, history>>

ServeStatus(p, s) ==
    /\ Asked(p, s, "status")
    /\ p \in members
    /\ Tell(p, s, [epoch |-> relayEpoch, members |-> members])
    /\ UNCHANGED <<relay, client, history>>

ServePostKeys(p, s) ==
    /\ Asked(p, s, "postKeys")
    /\ LET k == call[p][s].sent IN
         wraps' = [wraps EXCEPT ![k.epoch] =
                     [q \in Member |-> IF q \in k.members THEN k.key ELSE @[q]]]
    /\ Tell(p, s, TRUE)
    /\ UNCHANGED <<members, relayEpoch, messages, client, history>>

(* NoKey stands for the 404. *)
ServeGetKey(p, s) ==
    /\ Asked(p, s, "getKey")
    /\ Tell(p, s, wraps[call[p][s].sent][p])
    /\ UNCHANGED <<relay, client, history>>

(* Mutant: the answer ends before the last message. *)
ServeGetMessagesShort(p, s) ==
    /\ Asked(p, s, "getMessages")
    /\ p \in members
    /\ Tell(p, s, Len(messages) - (IF messages = <<>> THEN 0 ELSE 1))
    /\ UNCHANGED <<relay, client, history>>

(* The messages after the cursor sent; the answer stands for where they end. *)
ServeGetMessages(p, s) ==
    /\ Asked(p, s, "getMessages")
    /\ p \in members
    /\ Tell(p, s, Len(messages))
    /\ UNCHANGED <<relay, client, history>>

ServePostMessage(p, s) ==
    /\ Asked(p, s, "postMessage")
    /\ messages' = Append(messages, call[p][s].sent)
    /\ Tell(p, s, Len(messages'))
    /\ UNCHANGED <<members, relayEpoch, wraps, client, history>>

(* GET /wait is answered when there is a message, when its time is up, or at once with a
   404 by a relay that does not know it. *)
ServeWait(p, s) ==
    /\ Asked(p, s, "wait")
    /\ Tell(p, s, TRUE)
    /\ UNCHANGED <<relay, client, history>>

(* 401 of one who is no member; 409 of one who asks to join again. *)
Refuse(p, s) ==
    /\ \/ Asked(p, s, "joinSession") /\ p \in members
       \/ (Asked(p, s, "status") \/ Asked(p, s, "getMessages")) /\ p \notin members
    /\ Return(p, s)
    /\ UNCHANGED <<relay, client, history>>

(* The request, or its answer, is lost, or the relay answers with an error: the method throws,
   but for waitForMessage, which catches what is no answer of the relay and a 404. *)
Lose(p, s) ==
    /\ call[p][s].at \in Lossy
    /\ losses < MaxLoss
    /\ losses' = losses + 1
    /\ keysLost' = (keysLost \/ Awaits(p, s, "postKeys"))
    /\ Return(p, s) \/ (Awaits(p, s, "wait") /\ Tell(p, s, TRUE))
    /\ UNCHANGED <<relay, client, delivered, lastKey, sends, overlapped>>

-----------------------------------------------------------------------------
(* The answer arrives and the method goes on, to its next relay call.        *)

Cache(p, dtos) == membersById' = [membersById EXCEPT ![p] = @ \cup dtos]

Joined(p, s) ==
    /\ Answered(p, s, "joinSession")
    /\ entered' = entered \cup {p}
    /\ epoch' = [epoch EXCEPT ![p] = call[p][s].told.epoch]
    /\ Cache(p, call[p][s].told.members)
    /\ Return(p, s)
    /\ UNCHANGED <<relay, connected, groupKey, groupKeys, established, folded, inboxSeq, history>>

(* Mutants: send goes on without a key; pull asks for what follows inboxSeq. *)
AfterEnsureKeysUnchecked(p, s, gk) ==
    LET op == call[p][s].op IN
    \/ op = "getStatus" /\ Await(p, s, "report", "status", 0)
    \/ op # "getStatus" /\ Await(p, s, op, "getMessages", fetchedSeq[p])
AfterEnsureKeysFromInbox(p, s, gk) ==
    LET op == call[p][s].op IN
    \/ op = "getStatus" /\ Await(p, s, "report", "status", 0)
    \/ op \in Posting /\ gk = NoKey /\ Return(p, s)
    \/ /\ op \in Listening \/ (op \in Posting /\ gk # NoKey)
       /\ Await(p, s, op, "getMessages", inboxSeq[p])

(* What follows ensureKeys, gk being this.groupKey by then: getStatus asks for the status it
   reports, a send without a key throws, and the others pull. *)
AfterEnsureKeys(p, s, gk) ==
    LET op == call[p][s].op IN
    \/ op = "getStatus" /\ Await(p, s, "report", "status", 0)
    \/ op \in Posting /\ gk = NoKey /\ Return(p, s)
    \/ /\ op \in Listening \/ (op \in Posting /\ gk # NoKey)
       /\ Await(p, s, op, "getMessages", fetchedSeq[p])

(* Mutants: a key once held is good for every epoch; establishedEpoch is ignored. *)
NeedsKeyOnce(p, e) == groupKey[p] = NoKey
NeedsKeyAlways(p, e) == p = Creator \/ groupKey[p] = NoKey \/ e # epoch[p]
NeedsKey(p, e) ==
    groupKey[p] = NoKey \/ e # (IF p = Creator THEN established ELSE epoch[p])

HasStatus(p, s) == Answered(p, s, "status") /\ call[p][s].op \notin {"getSAS", "report"}

(* ensureKeys has the status: the key of this epoch is there, *)
KeyIsThere(p, s) ==
    /\ HasStatus(p, s)
    /\ ~NeedsKey(p, call[p][s].told.epoch)
    /\ Cache(p, call[p][s].told.members)
    /\ AfterEnsureKeys(p, s, groupKey[p])
    /\ UNCHANGED <<relay, connected, entered, keyring, folded, inboxSeq, history>>

(* or the key-holder makes a key and posts it to the members it was told of, *)
MakeKey(p, s) ==
    LET status == call[p][s].told IN
    /\ p = Creator
    /\ HasStatus(p, s)
    /\ NeedsKey(p, status.epoch)
    /\ lastKey < MaxKey
    /\ lastKey' = lastKey + 1
    /\ Cache(p, status.members)
    /\ epoch' = [epoch EXCEPT ![p] = status.epoch]
    /\ Await(p, s, call[p][s].op, "postKeys",
             [epoch |-> status.epoch, key |-> lastKey', members |-> status.members])
    /\ UNCHANGED <<relay, connected, entered, groupKey, groupKeys, established, folded, inboxSeq,
                   delivered, sends, losses, keysLost, overlapped>>

(* or another member asks for its copy. *)
AskForKey(p, s) ==
    /\ p # Creator
    /\ HasStatus(p, s)
    /\ NeedsKey(p, call[p][s].told.epoch)
    /\ Cache(p, call[p][s].told.members)
    /\ Await(p, s, call[p][s].op, "getKey", call[p][s].told.epoch)
    /\ UNCHANGED <<relay, connected, entered, keyring, folded, inboxSeq, history>>

HoldKey(p, e, gk) ==
    /\ groupKey' = [groupKey EXCEPT ![p] = gk]
    /\ groupKeys' = [groupKeys EXCEPT ![p][e] = gk]

KeyPosted(p, s) ==
    /\ Answered(p, s, "postKeys")
    /\ HoldKey(p, call[p][s].sent.epoch, call[p][s].sent.key)
    /\ established' = call[p][s].sent.epoch
    /\ AfterEnsureKeys(p, s, call[p][s].sent.key)
    /\ UNCHANGED <<relay, connected, entered, membersById, epoch, folded, inboxSeq, history>>

GotKey(p, s) ==
    /\ Answered(p, s, "getKey")
    /\ call[p][s].told # NoKey
    /\ HoldKey(p, call[p][s].sent, call[p][s].told)
    /\ epoch' = [epoch EXCEPT ![p] = call[p][s].sent]
    /\ AfterEnsureKeys(p, s, call[p][s].told)
    /\ UNCHANGED <<relay, connected, entered, membersById, established, folded, inboxSeq, history>>

(* Mutant: the epoch moves on without its key. *)
GotNoKeyNewEpoch(p, s) ==
    /\ Answered(p, s, "getKey")
    /\ call[p][s].told = NoKey
    /\ epoch' = [epoch EXCEPT ![p] = call[p][s].sent]
    /\ AfterEnsureKeys(p, s, groupKey[p])
    /\ UNCHANGED <<relay, connected, entered, membersById, groupKey, groupKeys, established, folded,
                   inboxSeq, history>>

(* The key was not posted yet: go on without it, or with the one before. *)
GotNoKey(p, s) ==
    /\ Answered(p, s, "getKey")
    /\ call[p][s].told = NoKey
    /\ AfterEnsureKeys(p, s, groupKey[p])
    /\ UNCHANGED <<relay, client, history>>

(* getSAS computes a string of the members it is told of. *)
SasComputed(p, s) ==
    /\ Answered(p, s, "status")
    /\ call[p][s].op = "getSAS"
    /\ Cache(p, call[p][s].told.members)
    /\ Return(p, s)
    /\ UNCHANGED <<relay, connected, entered, keyring, folded, inboxSeq, history>>

Reported(p, s) ==
    /\ Answered(p, s, "status")
    /\ call[p][s].op = "report"
    /\ Return(p, s)
    /\ UNCHANGED <<relay, client, history>>

(* pull: the entry of message n, with head folded before it, *)
Entry(p, n, head) ==
    LET m == messages[n]
        chainOk == m.prev = head
        verified == chainOk /\ m.sender \in membersById[p]
    IN [seq |-> n, chainOk |-> chainOk, verified |-> verified,
        readable |-> verified /\ m.sender # p /\ groupKeys[p][m.epoch] = m.key]

(* and the log after the messages from+1..upto. *)
Pulled(p, from, upto) ==
    log[p] \o [i \in 1..(upto - from) |->
                Entry(p, from + i, HeadHash(p) \o [j \in 1..(i - 1) |-> from + j])]

Pull(p, s) ==
    /\ log' = [log EXCEPT ![p] = Pulled(p, call[p][s].sent, call[p][s].told)]
    /\ fetchedSeq' = [fetchedSeq EXCEPT ![p] = IF @ < call[p][s].told THEN call[p][s].told ELSE @]

(* Mutant: what was exported counts as delivered. *)
ExportedDelivers(p, s) ==
    /\ Answered(p, s, "getMessages")
    /\ call[p][s].op = "export"
    /\ Pull(p, s)
    /\ inboxSeq' = [inboxSeq EXCEPT ![p] = fetchedSeq'[p]]
    /\ Return(p, s)
    /\ UNCHANGED <<relay, connected, entered, membersById, keyring, history>>

Exported(p, s) ==
    /\ Answered(p, s, "getMessages")
    /\ call[p][s].op = "export"
    /\ Pull(p, s)
    /\ Return(p, s)
    /\ UNCHANGED <<relay, connected, entered, membersById, keyring, inboxSeq, history>>

(* send seals and signs on the head pulled, and posts. *)
Post(p, s) ==
    /\ Answered(p, s, "getMessages")
    /\ call[p][s].op \in Posting
    /\ Pull(p, s)
    /\ Await(p, s, call[p][s].op, "postMessage",
             [sender |-> p, epoch |-> epoch[p], key |-> groupKey[p], prev |-> HeadHash(p)'])
    /\ UNCHANGED <<relay, connected, entered, membersById, keyring, inboxSeq, history>>

(* Mutant: folds the message posted right away. *)
SentFolded(p, s) ==
    /\ Answered(p, s, "postMessage")
    /\ log' = [log EXCEPT ![p] = Append(@, Entry(p, call[p][s].told, HeadHash(p)))]
    /\ fetchedSeq' = [fetchedSeq EXCEPT ![p] = call[p][s].told]
    /\ Return(p, s)
    /\ UNCHANGED <<relay, connected, entered, membersById, keyring, inboxSeq, history>>

(* send is done; sendAndWait goes on as waitForMessage. *)
Sent(p, s) ==
    /\ Answered(p, s, "postMessage")
    /\ IF call[p][s].op = "send" THEN Return(p, s)
                                 ELSE Await(p, s, "waitForMessage", "status", 0)
    /\ UNCHANGED <<relay, client, history>>

(* receive walks the log and returns each entry numbered above all before it. *)
New(p, entries) ==
    {entries[i] : i \in {i \in DOMAIN entries :
        /\ entries[i].seq > inboxSeq[p]
        /\ \A j \in 1..(i - 1) : entries[j].seq < entries[i].seq}}

(* waitForMessage returns what came; when nothing came it asks the relay to wait, unless
   its own time is up. *)
Received(p, s) ==
    /\ Answered(p, s, "getMessages")
    /\ call[p][s].op \in Listening
    /\ Pull(p, s)
    /\ inboxSeq' = [inboxSeq EXCEPT ![p] = fetchedSeq'[p]]
    /\ LET others == {e \in New(p, log'[p]) : messages[e.seq].sender # p} IN
         /\ delivered' = [delivered EXCEPT ![p] = @ \cup others]
         /\ \/ Return(p, s)
            \/ /\ call[p][s].op = "waitForMessage"
               /\ others = {}
               /\ Await(p, s, "waitForMessage", "wait", fetchedSeq'[p])
    /\ UNCHANGED <<relay, connected, entered, membersById, keyring, lastKey, sends, losses, keysLost,
                   overlapped>>

(* Answered, or after a short sleep, waitForMessage calls receive again. *)
WaitAgain(p, s) ==
    /\ Answered(p, s, "wait")
    /\ Await(p, s, "waitForMessage", "status", 0)
    /\ UNCHANGED <<relay, client, history>>

-----------------------------------------------------------------------------
Serve(p, s) ==
    \/ ServeJoin(p, s)
    \/ ServeStatus(p, s)
    \/ ServePostKeys(p, s)
    \/ ServeGetKey(p, s)
    \/ ServeGetMessages(p, s)
    \/ ServePostMessage(p, s)
    \/ ServeWait(p, s)
    \/ Refuse(p, s)

Continue(p, s) ==
    \/ Joined(p, s)
    \/ KeyIsThere(p, s)
    \/ MakeKey(p, s)
    \/ AskForKey(p, s)
    \/ KeyPosted(p, s)
    \/ GotKey(p, s)
    \/ GotNoKey(p, s)
    \/ SasComputed(p, s)
    \/ Reported(p, s)
    \/ Exported(p, s)
    \/ Post(p, s)
    \/ Sent(p, s)
    \/ Received(p, s)
    \/ WaitAgain(p, s)

Tool(p, s) ==
    \/ Join(p, s)
    \/ Send(p, s)
    \/ Receive(p, s)
    \/ GetStatus(p, s)
    \/ GetSAS(p, s)
    \/ Export(p, s)

Next == \E p \in Member, s \in Slot : Tool(p, s) \/ Serve(p, s) \/ Continue(p, s) \/ Lose(p, s)

Spec == Init /\ [][Next]_vars

(* Requests are served, answers arrive, those invited call join_room until it succeeds,
   and every agent goes on listening: it calls wait_for_message again and again (mcp.ts,
   INSTRUCTIONS). *)
Fairness == \A p \in Member, s \in Slot :
    /\ WF_vars(Serve(p, s))
    /\ WF_vars(Continue(p, s))
    /\ SF_vars(Join(p, s))
    /\ SF_vars(Receive(p, s))

FairSpec == Spec /\ Fairness

(* The creator calls open_room again in the same process: the relay's new session holds
   nobody else and nothing, while the client keeps its keys, its members, its log and its
   cursors.  The others, still at the old session, are followed again once they join.  Only
   the case that no call runs is followed: createSession awaits the relay (server.ts:165), and
   a call that overlaps with it would go on in the new session. *)
OpenAgain ==
    /\ \A p \in Member, s \in Slot : call[p][s] = Idle
    /\ members' = {Creator}
    /\ relayEpoch' = 0
    /\ messages' = <<>>
    /\ wraps' = [e \in Epoch |-> [p \in Member |-> NoKey]]
    /\ connected' = {Creator}
    /\ entered' = {Creator}
    /\ Cache(Creator, {Creator})
    /\ UNCHANGED <<keyring, folded, inboxSeq, call, history>>

AgainSpec == Init /\ [][Next \/ OpenAgain]_vars

-----------------------------------------------------------------------------
LogEntry == [seq : Nat, chainOk : BOOLEAN, verified : BOOLEAN, readable : BOOLEAN]
Message == [sender : Member, epoch : Epoch, key : Key, prev : Seq(Nat)]
Method == {"join", "getStatus", "report", "getSAS", "export"} \cup Posting \cup Listening
Call ==
    {Idle}
    \cup [op : Method, at : {"joinSession", "status"}, sent : {0},
          told : {NoAnswer} \cup [epoch : Epoch, members : SUBSET Member]]
    \cup [op : Method, at : {"postKeys"},
          sent : [epoch : Epoch, key : Key, members : SUBSET Member], told : {NoAnswer, TRUE}]
    \cup [op : Method, at : {"getKey"}, sent : Epoch, told : {NoAnswer, NoKey} \cup Key]
    \cup [op : Method, at : {"getMessages"}, sent : Nat, told : {NoAnswer} \cup Nat]
    \cup [op : Method, at : {"postMessage"}, sent : Message, told : {NoAnswer} \cup Nat]
    \cup [op : Method, at : {"wait"}, sent : Nat, told : {NoAnswer, TRUE}]

(* Every variable has its type; above all, a message is always sealed with a key. *)
TypeOK ==
    /\ members \subseteq Member
    /\ relayEpoch \in Epoch
    /\ messages \in Seq(Message)
    /\ wraps \in [Epoch -> [Member -> Key \cup {NoKey}]]
    /\ connected \subseteq Member
    /\ entered \subseteq connected
    /\ membersById \in [Member -> SUBSET Member]
    /\ epoch \in [Member -> Epoch]
    /\ groupKey \in [Member -> Key \cup {NoKey}]
    /\ groupKeys \in [Member -> [Epoch -> Key \cup {NoKey}]]
    /\ established \in Epoch \cup {-1}
    /\ log \in [Member -> Seq(LogEntry)]
    /\ fetchedSeq \in [Member -> Nat]
    /\ inboxSeq \in [Member -> Nat]
    /\ call \in [Member -> [Slot -> Call]]
    /\ delivered \in [Member -> SUBSET LogEntry]
    /\ lastKey \in 0..MaxKey
    /\ sends \in 0..MaxSend
    /\ losses \in 0..MaxLoss
    /\ keysLost \in BOOLEAN
    /\ overlapped \subseteq Member

(* Each message is folded once and in order into the head of a client that was asked for one
   thing at a time: its head is the whole log up to its cursor ("Idempotent per seq",
   server.ts:333-334).  Two calls that overlap may both fold the same messages. *)
FoldedOnce ==
    \A p \in Member \ overlapped : HeadHash(p) = [n \in 1..fetchedSeq[p] |-> n]

(* What such a client folded and is another's was handed to the agent, up to inboxSeq. *)
NothingSkipped ==
    \A p \in Member \ overlapped : {e.seq : e \in delivered[p]} =
        {n \in 1..inboxSeq[p] : messages[n].sender # p}

(* Such clients judge a message's place in the chain alike. *)
VerdictsAgree ==
    \A p, q \in Member \ overlapped : \A i \in DOMAIN log[p], j \in DOMAIN log[q] :
        log[p][i].seq = log[q][j].seq => log[p][i].chainOk = log[q][j].chainOk

(* What the two properties below except: the holder lost the answer to a postKeys, or two of
   its calls have overlapped.  Then it may make a second key for an epoch. *)
OneKeyMade == ~keysLost /\ Creator \notin overlapped

(* A message of a client that was asked for one thing at a time can be opened with the key that
   the relay holds for the epoch it names, by everyone it was wrapped for. *)
SealedForEpoch ==
    OneKeyMade =>
        \A i \in DOMAIN messages : messages[i].sender \notin overlapped =>
            \A p \in Member : wraps[messages[i].epoch][p] \in {NoKey, messages[i].key}

(* Two members that hold a key for an epoch hold the same (server.ts:256). *)
OneKeyHeld ==
    OneKeyMade =>
        \A e \in Epoch : Cardinality({groupKeys[p][e] : p \in Member} \ {NoKey}) <= 1

(* Whatever a client posts, each other member's agent gets it, and the clients
   end up with one key: as long as agents listen and no call fails, there is no
   way for the epoch's key and a member to miss each other for good. *)
EveryoneHears ==
    \A p \in Member, n \in 1..MaxSend : Len(messages) >= n ~> inboxSeq[p] >= n
KeysConverge ==
    <>[](\A p \in Member : epoch[p] = relayEpoch /\ groupKey[p] = groupKey[Creator])

-----------------------------------------------------------------------------
(* What the documents and comments say of the program; the code differs.     *)

(* docs/MCP-API.md:42-43: a failure of signature or chain "means tampering or a
   misbehaving relay"; here the relay and all members are honest. *)
FailureMeansTampering ==
    \A p \in Member : \A e \in delivered[p] : e.verified

(* server.ts:333-334, "Idempotent per seq": however its calls overlap, no client folds a
   message twice. *)
IdempotentPerSeq ==
    \A p \in Member : \A i, j \in DOMAIN log[p] : log[p][i].seq = log[p][j].seq => i = j

(* docs/ENCRYPTION.md:89, "ciphertext = AEAD_encrypt(GK_epoch, ...)": no message is sealed with
   the key of another epoch than the one it names, however the calls of a client overlap. *)
SealedUnderOwnEpoch ==
    \A i \in DOMAIN messages : \A e \in Epoch \ {messages[i].epoch}, p \in Member :
        wraps[e][p] # messages[i].key

(* server.ts:431-432, "verified ciphertext decrypted": a verified message whose key
   the relay holds wrapped for the member is delivered open. *)
WrappedIsReadable ==
    \A p \in Member : \A e \in delivered[p] :
        LET m == messages[e.seq] IN e.verified /\ wraps[m.epoch][p] = m.key => e.readable

(* server.ts:256-257, "The creator (re)generates and posts the key when membership changes":
   where the creator's ensureKeys has nothing to do, the others have their copy. *)
ReadyKeyIsShared ==
    ~NeedsKey(Creator, relayEpoch) =>
        \A p \in members \ {Creator} : wraps[relayEpoch][p] # NoKey

=============================================================================

----------------------------- MODULE PrataQueue -----------------------------
(***************************************************************************)
(* The instructions a human types into the macOS app for a room, and the     *)
(* agent's calls of the bridge that act on them (Services/RoomSession.swift,  *)
(* Services/AgentBridge.swift).  prata_send_reply awaits the post into the     *)
(* room and marks instructions afterwards, so the human and the agent's other  *)
(* calls may do anything between; the other tools run in one turn.  A post may  *)
(* fail before or after the server took it.                                   *)
(*                                                                         *)
(* One saved room, which stands for every room the bridge may resolve to.     *)
(* Instructions are numbered as they are typed, and so are replies; 0 among the *)
(* ids an agent names is any text that is not an id at all.                    *)
(***************************************************************************)
EXTENDS Integers, Sequences, FiniteSets

CONSTANTS
    Cap,        \* how many instructions are kept (200 in the code)
    MaxType,    \* bound: how many instructions are typed
    MaxReply    \* bound: how many replies are started

ASSUME PrataQueueAssumption ==
    /\ Cap \in Nat \ {0}
    /\ MaxType \in Nat
    /\ MaxReply \in Nat

VARIABLES
    saved,         \* the room is among settings.savedRooms
    instructions,  \* [id, state, note] in the order typed; note is a reply or 0
    stored,        \* what the defaults hold for the room
    running,       \* the replies whose call of prata_send_reply is running
    \* history
    typed,         \* how many instructions were typed
    replies        \* of every reply started: [named, typed, landed], its
                   \* instruction_ids, what was typed by then, and whether it was posted;
                   \* named has no text that is not an id

queueVars == <<saved, instructions, stored, running, typed, replies>>

State == {"pending", "sent", "dismissed"}

QueueInit ==
    /\ saved = TRUE
    /\ instructions = <<>>
    /\ stored = <<>>
    /\ running = {}
    /\ typed = 0
    /\ replies = <<>>

Without(q, k) == [i \in 1..(Len(q) - 1) |-> q[IF i < k THEN i ELSE i + 1]]

(* Mutant: no cap. *)
KeptAll(q) == q
(* persistInstructions keeps the newest. *)
Kept(q) == IF Len(q) > Cap THEN SubSeq(q, Len(q) - Cap + 1, Len(q)) ELSE q

Persist(q) ==
    /\ instructions' = Kept(q)
    /\ stored' = Kept(q)

(* No ids stand for all that are pending now. *)
Targets(ids) ==
    IF ids = {}
      THEN {instructions[k].id : k \in {k \in DOMAIN instructions :
                                          instructions[k].state = "pending"}}
      ELSE ids

Resolve(ids, state, note) ==
    Persist([k \in DOMAIN instructions |->
               IF instructions[k].id \in Targets(ids)
                 THEN [instructions[k] EXCEPT !.state = state, !.note = note]
                 ELSE instructions[k]])

-----------------------------------------------------------------------------
(* The human. *)

QueueForAgent ==
    /\ saved
    /\ typed < MaxType
    /\ typed' = typed + 1
    /\ Persist(Append(instructions, [id |-> typed + 1, state |-> "pending", note |-> 0]))
    /\ UNCHANGED <<saved, running, replies>>

(* Mutant: the queue in the defaults is not written. *)
DiscardUnsaved(id) ==
    /\ saved
    /\ \E k \in DOMAIN instructions :
         /\ instructions[k].id = id /\ instructions[k].state = "pending"
         /\ instructions' = Without(instructions, k)
    /\ UNCHANGED <<saved, stored, running, typed, replies>>

(* The chat offers it for the instructions that are pending; no two have one id. *)
DiscardInstruction(id) ==
    /\ saved
    /\ \E k \in DOMAIN instructions :
         /\ instructions[k].id = id /\ instructions[k].state = "pending"
         /\ Persist(Without(instructions, k))
    /\ UNCHANGED <<saved, running, typed, replies>>

-----------------------------------------------------------------------------
(* The agent.  The ids it names are ones that prata_pending told it at some time, or
   texts it got wrong. *)

(* Of what the agent names only the ids count; when none is left, that is as if it had
   named none (Targets). *)
uuids(ids) == ids \ {0}

Reply(ids) ==
    /\ saved
    /\ Len(replies) < MaxReply
    /\ replies' = Append(replies, [named |-> uuids(ids), typed |-> typed, landed |-> FALSE])
    /\ running' = running \cup {Len(replies')}
    /\ UNCHANGED <<saved, instructions, stored, typed>>

(* The server takes the post. *)
Lands(r) ==
    /\ r \in running
    /\ ~replies[r].landed
    /\ replies' = [replies EXCEPT ![r].landed = TRUE]
    /\ UNCHANGED <<saved, instructions, stored, running, typed>>

(* Mutant: the instructions are marked although the post failed. *)
RepliedUnchecked(r) ==
    /\ r \in running
    /\ Resolve(replies[r].named, "sent", r)
    /\ running' = running \ {r}
    /\ UNCHANGED <<saved, typed, replies>>

(* The call hears of it and marks the instructions. *)
Replied(r) ==
    /\ r \in running
    /\ replies[r].landed
    /\ Resolve(replies[r].named, "sent", r)
    /\ running' = running \ {r}
    /\ UNCHANGED <<saved, typed, replies>>

(* The post throws, whether or not the server took it. *)
ReplyFails(r) ==
    /\ r \in running
    /\ running' = running \ {r}
    /\ UNCHANGED <<saved, instructions, stored, typed, replies>>

Dismiss(ids) ==
    /\ saved
    /\ Resolve(uuids(ids), "dismissed", 0)
    /\ UNCHANGED <<saved, running, typed, replies>>

-----------------------------------------------------------------------------
(* The room is forgotten, with what the defaults hold for it.  Its session stays
   alive in the calls that run. *)
ForgetQueue ==
    /\ saved
    /\ saved' = FALSE
    /\ stored' = <<>>
    /\ UNCHANGED <<instructions, running, typed, replies>>

(* The app is quit or killed and started again. *)
ReloadQueue ==
    /\ saved
    /\ instructions' = stored
    /\ running' = {}
    /\ UNCHANGED <<saved, stored, typed, replies>>

QueueNext ==
    \/ QueueForAgent
    \/ \E id \in 1..typed : DiscardInstruction(id)
    \/ \E ids \in SUBSET (0..typed) : Reply(ids)
    \/ \E r \in running : Lands(r)
    \/ \E r \in running : Replied(r)
    \/ \E r \in running : ReplyFails(r)
    \/ \E ids \in SUBSET (0..typed) : Dismiss(ids)

-----------------------------------------------------------------------------
(* The types of the queue's variables; the queue is bounded and in the order typed. *)
QueueTypeOK ==
    /\ saved \in BOOLEAN
    /\ \A q \in {instructions, stored} :
         /\ q \in Seq([id : 1..typed, state : State, note : 0..Len(replies)])
         /\ Len(q) <= Cap
         /\ \A j, k \in DOMAIN q : j < k => q[j].id < q[k].id
    /\ running \subseteq DOMAIN replies
    /\ typed \in 0..MaxType
    /\ replies \in Seq([named : SUBSET (1..MaxType), typed : 0..MaxType, landed : BOOLEAN])

(* What is marked sent was posted, by a reply that named it or no id at all, whatever
   other calls, discards and restarts came between the post and the mark
   (AgentBridge.swift:105 "mark the pending instructions as handled"). *)
SentIsPosted ==
    \A k \in DOMAIN instructions :
        instructions[k].state = "sent" =>
            LET r == replies[instructions[k].note] IN
            r.landed /\ (r.named = {} \/ instructions[k].id \in r.named)

(* While the room is saved, the queue a restart would load is the one the human and
   the agent see, whoever changed it last (RoomSession.swift:184). *)
QueueIsStored == saved => stored = instructions

-----------------------------------------------------------------------------
(* What the tools tell the agent; the code differs. *)

(* AgentBridge.swift:89: prata_pending lists what the human typed "that you have not
   acted on yet".  So an instruction that was typed after a reply was composed is not
   marked as handled by it. *)
SentWasTyped ==
    \A k \in DOMAIN instructions :
        instructions[k].state = "sent" =>
            instructions[k].id <= replies[instructions[k].note].typed

=============================================================================

---------------------------- MODULE PrataSession ----------------------------
(***************************************************************************)
(* A room as the macOS app follows it (Services/RoomSession.swift): the      *)
(* long-poll loop, what it shows, and the restarts that a reconnect or an     *)
(* edit of the endpoint asks for.  Everything runs on the main actor, one     *)
(* turn at a time; a loop leaves it in its awaits.  A loop that is cancelled   *)
(* while its answer is already on the way back still applies it.              *)
(*                                                                         *)
(* The hosted room is known only through receive and wait_for_message, which  *)
(* answer with text: every message under a header line "#n name: ...", and at   *)
(* last the cursor.  RoomTranscriptParser takes every such line for a message,   *)
(* one in the text of a message too, and reads no message whose name leaves its  *)
(* header unreadable.  A message of the room is therefore what the parser reads  *)
(* in it: the numbers of its header lines, and for each whether the (first) line *)
(* has the user's own name.  Left out: texts and names, the dates,              *)
(* peerAwaitingHuman, the length of the back-off, and the island's callbacks.   *)
(***************************************************************************)
EXTENDS Integers, Sequences, FiniteSets

CONSTANTS
    Endpoint,       \* the servers the endpoint may name
    FirstEndpoint,  \* the one it names at first
    Quotes,         \* what the header lines in the text of a message may be
    MaxPost,        \* bound: how many messages are posted
    MaxRestart,     \* bound: how often the session is restarted
    MaxFail         \* bound: how many requests of the loop fail

From == {"mine", "theirs"}
(* What the parser reads in a message. *)
Headers(h) == DOMAIN h \subseteq Nat /\ IsFiniteSet(DOMAIN h) /\ h \in [DOMAIN h -> From]

ASSUME PrataSessionAssumption ==
    /\ FirstEndpoint \in Endpoint
    /\ \A q \in Quotes : Headers(q)
    /\ MaxPost \in Nat
    /\ MaxRestart \in Nat
    /\ MaxFail \in Nat

VARIABLES
    room,            \* room[e]: the messages of the room at e, as the parser reads them
    \* the fields of the session
    endpoint,
    messages,        \* the transcript, as a set of [seq, from] with the message [at, by]
                     \* of the room it was read in
    cursor,
    didLoadHistory,
    connection,
    unreadCount,
    isVisible,
    loop,            \* the task it runs, or 0
    \* the tasks
    task,            \* task[i]: where the i-th task run() is
    \* history
    mixed,           \* since the last restart a batch was applied that came from another
                     \* endpoint, or was the history a cancelled loop had asked for, or
                     \* followed a cursor that came from such a batch
    posts, restarts, fails

transcript == <<messages, cursor, didLoadHistory, unreadCount, mixed>>
sessionVars == <<room, endpoint, transcript, connection, isVisible, loop, task,
                 posts, restarts, fails>>

Task == 1..(MaxRestart + 1)
Gone == [at |-> "gone"]
Ready == [at |-> "ready"]
Cancelled(i) == i # loop
seenSeqs == {m.seq : m \in messages}
Larger(a, b) == IF a < b THEN b ELSE a

(* The session is created and started. *)
SessionInit ==
    /\ room = [e \in Endpoint |-> <<>>]
    /\ endpoint = FirstEndpoint
    /\ messages = {}
    /\ cursor = 0
    /\ didLoadHistory = FALSE
    /\ connection = "idle"
    /\ unreadCount = 0
    /\ isVisible = FALSE
    /\ loop = 1
    /\ task = [i \in Task |-> IF i = 1 THEN Ready ELSE Gone]
    /\ mixed = FALSE
    /\ posts = 0
    /\ restarts = 0
    /\ fails = 0

(* The n-th message of a room, with its own header first, if that can be read. *)
Message(n, from, headed, q) ==
    [k \in (IF headed THEN {n} ELSE {}) \cup DOMAIN q |->
        IF headed /\ k = n THEN from ELSE q[k]]

(* Somebody posts into the room, this user's agent or another one, by a name whose
   header can be read or not, and a text with header lines or without. *)
Posted(e, from, headed, q) ==
    /\ posts < MaxPost
    /\ posts' = posts + 1
    /\ room' = [room EXCEPT ![e] = Append(@, Message(Len(@) + 1, from, headed, q))]
    /\ UNCHANGED <<endpoint, transcript, connection, isVisible, loop, task, restarts, fails>>

-----------------------------------------------------------------------------
(* The human and the settings.                                               *)

(* Mutant: restart leaves didLoadHistory as it is. *)
RestartKeepsHistoryFlag(e) ==
    /\ loop # 0
    /\ restarts < MaxRestart
    /\ restarts' = restarts + 1
    /\ loop' = restarts + 2
    /\ task' = [task EXCEPT ![restarts + 2] = Ready]
    /\ endpoint' = e
    /\ messages' = {}
    /\ cursor' = 0
    /\ unreadCount' = 0
    /\ connection' = "idle"
    /\ mixed' = FALSE
    /\ UNCHANGED <<room, didLoadHistory, isVisible, posts, fails>>

(* restart: a reconnect, or update with another endpoint.  The running task is
   cancelled, its session's fields are reset, and a new task is started. *)
Restart(e) ==
    /\ loop # 0
    /\ restarts < MaxRestart
    /\ restarts' = restarts + 1
    /\ loop' = restarts + 2
    /\ task' = [task EXCEPT ![restarts + 2] = Ready]
    /\ endpoint' = e
    /\ messages' = {}
    /\ cursor' = 0
    /\ didLoadHistory' = FALSE
    /\ unreadCount' = 0
    /\ connection' = "idle"
    /\ mixed' = FALSE
    /\ UNCHANGED <<room, isVisible, posts, fails>>

(* stop, when the room is forgotten. *)
Stop ==
    /\ loop # 0
    /\ loop' = 0
    /\ connection' = "idle"
    /\ UNCHANGED <<room, endpoint, transcript, isVisible, task, posts, restarts, fails>>

(* The chat window shows the room, which marks it read, or shows it no more. *)
Show ==
    /\ isVisible' = TRUE
    /\ unreadCount' = 0
    /\ UNCHANGED <<room, endpoint, messages, cursor, didLoadHistory, mixed, connection, loop,
                   task, posts, restarts, fails>>

Hide ==
    /\ isVisible' = FALSE
    /\ UNCHANGED <<room, endpoint, transcript, connection, loop, task, posts, restarts, fails>>

-----------------------------------------------------------------------------
(* run.                                                                      *)

(* A turn of the loop: it ends when it was cancelled, *)
Leaves(i) ==
    /\ task[i] = Ready
    /\ Cancelled(i)
    /\ task' = [task EXCEPT ![i] = Gone]
    /\ UNCHANGED <<room, endpoint, transcript, connection, isVisible, loop, posts, restarts,
                   fails>>

(* or it asks for the history, or for what follows the cursor. *)
Asks(i) ==
    /\ task[i] = Ready
    /\ ~Cancelled(i)
    /\ connection' = IF connection = "live" THEN "live" ELSE "connecting"
    /\ task' = [task EXCEPT ![i] =
                  [at |-> "asked", of |-> endpoint, history |-> ~didLoadHistory,
                   after |-> IF didLoadHistory THEN cursor ELSE 0, mixed |-> mixed]]
    /\ UNCHANGED <<room, endpoint, transcript, isVisible, loop, posts, restarts, fails>>

(* The server answers, a wait also with nothing when its time is up; the cursor line,
   the last of the answer and so the one that counts, has the number of its last
   message, or the one asked for. *)
Answer(i) ==
    /\ task[i].at = "asked"
    /\ ~Cancelled(i)
    /\ task' = [task EXCEPT ![i] =
                  [at |-> "answered", of |-> @.of, history |-> @.history, after |-> @.after,
                   upto |-> Larger(@.after, Len(room[@.of])), mixed |-> @.mixed]]
    /\ UNCHANGED <<room, endpoint, transcript, connection, isVisible, loop, posts, restarts,
                   fails>>

(* The request fails. *)
Fail(i) ==
    /\ task[i].at = "asked"
    /\ ~Cancelled(i)
    /\ fails < MaxFail
    /\ fails' = fails + 1
    /\ task' = [task EXCEPT ![i] = [at |-> "failed"]]
    /\ UNCHANGED <<room, endpoint, transcript, connection, isVisible, loop, posts, restarts>>

(* A request of a cancelled task is cancelled with it, and run returns. *)
CancelRequest(i) ==
    /\ task[i].at = "asked"
    /\ Cancelled(i)
    /\ task' = [task EXCEPT ![i] = Gone]
    /\ UNCHANGED <<room, endpoint, transcript, connection, isVisible, loop, posts, restarts,
                   fails>>

(* The catch: the back-off begins, which ends at once for a cancelled task. *)
BackOff(i) ==
    /\ task[i].at = "failed"
    /\ connection' = "failed"
    /\ task' = [task EXCEPT ![i] = [at |-> "sleeping"]]
    /\ UNCHANGED <<room, endpoint, transcript, isVisible, loop, posts, restarts, fails>>

Wake(i) ==
    /\ task[i].at = "sleeping"
    /\ task' = [task EXCEPT ![i] = Ready]
    /\ UNCHANGED <<room, endpoint, transcript, connection, isVisible, loop, posts, restarts,
                   fails>>

(* The messages that were in an answer, and what parse makes of them. *)
Batch(b) == {n \in DOMAIN room[b.of] : b.after < n /\ n <= b.upto}
Lines(b) ==
    UNION {{[seq |-> k, at |-> b.of, by |-> n, from |-> room[b.of][n][k]] :
              k \in DOMAIN room[b.of][n]} : n \in Batch(b)}

(* Of the lines with one number the first counts, if that number was not seen. *)
Fresh(b) ==
    {m \in Lines(b) : m.seq \notin seenSeqs /\ \A l \in Lines(b) : l.seq = m.seq => m.by <= l.by}

(* The largest of the cursor, the answer's, and the numbers of its lines: each of these
   is shown now. *)
Passed(b) == {cursor, b.upto} \cup {m.seq : m \in Lines(b)}

(* Mutant: after the history the cursor is one too far. *)
CursorMovesOneMore(b) ==
    cursor' \in {c + (IF b.history THEN 1 ELSE 0) :
                   c \in {c \in Passed(b) : \A d \in Passed(b) : d <= c}}

CursorMoves(b) == cursor' \in {c \in Passed(b) : \A d \in Passed(b) : d <= c}

(* The answer is there: apply, whether the task was cancelled meanwhile or not. *)
Apply(i) ==
    LET b == task[i]
        incoming == {m \in Fresh(b) : m.from = "theirs"}
    IN  /\ b.at = "answered"
        /\ didLoadHistory' = (didLoadHistory \/ b.history)
        /\ connection' = "live"
        /\ messages' = messages \cup Fresh(b)
        /\ CursorMoves(b)
        /\ unreadCount' = IF isVisible THEN unreadCount ELSE unreadCount + Cardinality(incoming)
        /\ task' = [task EXCEPT ![i] = Ready]
        /\ mixed' = (mixed \/ b.mixed \/ b.of # endpoint \/ (b.history /\ Cancelled(i)))
        /\ UNCHANGED <<room, endpoint, isVisible, loop, posts, restarts, fails>>

LoopStep(i) ==
    \/ Leaves(i)
    \/ Asks(i)
    \/ Answer(i)
    \/ Fail(i)
    \/ CancelRequest(i)
    \/ BackOff(i)
    \/ Wake(i)
    \/ Apply(i)

SessionNext ==
    \/ \E e \in Endpoint, from \in From, headed \in BOOLEAN, q \in Quotes :
          Posted(e, from, headed, q)
    \/ \E e \in Endpoint : Restart(e)
    \/ Show
    \/ Hide
    \/ \E i \in Task : LoopStep(i)

(* The main actor runs its tasks, requests are answered or end at their timeouts,
   and a back-off ends. *)
SessionFairness == \A i \in Task : WF_sessionVars(LoopStep(i))

-----------------------------------------------------------------------------
(* The types of the session's variables; what is shown has one message for a number, and
   the cursor has passed it. *)
SessionTypeOK ==
    /\ DOMAIN room = Endpoint
    /\ \A e \in Endpoint : Len(room[e]) \in 0..posts /\ \A n \in DOMAIN room[e] : Headers(room[e][n])
    /\ endpoint \in Endpoint
    /\ \A m \in messages :
         /\ m.at \in Endpoint /\ m.by \in DOMAIN room[m.at]
         /\ m.seq \in DOMAIN room[m.at][m.by] /\ m.seq \in 0..cursor
    /\ Cardinality(messages) = Cardinality(seenSeqs)
    /\ cursor \in Nat
    /\ didLoadHistory \in BOOLEAN
    /\ connection \in {"idle", "connecting", "live", "failed"}
    /\ unreadCount \in Nat
    /\ isVisible \in BOOLEAN
    /\ loop \in Task \cup {0}
    /\ \A i \in Task :
         task[i].at \in {"gone", "ready", "asked", "answered", "failed", "sleeping"}
    /\ mixed \in BOOLEAN

(* Message n of the room at e is shown, under its own number. *)
Shown(e, n) == \E m \in messages : m.at = e /\ m.by = n /\ m.seq = n

(* The parser may have missed it: its header cannot be read, or the text of another
   message has a header line with its number, or that of an earlier one has a later
   number, which the cursor follows. *)
Obscured(e, n) ==
    \/ n \in DOMAIN room[e] /\ n \notin DOMAIN room[e][n]
    \/ \E k \in DOMAIN room[e] \ {n} : n \in DOMAIN room[e][k]
    \/ \E k \in DOMAIN room[e] : k < n /\ \E j \in DOMAIN room[e][k] : n < j

(* Once the history is loaded, every message the cursor has passed is shown, through
   failures, reconnects and answers to waits that come after a reconnect
   (RoomSession.swift:203, 225).  The exceptions are the messages a parser of text
   misses (RandevuClient.swift:25) and what mixed records: a batch of another endpoint, or
   the history of a loop that was cancelled, which makes the new loop believe it has
   its history. *)
HistoryComplete ==
    didLoadHistory /\ ~mixed =>
        \A n \in DOMAIN room[endpoint] : n <= cursor => Shown(endpoint, n) \/ Obscured(endpoint, n)

(* A message in the room comes to be shown, whatever fails and however often the
   session is restarted meanwhile (the loop of RoomSession.swift:197, which retries for as
   long as it is not cancelled), with the same exceptions. *)
Heard ==
    \A e \in Endpoint, n \in 1..MaxPost :
        n \in DOMAIN room[e] ~>
            Shown(e, n) \/ Obscured(e, n) \/ endpoint # e \/ mixed \/ loop = 0

=============================================================================

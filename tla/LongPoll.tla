------------------------------ MODULE LongPoll ------------------------------
(***************************************************************************)
(* The long-poll of the session object: Waiters and longPoll of             *)
(* packages/core/src/waiters.ts, driven by the /wait and POST /messages      *)
(* handlers of apps/relay/src/session-do.ts.                                *)
(*                                                                         *)
(* The object runs one JavaScript turn at a time.  A turn of a /wait request *)
(* goes from the end of its storage read to the answer or to the parked       *)
(* waiter with no await between, so it is one step; a POST commits the        *)
(* message in one turn and calls wakeAll in a later one.  A timer never fires *)
(* before its deadline.  The object may be reset at any point: stored         *)
(* messages stay, waiters, timers and running requests go.                    *)
(*                                                                         *)
(* Left out: the clamp of the timeout, so that a deadline may pass at any     *)
(* moment, and the 401 of a request that is not a member's.                   *)
(***************************************************************************)
EXTENDS Integers, FiniteSets

CONSTANTS
    Reader,    \* the /wait requests that may be running at once
    MaxSeq     \* bound: how many messages are posted

ASSUME LongPollAssumption == MaxSeq \in Nat

VARIABLES
    lastSeq,   \* the number of the last message in storage
    posting,   \* how many POSTs have committed and not yet called wakeAll
    waiters,   \* Waiters.waiters, the requests whose entry is there
    timers,    \* the requests whose setTimeout is pending
    pc,        \* pc[r]: "idle", "reading" (about to read), "parked" (awaits its waiter)
    after,     \* after[r]: the cursor of request r
    expired,   \* expired[r]: the deadline of request r has passed
    answer     \* answer[r]: the numbers of its last answer; {-1} when it failed

vars == <<lastSeq, posting, waiters, timers, pc, after, expired, answer>>

Init ==
    /\ lastSeq = 0
    /\ posting = 0
    /\ waiters = {}
    /\ timers = {}
    /\ pc = [r \in Reader |-> "idle"]
    /\ after = [r \in Reader |-> 0]
    /\ expired = [r \in Reader |-> FALSE]
    /\ answer = [r \in Reader |-> {}]

(* The continuation of each promise resolved in this step will read again. *)
Resume(R) == pc' = [r \in Reader |-> IF r \in R /\ pc[r] = "parked" THEN "reading" ELSE pc[r]]

-----------------------------------------------------------------------------
(* Mutant: the request asks for what follows the next message. *)
RequestPastNext(r, a) ==
    /\ pc[r] = "idle"
    /\ pc' = [pc EXCEPT ![r] = "reading"]
    /\ after' = [after EXCEPT ![r] = a + 1]
    /\ expired' = [expired EXCEPT ![r] = FALSE]
    /\ UNCHANGED <<lastSeq, posting, waiters, timers, answer>>

(* GET /wait?after=a arrives and is authenticated. *)
Request(r, a) ==
    /\ pc[r] = "idle"
    /\ pc' = [pc EXCEPT ![r] = "reading"]
    /\ after' = [after EXCEPT ![r] = a]
    /\ expired' = [expired EXCEPT ![r] = FALSE]
    /\ UNCHANGED <<lastSeq, posting, waiters, timers, answer>>

Answer(r, found) ==
    /\ pc' = [pc EXCEPT ![r] = "idle"]
    /\ answer' = [answer EXCEPT ![r] = found]
    /\ UNCHANGED <<lastSeq, posting, waiters, timers, after, expired>>

(* Waiters.wait: push the entry, start the timer. *)
Park(r) ==
    /\ pc' = [pc EXCEPT ![r] = "parked"]
    /\ waiters' = waiters \cup {r}
    /\ timers' = timers \cup {r}
    /\ UNCHANGED <<lastSeq, posting, after, expired, answer>>

(* Mutant: looks at the deadline before it looks at the messages. *)
ReadDeadlineFirst(r) ==
    /\ pc[r] = "reading"
    /\ \/ expired[r] /\ Answer(r, {})
       \/ ~expired[r] /\ lastSeq > after[r] /\ Answer(r, (after[r] + 1)..lastSeq)
       \/ ~expired[r] /\ lastSeq <= after[r] /\ Park(r)

(* One round of the loop of longPoll. *)
Read(r) ==
    /\ pc[r] = "reading"
    /\ \/ lastSeq > after[r] /\ Answer(r, (after[r] + 1)..lastSeq)
       \/ lastSeq <= after[r] /\ expired[r] /\ Answer(r, {})
       \/ lastSeq <= after[r] /\ ~expired[r] /\ Park(r)

(* Time passes the deadline. *)
Expire(r) ==
    /\ pc[r] # "idle" /\ ~expired[r]
    /\ expired' = [expired EXCEPT ![r] = TRUE]
    /\ UNCHANGED <<lastSeq, posting, waiters, timers, pc, after, answer>>

(* Mutant: leaves the entry registered. *)
TimerFiresOnly(r) ==
    /\ r \in timers
    /\ expired[r]
    /\ timers' = timers \ {r}
    /\ Resume({r})
    /\ UNCHANGED <<lastSeq, posting, waiters, after, expired, answer>>

(* The callback of the timer: deregister the entry, resolve. *)
TimerFires(r) ==
    /\ r \in timers
    /\ expired[r]
    /\ timers' = timers \ {r}
    /\ waiters' = waiters \ {r}
    /\ Resume({r})
    /\ UNCHANGED <<lastSeq, posting, after, expired, answer>>

(* POST /messages commits its message. *)
Post ==
    /\ lastSeq < MaxSeq
    /\ lastSeq' = lastSeq + 1
    /\ posting' = posting + 1
    /\ UNCHANGED <<waiters, timers, pc, after, expired, answer>>

(* Mutant: wakes one waiter only. *)
WakeOne ==
    /\ posting > 0
    /\ posting' = posting - 1
    /\ LET woken == {CHOOSE r \in waiters : TRUE} IN
         IF waiters = {} THEN UNCHANGED <<waiters, timers, pc>>
         ELSE /\ waiters' = waiters \ woken
              /\ timers' = timers \ woken
              /\ Resume(woken)
    /\ UNCHANGED <<lastSeq, after, expired, answer>>

(* ... and then wakes every waiter; each entry clears its own timer. *)
WakeAll ==
    /\ posting > 0
    /\ posting' = posting - 1
    /\ waiters' = {}
    /\ timers' = timers \ waiters
    /\ Resume(waiters)
    /\ UNCHANGED <<lastSeq, after, expired, answer>>

(* The object is reset. *)
Reset ==
    /\ posting' = 0
    /\ waiters' = {}
    /\ timers' = {}
    /\ pc' = [r \in Reader |-> "idle"]
    /\ answer' = [r \in Reader |-> IF pc[r] # "idle" THEN {-1} ELSE answer[r]]
    /\ UNCHANGED <<lastSeq, after, expired>>

Next ==
    \/ \E r \in Reader, a \in 0..MaxSeq : a <= lastSeq /\ Request(r, a)
    \/ \E r \in Reader : Read(r)
    \/ \E r \in Reader : Expire(r)
    \/ \E r \in Reader : TimerFires(r)
    \/ Post
    \/ WakeAll
    \/ Reset

Spec == Init /\ [][Next]_vars

(* The event loop runs every turn that is ready, a timer that is due among them;
   but no deadline need ever pass. *)
Fairness ==
    /\ WF_vars(WakeAll)
    /\ \A r \in Reader : WF_vars(Read(r)) /\ WF_vars(TimerFires(r))

FairSpec == Spec /\ Fairness

-----------------------------------------------------------------------------
(* Every variable has its type. *)
TypeOK ==
    /\ lastSeq \in 0..MaxSeq
    /\ posting \in 0..MaxSeq
    /\ waiters \subseteq Reader
    /\ timers \subseteq Reader
    /\ pc \in [Reader -> {"idle", "reading", "parked"}]
    /\ after \in [Reader -> 0..MaxSeq]
    /\ expired \in [Reader -> BOOLEAN]
    /\ answer \in [Reader -> SUBSET (-1..MaxSeq)]

(* No wake-up is lost: while a parked request has a message to deliver, a POST
   that committed has still to call wakeAll (waiters.ts:13-14). *)
NoLostWakeup ==
    \A r \in Reader : pc[r] = "parked" /\ lastSeq > after[r] => posting > 0

(* The entries registered are those of the requests that are parked now, each with
   its one timer: no request waits for an entry that is gone, and no entry or timer
   outlives its wait, however wake-ups and timeouts race (waiters.ts:34-44). *)
WaitersAreParked ==
    /\ waiters = {r \in Reader : pc[r] = "parked"}
    /\ timers = waiters

(* A message that is stored reaches each request waiting for it by the wake-up
   alone: no deadline need pass and no timer fire (waiters.ts:7-11). *)
PushDelivers ==
    \A r \in Reader : pc[r] # "idle" /\ lastSeq > after[r] ~> pc[r] = "idle"

(* The waiters and timers implement a blocking read: same answers, at the same
   moments, and a request ends once there is a message or its deadline has passed. *)
Blocking == INSTANCE BlockingRead WITH waiting <- [r \in Reader |-> pc[r] # "idle"]
RefinesBlockingRead == Blocking!Spec

=============================================================================

---------------------------- MODULE BlockingRead ----------------------------
(***************************************************************************)
(* What GET /wait promises: a request blocks, and ends with every message    *)
(* after its cursor as soon as there is one, or with none once its deadline   *)
(* has passed and there is none.  Nothing about waiters, wake-ups or timers.  *)
(***************************************************************************)
EXTENDS Integers

CONSTANTS
    Reader,    \* the requests that may be running at once
    MaxSeq     \* bound: how many messages are posted

VARIABLES
    lastSeq,   \* the number of the last message stored
    waiting,   \* waiting[r]: request r is running
    after,     \* after[r]: its cursor
    expired,   \* expired[r]: its deadline has passed
    answer     \* answer[r]: the numbers it was answered with last, or {-1} when it failed

vars == <<lastSeq, waiting, after, expired, answer>>

Init ==
    /\ lastSeq = 0
    /\ waiting = [r \in Reader |-> FALSE]
    /\ after = [r \in Reader |-> 0]
    /\ expired = [r \in Reader |-> FALSE]
    /\ answer = [r \in Reader |-> {}]

Post ==
    /\ lastSeq < MaxSeq
    /\ lastSeq' = lastSeq + 1
    /\ UNCHANGED <<waiting, after, expired, answer>>

Request(r, a) ==
    /\ ~waiting[r]
    /\ waiting' = [waiting EXCEPT ![r] = TRUE]
    /\ after' = [after EXCEPT ![r] = a]
    /\ expired' = [expired EXCEPT ![r] = FALSE]
    /\ UNCHANGED <<lastSeq, answer>>

Expire(r) ==
    /\ waiting[r] /\ ~expired[r]
    /\ expired' = [expired EXCEPT ![r] = TRUE]
    /\ UNCHANGED <<lastSeq, waiting, after, answer>>

End(r, a) ==
    /\ waiting[r]
    /\ waiting' = [waiting EXCEPT ![r] = FALSE]
    /\ answer' = [answer EXCEPT ![r] = a]
    /\ UNCHANGED <<lastSeq, after, expired>>

Deliver(r) == lastSeq > after[r] /\ End(r, (after[r] + 1)..lastSeq)
TimeOut(r) == expired[r] /\ lastSeq <= after[r] /\ End(r, {})

(* The server goes away, and every request running on it fails. *)
Reset ==
    /\ waiting' = [r \in Reader |-> FALSE]
    /\ answer' = [r \in Reader |-> IF waiting[r] THEN {-1} ELSE answer[r]]
    /\ UNCHANGED <<lastSeq, after, expired>>

Next ==
    \/ Post
    \/ \E r \in Reader, a \in 0..MaxSeq : Request(r, a)
    \/ \E r \in Reader : Expire(r) \/ Deliver(r) \/ TimeOut(r)
    \/ Reset

Fairness == \A r \in Reader : WF_vars(Deliver(r)) /\ WF_vars(TimeOut(r))

Spec == Init /\ [][Next]_vars /\ Fairness

=============================================================================

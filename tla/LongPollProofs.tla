--------------------------- MODULE LongPollProofs ---------------------------
(***************************************************************************)
(* For every number of requests and messages: the waiters registered are the  *)
(* requests parked, no wake-up is lost, and every step of LongPoll is a step   *)
(* of BlockingRead.  That no request blocks for ever needs fairness and is     *)
(* checked by TLC.                                                           *)
(***************************************************************************)
EXTENDS LongPoll, TLAPS

(* Type, and the number of posts that have still to wake the waiters. *)
Inv ==
    /\ TypeOK
    /\ posting <= lastSeq
    /\ WaitersAreParked
    /\ NoLostWakeup

LEMMA InvInit == Init => Inv
BY LongPollAssumption DEF Init, Inv, TypeOK, WaitersAreParked, NoLostWakeup

LEMMA InvStep == Inv /\ [Next]_vars => Inv'
<1> SUFFICES ASSUME Inv, [Next]_vars PROVE Inv'
  OBVIOUS
<1> USE LongPollAssumption DEF Inv, TypeOK, WaitersAreParked, NoLostWakeup
<1>1. ASSUME NEW r \in Reader, NEW a \in 0..MaxSeq, Request(r, a) PROVE Inv'
  BY <1>1 DEF Request
<1>2. ASSUME NEW r \in Reader, Read(r) PROVE Inv'
  <2>1. CASE lastSeq > after[r] /\ Answer(r, (after[r] + 1)..lastSeq)
    <3>1. (after[r] + 1)..lastSeq \in SUBSET (-1..MaxSeq)
      OBVIOUS
    <3> QED
      BY <1>2, <2>1, <3>1 DEF Read, Answer
  <2>2. CASE Answer(r, {})
    BY <1>2, <2>2 DEF Read, Answer
  <2>3. CASE lastSeq <= after[r] /\ Park(r)
    BY <1>2, <2>3 DEF Read, Park
  <2> QED
    BY <1>2, <2>1, <2>2, <2>3 DEF Read
<1>3. ASSUME NEW r \in Reader, Expire(r) PROVE Inv'
  BY <1>3 DEF Expire
<1>4. ASSUME NEW r \in Reader, TimerFires(r) PROVE Inv'
  BY <1>4 DEF TimerFires, Resume
<1>5. CASE Post
  BY <1>5 DEF Post
<1>6. CASE WakeAll
  BY <1>6 DEF WakeAll, Resume
<1>7. CASE Reset
  BY <1>7 DEF Reset
<1>8. CASE UNCHANGED vars
  BY <1>8 DEF vars
<1> QED
  BY <1>1, <1>2, <1>3, <1>4, <1>5, <1>6, <1>7, <1>8 DEF Next

LEMMA Invariant == Spec => []Inv
BY InvInit, InvStep, PTL DEF Spec

(* Every reachable state is well typed. *)
THEOREM LongPollTypeCorrect == Spec => []TypeOK
<1>1. Inv => TypeOK
  BY DEF Inv
<1> QED
  BY <1>1, Invariant, PTL

(* A message stored while requests are parked always has a wake-up to come
   (waiters.ts:13-14). *)
THEOREM NoWakeupIsLost == Spec => []NoLostWakeup
<1>1. Inv => NoLostWakeup
  BY DEF Inv
<1> QED
  BY <1>1, Invariant, PTL

(* Neither wake-ups nor timeouts leave an entry or a timer behind, nor a parked
   request without one (waiters.ts:34-44). *)
THEOREM WaitersAreTheParked == Spec => []WaitersAreParked
<1>1. Inv => WaitersAreParked
  BY DEF Inv
<1> QED
  BY <1>1, Invariant, PTL

-----------------------------------------------------------------------------
(* Each step of the long-poll is a step of the blocking read or none. *)
LEMMA BlockingInit == Init => Blocking!Init
BY DEF Init, Blocking!Init

LEMMA BlockingStep == Inv /\ [Next]_vars => [Blocking!Next]_(Blocking!vars)
<1> SUFFICES ASSUME Inv, [Next]_vars PROVE [Blocking!Next]_(Blocking!vars)
  OBVIOUS
<1> USE LongPollAssumption DEF Inv, TypeOK, WaitersAreParked
<1>1. ASSUME NEW r \in Reader, NEW a \in 0..MaxSeq, Request(r, a) PROVE Blocking!Next
  BY <1>1 DEF Request, Blocking!Next, Blocking!Request
<1>2. ASSUME NEW r \in Reader, Read(r) PROVE [Blocking!Next]_(Blocking!vars)
  <2>1. CASE lastSeq > after[r] /\ Answer(r, (after[r] + 1)..lastSeq)
    BY <1>2, <2>1 DEF Read, Answer, Blocking!Next, Blocking!Deliver, Blocking!End
  <2>2. CASE lastSeq <= after[r] /\ expired[r] /\ Answer(r, {})
    BY <1>2, <2>2 DEF Read, Answer, Blocking!Next, Blocking!TimeOut, Blocking!End
  <2>3. CASE Park(r)
    BY <1>2, <2>3 DEF Read, Park, Blocking!vars
  <2> QED
    BY <1>2, <2>1, <2>2, <2>3 DEF Read
<1>3. ASSUME NEW r \in Reader, Expire(r) PROVE Blocking!Next
  BY <1>3 DEF Expire, Blocking!Next, Blocking!Expire
<1>4. ASSUME NEW r \in Reader, TimerFires(r) PROVE [Blocking!Next]_(Blocking!vars)
  BY <1>4 DEF TimerFires, Resume, Blocking!vars
<1>5. CASE Post
  BY <1>5 DEF Post, Blocking!Next, Blocking!Post
<1>6. CASE WakeAll
  BY <1>6 DEF WakeAll, Resume, Blocking!vars
<1>7. CASE Reset
  BY <1>7 DEF Reset, Blocking!Next, Blocking!Reset
<1>8. CASE UNCHANGED vars
  BY <1>8 DEF vars, Blocking!vars
<1> QED
  BY <1>1, <1>2, <1>3, <1>4, <1>5, <1>6, <1>7, <1>8 DEF Next

(* An answer is given only when a blocking read would give that answer: all the
   messages after the cursor, or none past the deadline (waiters.ts:56-70). *)
THEOREM AnswersAreBlockingRead ==
    Spec => Blocking!Init /\ [][Blocking!Next]_(Blocking!vars)
BY Invariant, BlockingInit, BlockingStep, PTL DEF Spec

=============================================================================

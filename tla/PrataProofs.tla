---------------------------- MODULE PrataProofs ----------------------------
(***************************************************************************)
(* For every number of endpoints, posts, restarts, failures, instructions and  *)
(* replies: the app shows what its cursor has passed, marks sent only what was   *)
(* posted, and stores the queue it works on.                                   *)
(***************************************************************************)
EXTENDS PrataApp, TLAPS, FiniteSetTheorems, SequenceTheorems, FunctionTheorems

-----------------------------------------------------------------------------
(* The inductive invariant of the session.                                   *)

(* What the parser may read in a message. *)
Reading == {h \in UNION {[S -> From] : S \in SUBSET Nat} : IsFiniteSet(DOMAIN h)}

Asked == [at : {"asked"}, of : Endpoint, history : BOOLEAN, after : Nat, mixed : BOOLEAN]
Answered == [at : {"answered"}, of : Endpoint, history : BOOLEAN, after : Nat, upto : Nat,
             mixed : BOOLEAN]
Failed == [at |-> "failed"]
Sleeping == [at |-> "sleeping"]
Quiet == {Gone, Ready, Failed, Sleeping}

FieldsOK ==
    /\ room \in [Endpoint -> Seq(Reading)]
    /\ posts \in 0..MaxPost
    /\ \A e \in Endpoint : Len(room[e]) <= posts
    /\ restarts \in 0..MaxRestart
    /\ endpoint \in Endpoint
    /\ cursor \in Nat
    /\ loop \in Task \cup {0}
    /\ task \in [Task -> Quiet \cup Asked \cup Answered]
    /\ didLoadHistory \in BOOLEAN
    /\ mixed \in BOOLEAN
    /\ isVisible \in BOOLEAN
    /\ connection \in {"idle", "connecting", "live", "failed"}
    /\ unreadCount \in Nat

(* What is shown was read in the room; no number is shown twice. *)
ShownOK ==
    /\ \A m \in messages :
         /\ m.at \in Endpoint /\ m.by \in DOMAIN room[m.at]
         /\ m.seq \in DOMAIN room[m.at][m.by] /\ m.seq \in 0..cursor
    /\ \A m, n \in messages : m.seq = n.seq => m = n
    /\ ~mixed => \A m \in messages : m.at = endpoint

(* The first u messages of the room at e let a cursor get as far as c. *)
Within(e, c, u) ==
    \/ c <= u
    \/ \E k \in DOMAIN room[e] : k <= u /\ \E j \in DOMAIN room[e][k] : c <= j

Reached(e, c) == Within(e, c, Len(room[e]))

(* A request that was made of a transcript that is not mixed asks from a position
   the room lets a cursor get to, and so does its answer, which either ends with a message
   of the room or is empty. *)
BatchesOK ==
    /\ \A i \in Task : task[i] \in Asked /\ ~task[i].mixed =>
         Reached(task[i].of, task[i].after)
    /\ \A i \in Task : task[i] \in Answered =>
         /\ task[i].after <= task[i].upto
         /\ ~task[i].mixed =>
              /\ Reached(task[i].of, task[i].upto)
              /\ task[i].upto <= Len(room[task[i].of]) \/ task[i].upto = task[i].after
    /\ \A i \in Task : task[i] \in Asked \cup Answered /\ task[i].history => task[i].after = 0

(* The answers that can be applied without making the transcript a mixed one. *)
Usable(i) == task[i] \in Answered /\ ~task[i].mixed /\ task[i].of = endpoint

(* What the history the loop waits for brings all of: the cursor's and every answer's. *)
Brings(i) ==
    /\ Within(endpoint, cursor, task[i].upto)
    /\ \A j \in Task : Usable(j) =>
         /\ Within(endpoint, task[j].upto, task[i].upto)
         /\ task[j].upto <= task[i].upto \/ task[j].upto = task[j].after

Covered(n) == Shown(endpoint, n) \/ Obscured(endpoint, n)

(* What a transcript that is not mixed has got to; what the answers on their way can do
   to it.  The history the loop waits for brings all they bring, and when it is there
   they leave no gap. *)
NoGap ==
    ~mixed =>
        /\ Reached(endpoint, cursor)
        /\ didLoadHistory => \A n \in DOMAIN room[endpoint] : n <= cursor => Covered(n)
        /\ \A i \in Task : i = loop /\ task[i] \in Asked /\ ~task[i].history => task[i].after <= cursor
        /\ didLoadHistory =>
             \A i \in Task : Usable(i) /\ ~task[i].history => task[i].after <= cursor
        /\ \A i \in Task : i = loop /\ Usable(i) /\ task[i].history => Brings(i)

SessionInv == FieldsOK /\ ShownOK /\ BatchesOK /\ NoGap

-----------------------------------------------------------------------------
(* The inductive invariant of the queue.                                     *)

Instruction == [id : Nat, state : State, note : Nat]
Replies == [named : SUBSET (1..MaxType), typed : 0..MaxType, landed : BOOLEAN]

Ordered(q) == \A j, k \in DOMAIN q : j < k => q[j].id < q[k].id

(* Reply r was posted, and may mark instruction id as sent. *)
Marks(r, id, reps) ==
    /\ r \in DOMAIN reps
    /\ reps[r].landed
    /\ reps[r].named = {} \/ id \in reps[r].named

(* A queue of instructions up to a number, with what the replies let it say. *)
QueueOK(q, upTo, reps) ==
    /\ q \in Seq(Instruction)
    /\ \A k \in DOMAIN q : q[k].id \in 1..upTo /\ q[k].note \in 0..Len(reps)
    /\ Ordered(q)
    /\ \A k \in DOMAIN q : q[k].state = "sent" => Marks(q[k].note, q[k].id, reps)

QueueInv ==
    /\ saved \in BOOLEAN
    /\ typed \in 0..MaxType
    /\ replies \in Seq(Replies)
    /\ running \subseteq DOMAIN replies
    /\ QueueOK(instructions, typed, replies) /\ Len(instructions) <= Cap
    /\ QueueOK(stored, typed, replies) /\ Len(stored) <= Cap
    /\ QueueIsStored

-----------------------------------------------------------------------------
(* What the operations make of a queue.                                      *)

LEMMA SeqOfFunction ==
    ASSUME NEW S, NEW k \in Nat, NEW f \in [1..k -> S]
    PROVE  f \in Seq(S) /\ Len(f) = k /\ DOMAIN f = 1..k
<1>1. f \in Seq(S)
  BY SeqDef
<1>2. Len(f) \in Nat /\ DOMAIN f = 1..Len(f)
  BY <1>1, LenProperties
<1> QED
  BY <1>1, <1>2

LEMMA QueueShape ==
    ASSUME NEW q, NEW upTo, NEW reps, QueueOK(q, upTo, reps)
    PROVE  /\ Len(q) \in Nat /\ DOMAIN q = 1..Len(q)
           /\ \A k \in DOMAIN q : /\ q[k] \in Instruction
                                  /\ q[k].id \in Nat /\ q[k].state \in State /\ q[k].note \in Nat
<1>1. q \in Seq(Instruction)
  BY DEF QueueOK
<1>2. Len(q) \in Nat /\ DOMAIN q = 1..Len(q) /\ q \in [1..Len(q) -> Instruction]
  BY <1>1, LenProperties
<1>3. \A k \in DOMAIN q : q[k] \in Instruction
  BY <1>2
<1> QED
  BY <1>2, <1>3 DEF Instruction

(* Instructions taken from a queue in their order make a queue. *)
LEMMA QueuePart ==
    ASSUME NEW q, NEW upTo \in Nat, NEW reps, QueueOK(q, upTo, reps),
           NEW p, NEW n \in Nat, NEW at \in [1..n -> DOMAIN q],
           \A j, k \in 1..n : j < k => at[j] < at[k],
           p = [k \in 1..n |-> q[at[k]]]
    PROVE  QueueOK(p, upTo, reps) /\ Len(p) = n
<1>1. \A k \in DOMAIN q : q[k] \in Instruction
  BY QueueShape
<1>2. p \in [1..n -> Instruction]
  BY <1>1
<1>3. p \in Seq(Instruction) /\ Len(p) = n /\ DOMAIN p = 1..n
  BY <1>2, SeqOfFunction
<1>4. \A k \in 1..n : p[k] = q[at[k]] /\ at[k] \in DOMAIN q
  OBVIOUS
<1>5. Ordered(p)
  BY <1>3, <1>4 DEF Ordered, QueueOK
<1>6. \A k \in DOMAIN p : p[k].id \in 1..upTo /\ p[k].note \in 0..Len(reps)
  BY <1>3, <1>4 DEF QueueOK
<1>7. \A k \in DOMAIN p : p[k].state = "sent" => Marks(p[k].note, p[k].id, reps)
  BY <1>3, <1>4 DEF QueueOK
<1> QED
  BY <1>3, <1>5, <1>6, <1>7 DEF QueueOK

LEMMA KeptOK ==
    ASSUME NEW q, NEW upTo \in Nat, NEW reps, QueueOK(q, upTo, reps)
    PROVE  QueueOK(Kept(q), upTo, reps) /\ Len(Kept(q)) <= Cap
<1>1. Cap \in Nat /\ Cap # 0
  BY PrataQueueAssumption DEF PrataQueueAssumption
<1>2. Len(q) \in Nat /\ DOMAIN q = 1..Len(q)
  BY QueueShape
<1>3. CASE Len(q) > Cap
  <2> DEFINE at == [k \in 1..Cap |-> Len(q) - Cap + k]
             p == [k \in 1..Cap |-> q[at[k]]]
             s == SubSeq(q, Len(q) - Cap + 1, Len(q))
  <2>1. Kept(q) = s
    BY <1>3 DEF Kept
  <2>2. at \in [1..Cap -> DOMAIN q] /\ \A j, k \in 1..Cap : j < k => at[j] < at[k]
    BY <1>1, <1>2, <1>3
  <2>3. QueueOK(p, upTo, reps) /\ Len(p) = Cap
    <3> HIDE DEF at
    <3> QED
      BY <1>1, <2>2, QueuePart
  <2>4. s = p
    <3> DEFINE m == Len(q) - Cap + 1
               n == Len(q)
    <3>1. m \in 1..(Len(q) + 1) /\ n \in (m - 1)..Len(q) /\ n - m + 1 = Cap
      BY <1>1, <1>2, <1>3
    <3>2. q \in Seq(Instruction) /\ p \in Seq(Instruction)
      BY <2>3 DEF QueueOK
    <3>3. \A k \in 1..Cap : p[k] = q[m + k - 1]
      BY <1>1, <1>2
    <3> HIDE DEF m, n, p
    <3>4. SubSeq(q, m, n) \in Seq(Instruction) /\ Len(SubSeq(q, m, n)) = n - m + 1
          /\ \A k \in 1..(n - m + 1) : SubSeq(q, m, n)[k] = q[m + k - 1]
      BY <3>1, <3>2, SubSeqProperties
    <3>5. SubSeq(q, m, n) = p
      BY <2>3, <3>1, <3>2, <3>3, <3>4, SeqEqual
    <3> QED
      BY <3>5 DEF m, n
  <2> HIDE DEF s, p
  <2> QED
    BY <1>1, <2>1, <2>3, <2>4
<1>4. CASE ~(Len(q) > Cap)
  BY <1>1, <1>2, <1>4 DEF Kept
<1> QED
  BY <1>3, <1>4

LEMMA WithoutOK ==
    ASSUME NEW q, NEW upTo \in Nat, NEW reps, QueueOK(q, upTo, reps), NEW k \in DOMAIN q
    PROVE  QueueOK(Without(q, k), upTo, reps)
<1>1. Len(q) \in Nat /\ DOMAIN q = 1..Len(q)
  BY QueueShape
<1> DEFINE n == Len(q) - 1
           at == [i \in 1..n |-> IF i < k THEN i ELSE i + 1]
<1>2. n \in Nat
  BY <1>1
<1>3. at \in [1..n -> DOMAIN q] /\ \A i, j \in 1..n : i < j => at[i] < at[j]
  BY <1>1
<1>4. Without(q, k) = [i \in 1..n |-> q[at[i]]]
  BY DEF Without
<1> HIDE DEF n, at
<1> QED
  BY <1>2, <1>3, <1>4, QueuePart

LEMMA AppendOK ==
    ASSUME NEW q, NEW upTo \in Nat, NEW reps, Len(reps) \in Nat, QueueOK(q, upTo, reps)
    PROVE  QueueOK(Append(q, [id |-> upTo + 1, state |-> "pending", note |-> 0]), upTo + 1, reps)
<1> DEFINE x == [id |-> upTo + 1, state |-> "pending", note |-> 0]
           p == Append(q, x)
           n == Len(q)
<1>1. n \in Nat /\ DOMAIN q = 1..n /\ q \in Seq(Instruction)
  BY QueueShape DEF QueueOK
<1>2. x \in Instruction /\ x.id = upTo + 1 /\ x.state = "pending" /\ x.note = 0
  BY DEF Instruction, State
<1> HIDE DEF x
<1>3. p \in Seq(Instruction) /\ Len(p) = n + 1 /\ (\A k \in 1..n : p[k] = q[k]) /\ p[n + 1] = x
  BY <1>1, <1>2, AppendProperties
<1>4. DOMAIN p = 1..(n + 1)
  BY <1>3, LenProperties
<1> HIDE DEF p, n
<1>5. \A k \in DOMAIN p : \/ k \in DOMAIN q /\ p[k] = q[k]
                          \/ k = n + 1 /\ p[k] = x
  BY <1>1, <1>3, <1>4
<1>6. Ordered(p)
  <2> SUFFICES ASSUME NEW j \in DOMAIN p, NEW k \in DOMAIN p, j < k
               PROVE  p[j].id < p[k].id
    BY DEF Ordered
  <2>1. j \in DOMAIN q /\ p[j] = q[j]
    BY <1>1, <1>3, <1>4
  <2>2. CASE k \in DOMAIN q /\ p[k] = q[k]
    BY <2>1, <2>2 DEF QueueOK, Ordered
  <2>3. CASE p[k] = x
    <3>1. q[j].id \in 1..upTo
      BY <2>1 DEF QueueOK
    <3> QED
      BY <1>2, <2>1, <2>3, <3>1
  <2> QED
    BY <1>5, <2>2, <2>3
<1>7. ASSUME NEW k \in DOMAIN p
      PROVE  p[k].id \in 1..(upTo + 1) /\ p[k].note \in 0..Len(reps)
  <2>1. CASE k \in DOMAIN q /\ p[k] = q[k]
    <3>1. q[k].id \in 1..upTo /\ q[k].note \in 0..Len(reps)
      BY <2>1 DEF QueueOK
    <3> QED
      BY <2>1, <3>1
  <2>2. CASE p[k] = x
    BY <1>2, <2>2
  <2> QED
    BY <1>5, <2>1, <2>2
<1>8. ASSUME NEW k \in DOMAIN p, p[k].state = "sent"
      PROVE  Marks(p[k].note, p[k].id, reps)
  <2>1. k \in DOMAIN q /\ p[k] = q[k]
    BY <1>2, <1>5, <1>8
  <2> QED
    BY <1>8, <2>1 DEF QueueOK
<1>9. QueueOK(p, upTo + 1, reps)
  BY <1>3, <1>6, <1>7, <1>8 DEF QueueOK
<1> QED
  BY <1>9 DEF p, x

Marked(q, T, state, note) ==
    [k \in DOMAIN q |->
       IF q[k].id \in T THEN [q[k] EXCEPT !.state = state, !.note = note] ELSE q[k]]

(* Marking instructions of a queue, as sent by a reply that may, or otherwise. *)
LEMMA MarkedOK ==
    ASSUME NEW q, NEW upTo \in Nat, NEW reps, QueueOK(q, upTo, reps),
           NEW T, NEW state \in State, NEW note \in 0..Len(reps), Len(reps) \in Nat,
           state = "sent" => \A id \in T : Marks(note, id, reps)
    PROVE  QueueOK(Marked(q, T, state, note), upTo, reps)
<1> DEFINE mark(x) == IF x.id \in T THEN [x EXCEPT !.state = state, !.note = note] ELSE x
           p == [k \in DOMAIN q |-> mark(q[k])]
           n == Len(q)
<1>1. /\ n \in Nat /\ DOMAIN q = 1..n
      /\ \A k \in DOMAIN q : q[k] \in Instruction
  BY QueueShape
<1>2. ASSUME NEW x \in Instruction
      PROVE  /\ mark(x) \in Instruction /\ mark(x).id = x.id
             /\ x.id \notin T => mark(x) = x
             /\ x.id \in T => mark(x).state = state /\ mark(x).note = note
  <2> DEFINE y == [x EXCEPT !.state = state, !.note = note]
  <2>1. note \in Nat
    OBVIOUS
  <2>2. y \in Instruction
    BY <2>1 DEF Instruction
  <2>3. y.id = x.id
    BY DEF Instruction
  <2>4. y.state = state /\ y.note = note
    BY DEF Instruction
  <2>5. mark(x) = IF x.id \in T THEN y ELSE x
    OBVIOUS
  <2> HIDE DEF y, mark
  <2> QED
    BY <2>2, <2>3, <2>4, <2>5
<1> HIDE DEF mark, n
<1>3. p \in [1..n -> Instruction]
  BY <1>1, <1>2
<1>4. p \in Seq(Instruction) /\ Len(p) = n /\ DOMAIN p = 1..n
  BY <1>1, <1>3, SeqOfFunction
<1>5. \A k \in DOMAIN q : /\ p[k].id = q[k].id
                          /\ q[k].id \notin T => p[k] = q[k]
                          /\ q[k].id \in T => p[k].state = state /\ p[k].note = note
  BY <1>1, <1>2
<1> HIDE DEF p
<1>6. Ordered(p)
  BY <1>1, <1>4, <1>5 DEF QueueOK, Ordered
<1>7. \A k \in DOMAIN p : p[k].id \in 1..upTo /\ p[k].note \in 0..Len(reps)
  BY <1>1, <1>4, <1>5 DEF QueueOK
<1>8. ASSUME NEW k \in DOMAIN p, p[k].state = "sent"
      PROVE  Marks(p[k].note, p[k].id, reps)
  <2>1. CASE q[k].id \in T
    BY <1>1, <1>4, <1>5, <1>8, <2>1
  <2>2. CASE q[k].id \notin T
    BY <1>1, <1>4, <1>5, <1>8, <2>2 DEF QueueOK
  <2> QED
    BY <2>1, <2>2
<1>9. QueueOK(p, upTo, reps)
  BY <1>4, <1>6, <1>7, <1>8 DEF QueueOK
<1> QED
  BY <1>9 DEF p, mark, Marked

(* A queue stays one when more was typed and replies were started or posted. *)
LEMMA QueueLater ==
    ASSUME NEW q, NEW upTo \in Nat, NEW reps \in Seq(Replies), QueueOK(q, upTo, reps),
           NEW more \in Seq(Replies), Len(reps) <= Len(more),
           \A r \in DOMAIN reps : /\ more[r].named = reps[r].named
                                  /\ reps[r].landed => more[r].landed
    PROVE  QueueOK(q, upTo, more)
<1>1. Len(reps) \in Nat /\ Len(more) \in Nat /\ DOMAIN reps = 1..Len(reps) /\ DOMAIN more = 1..Len(more)
  BY LenProperties
<1>2. DOMAIN reps \subseteq DOMAIN more
  BY <1>1
<1>3. \A r, id : Marks(r, id, reps) => Marks(r, id, more)
  BY <1>2 DEF Marks
<1>4. \A k \in DOMAIN q : q[k].note \in 0..Len(more)
  BY <1>1 DEF QueueOK
<1> QED
  BY <1>3, <1>4 DEF QueueOK

-----------------------------------------------------------------------------
(* The queue.                                                                *)

LEMMA QueueStart == QueueInit => QueueInv
<1> SUFFICES ASSUME QueueInit PROVE QueueInv
  OBVIOUS
<1>1. /\ saved = TRUE /\ instructions = <<>> /\ stored = <<>> /\ running = {}
      /\ typed = 0 /\ replies = <<>>
  BY DEF QueueInit
<1>2. <<>> \in Seq(Instruction) /\ <<>> \in Seq(Replies) /\ Len(<<>>) = 0
  BY EmptySeq
<1>3. DOMAIN instructions = {}
  BY <1>1, <1>2, LenProperties
<1>4. QueueOK(instructions, typed, replies)
  BY <1>1, <1>2, <1>3 DEF QueueOK, Ordered
<1>5. MaxType \in Nat /\ Cap \in Nat
  BY PrataQueueAssumption DEF PrataQueueAssumption
<1> QED
  BY <1>1, <1>2, <1>4, <1>5 DEF QueueInv, QueueIsStored

LEMMA QueueNumbers ==
    ASSUME QueueInv
    PROVE  typed \in Nat /\ Len(replies) \in Nat /\ DOMAIN replies = 1..Len(replies)
<1>1. typed \in Nat
  BY PrataQueueAssumption DEF QueueInv, PrataQueueAssumption
<1> QED
  BY <1>1, LenProperties DEF QueueInv

(* Writing a queue keeps its newest instructions, here and in the store. *)
LEMMA Persisted ==
    ASSUME QueueInv, NEW q, Persist(q), typed' \in 0..MaxType, saved' \in BOOLEAN,
           QueueOK(q, typed', replies), replies' = replies,
           running' \subseteq DOMAIN replies
    PROVE  QueueInv'
<1>1. instructions' = Kept(q) /\ stored' = Kept(q)
  BY DEF Persist
<1>2. typed' \in Nat
  BY PrataQueueAssumption DEF PrataQueueAssumption
<1>3. QueueOK(Kept(q), typed', replies) /\ Len(Kept(q)) <= Cap
  BY <1>2, KeptOK
<1> QED
  BY <1>1, <1>3 DEF QueueInv, QueueIsStored

LEMMA QueueOfType == QueueInv /\ QueueForAgent => QueueInv'
<1> SUFFICES ASSUME QueueInv, QueueForAgent PROVE QueueInv'
  OBVIOUS
<1> DEFINE q == Append(instructions, [id |-> typed + 1, state |-> "pending", note |-> 0])
<1>1. /\ typed < MaxType /\ typed' = typed + 1 /\ Persist(q)
      /\ saved' = saved /\ running' = running /\ replies' = replies
  BY DEF QueueForAgent
<1>2. typed \in Nat /\ Len(replies) \in Nat /\ MaxType \in Nat
  BY QueueNumbers, PrataQueueAssumption DEF PrataQueueAssumption
<1>3. QueueOK(q, typed + 1, replies)
  BY <1>2, AppendOK DEF QueueInv
<1>4. typed' \in 0..MaxType
  BY <1>1, <1>2
<1> HIDE DEF q
<1> QED
  BY <1>1, <1>3, <1>4, Persisted DEF QueueInv

LEMMA QueueOfDiscard ==
    ASSUME QueueInv, NEW id, DiscardInstruction(id)
    PROVE  QueueInv'
<1>1. PICK k \in DOMAIN instructions : Persist(Without(instructions, k))
  BY DEF DiscardInstruction
<1>2. saved' = saved /\ running' = running /\ replies' = replies /\ typed' = typed
  BY DEF DiscardInstruction
<1>3. QueueOK(Without(instructions, k), typed, replies)
  BY QueueNumbers, WithoutOK DEF QueueInv
<1> QED
  BY <1>1, <1>2, <1>3, Persisted DEF QueueInv

(* Instructions are marked as sent by a reply that was posted, or otherwise. *)
LEMMA QueueOfResolve ==
    ASSUME QueueInv, NEW ids, NEW state \in State, NEW note \in 0..Len(replies),
           Resolve(ids, state, note),
           state = "sent" => /\ note \in DOMAIN replies
                             /\ replies[note].landed /\ replies[note].named = ids,
           saved' = saved, typed' = typed, replies' = replies, running' \subseteq running
    PROVE  QueueInv'
<1> DEFINE T == Targets(ids)
           q == Marked(instructions, T, state, note)
<1>1. Persist(q)
  BY DEF Resolve, Marked
<1>2. state = "sent" => \A id \in T : Marks(note, id, replies)
  BY DEF Targets, Marks
<1>3. typed \in Nat /\ Len(replies) \in Nat
  BY QueueNumbers
<1>4. QueueOK(instructions, typed, replies)
  BY DEF QueueInv
<1> HIDE DEF T
<1>5. QueueOK(q, typed, replies)
  BY <1>2, <1>3, <1>4, MarkedOK
<1> HIDE DEF q
<1>6. running' \subseteq DOMAIN replies
  BY DEF QueueInv
<1> QED
  BY <1>1, <1>5, <1>6, Persisted DEF QueueInv

(* A reply is started or posted. *)
LEMMA QueueOfReplies ==
    ASSUME QueueInv, UNCHANGED <<saved, instructions, stored, typed>>,
           replies' \in Seq(Replies), Len(replies) <= Len(replies'),
           running' \subseteq DOMAIN replies',
           \A r \in DOMAIN replies : /\ replies'[r].named = replies[r].named
                                     /\ replies[r].landed => replies'[r].landed
    PROVE  QueueInv'
<1>1. typed \in Nat /\ replies \in Seq(Replies)
  BY QueueNumbers DEF QueueInv
<1>2. QueueOK(instructions, typed, replies')
  BY <1>1, QueueLater DEF QueueInv
<1>3. QueueOK(stored, typed, replies')
  BY <1>1, QueueLater DEF QueueInv
<1> QED
  BY <1>2, <1>3 DEF QueueInv, QueueIsStored

LEMMA QueueStep == QueueInv /\ QueueNext => QueueInv'
<1> SUFFICES ASSUME QueueInv, QueueNext PROVE QueueInv'
  OBVIOUS
<1>1. /\ typed \in Nat /\ Len(replies) \in Nat /\ DOMAIN replies = 1..Len(replies)
      /\ typed <= MaxType /\ MaxType \in Nat
  BY QueueNumbers, PrataQueueAssumption DEF PrataQueueAssumption, QueueInv
<1>2. CASE QueueForAgent
  BY <1>2, QueueOfType
<1>3. ASSUME NEW id \in 1..typed, DiscardInstruction(id) PROVE QueueInv'
  BY <1>3, QueueOfDiscard
<1>4. ASSUME NEW ids \in SUBSET (0..typed), Reply(ids) PROVE QueueInv'
  <2> DEFINE x == [named |-> uuids(ids), typed |-> typed, landed |-> FALSE]
             n == Len(replies)
  <2>1. /\ replies' = Append(replies, x) /\ running' = running \cup {Len(replies')}
        /\ UNCHANGED <<saved, instructions, stored, typed>>
    BY <1>4 DEF Reply
  <2>2. uuids(ids) \in SUBSET (1..MaxType)
    BY <1>1 DEF uuids
  <2>3. x \in Replies
    BY <1>1, <2>2 DEF Replies
  <2> HIDE DEF x
  <2>4. /\ replies' \in Seq(Replies) /\ Len(replies') = n + 1
        /\ \A r \in 1..n : replies'[r] = replies[r]
    BY <2>1, <2>3, AppendProperties DEF QueueInv
  <2>5. DOMAIN replies' = 1..(n + 1)
    BY <2>4, LenProperties
  <2>6. running \subseteq DOMAIN replies
    BY DEF QueueInv
  <2>7. running' \subseteq DOMAIN replies'
    BY <1>1, <2>1, <2>4, <2>5, <2>6
  <2> QED
    BY <1>1, <2>1, <2>4, <2>7, QueueOfReplies
<1>5. ASSUME NEW r \in running, Lands(r) PROVE QueueInv'
  <2>1. /\ replies' = [replies EXCEPT ![r].landed = TRUE]
        /\ UNCHANGED <<saved, instructions, stored, typed, running>>
    BY <1>5 DEF Lands
  <2>2. r \in DOMAIN replies /\ running \subseteq DOMAIN replies
    BY DEF QueueInv
  <2>3. /\ DOMAIN replies' = DOMAIN replies
        /\ \A s \in DOMAIN replies : s # r => replies'[s] = replies[s]
        /\ replies'[r] = [replies[r] EXCEPT !.landed = TRUE]
    BY <2>1, <2>2
  <2>4. \A s \in DOMAIN replies : replies[s] \in Replies
    <3>1. replies \in [1..Len(replies) -> Replies]
      BY LenProperties DEF QueueInv
    <3> QED
      BY <1>1, <3>1
  <2>5. \A x \in Replies : /\ [x EXCEPT !.landed = TRUE] \in Replies
                           /\ [x EXCEPT !.landed = TRUE].named = x.named
                           /\ [x EXCEPT !.landed = TRUE].landed = TRUE
    BY DEF Replies
  <2>6. /\ replies'[r] \in Replies /\ replies'[r].named = replies[r].named
        /\ replies'[r].landed = TRUE
    BY <2>2, <2>3, <2>4, <2>5
  <2>7. replies' \in [1..Len(replies) -> Replies]
    <3>1. \A s \in 1..Len(replies) : replies'[s] \in Replies
      BY <1>1, <2>3, <2>4, <2>6
    <3>2. replies' = [s \in DOMAIN replies |-> replies'[s]]
      BY <2>1
    <3> QED
      BY <1>1, <3>1, <3>2
  <2>8. replies' \in Seq(Replies) /\ Len(replies') = Len(replies)
    BY <1>1, <2>7, SeqOfFunction
  <2>9. \A s \in DOMAIN replies : replies'[s].named = replies[s].named
    BY <2>3, <2>6
  <2>10. \A s \in DOMAIN replies : replies[s].landed => replies'[s].landed
    BY <2>3, <2>6
  <2> QED
    BY <1>1, <2>1, <2>2, <2>3, <2>8, <2>9, <2>10, QueueOfReplies
<1>6. ASSUME NEW r \in running, Replied(r) PROVE QueueInv'
  <2>1. r \in DOMAIN replies /\ r \in 0..Len(replies)
    BY <1>1 DEF QueueInv
  <2>2. /\ replies[r].landed /\ Resolve(replies[r].named, "sent", r)
        /\ running' = running \ {r} /\ saved' = saved /\ typed' = typed /\ replies' = replies
    BY <1>6 DEF Replied
  <2>3. "sent" \in State
    BY DEF State
  <2> QED
    BY <2>1, <2>2, <2>3, QueueOfResolve
<1>7. ASSUME NEW r \in running, ReplyFails(r) PROVE QueueInv'
  BY <1>7 DEF ReplyFails, QueueInv, QueueIsStored
<1>8. ASSUME NEW ids \in SUBSET (0..typed), Dismiss(ids) PROVE QueueInv'
  <2>1. /\ Resolve(uuids(ids), "dismissed", 0)
        /\ running' = running /\ saved' = saved /\ typed' = typed /\ replies' = replies
    BY <1>8 DEF Dismiss
  <2>2. "dismissed" \in State /\ "dismissed" # "sent" /\ 0 \in 0..Len(replies)
    BY <1>1 DEF State
  <2> QED
    BY <2>1, <2>2, QueueOfResolve
<1> QED
  BY <1>2, <1>3, <1>4, <1>5, <1>6, <1>7, <1>8 DEF QueueNext

LEMMA QueueOfForget == QueueInv /\ ForgetQueue => QueueInv'
<1> SUFFICES ASSUME QueueInv, ForgetQueue PROVE QueueInv'
  OBVIOUS
<1>1. /\ saved' = FALSE /\ stored' = <<>>
      /\ UNCHANGED <<instructions, running, typed, replies>>
  BY DEF ForgetQueue
<1>2. stored' \in Seq(Instruction) /\ Len(stored') = 0
  BY <1>1, EmptySeq
<1>3. DOMAIN stored' = {}
  BY <1>2, LenProperties
<1>4. QueueOK(stored', typed, replies)
  BY <1>2, <1>3 DEF QueueOK, Ordered
<1>5. Len(stored') <= Cap
  BY <1>2, PrataQueueAssumption DEF PrataQueueAssumption
<1>6. QueueOK(stored', typed', replies') /\ saved' = FALSE
  BY <1>1, <1>4
<1>7. QueueIsStored'
  BY <1>6 DEF QueueIsStored
<1>8. UNCHANGED <<instructions, running, typed, replies>>
  BY <1>1
<1> QED
  BY <1>5, <1>6, <1>7, <1>8 DEF QueueInv

LEMMA QueueOfReload == QueueInv /\ ReloadQueue => QueueInv'
BY DEF QueueInv, ReloadQueue, QueueIsStored

LEMMA QueueAppStep == QueueInv /\ [Next]_vars => QueueInv'
<1> SUFFICES ASSUME QueueInv, [Next]_vars PROVE QueueInv'
  OBVIOUS
<1>1. CASE UNCHANGED queueVars
  BY <1>1 DEF queueVars, QueueInv, QueueIsStored
<1>2. CASE QueueNext
  BY <1>2, QueueStep
<1>3. CASE Forget
  BY <1>3, QueueOfForget DEF Forget
<1>4. CASE Relaunch
  BY <1>4, QueueOfReload DEF Relaunch
<1> QED
  BY <1>1, <1>2, <1>3, <1>4 DEF Next, vars

LEMMA AlwaysQueue == Spec => []QueueInv
BY QueueStart, QueueAppStep, PTL DEF Spec, Init

(* An instruction is marked sent only for a reply that was posted and that named it, or
   named none, whatever the human and other calls did between the post and the mark, and
   through restarts of the app. *)
THEOREM SentWasPosted == Spec => []SentIsPosted
<1>1. QueueInv => SentIsPosted
  BY DEF QueueInv, QueueOK, Marks, SentIsPosted
<1> QED
  BY <1>1, AlwaysQueue, PTL

(* While the room is saved, a restart would load the queue that the human and the agent
   see. *)
THEOREM QueueSurvives == Spec => []QueueIsStored
<1>1. QueueInv => QueueIsStored
  BY DEF QueueInv
<1> QED
  BY <1>1, AlwaysQueue, PTL

-----------------------------------------------------------------------------
(* The session: its steps but the answer that is applied.                    *)

LEMMA TaskKinds ==
    /\ \A b \in Asked : /\ b.at = "asked" /\ b.of \in Endpoint /\ b.history \in BOOLEAN
                        /\ b.after \in Nat /\ b.mixed \in BOOLEAN
    /\ \A b \in Answered : /\ b.at = "answered" /\ b.of \in Endpoint /\ b.history \in BOOLEAN
                           /\ b.after \in Nat /\ b.upto \in Nat /\ b.mixed \in BOOLEAN
    /\ Gone.at = "gone" /\ Ready.at = "ready" /\ Failed.at = "failed" /\ Sleeping.at = "sleeping"
    /\ \A b \in Quiet : b \notin Asked /\ b \notin Answered
    /\ \A b \in Asked : b \notin Answered
<1>1. \A b \in Asked : /\ b.at = "asked" /\ b.of \in Endpoint /\ b.history \in BOOLEAN
                       /\ b.after \in Nat /\ b.mixed \in BOOLEAN
  BY DEF Asked
<1>2. \A b \in Answered : /\ b.at = "answered" /\ b.of \in Endpoint /\ b.history \in BOOLEAN
                          /\ b.after \in Nat /\ b.upto \in Nat /\ b.mixed \in BOOLEAN
  BY DEF Answered
<1>3. Gone.at = "gone" /\ Ready.at = "ready" /\ Failed.at = "failed" /\ Sleeping.at = "sleeping"
  BY DEF Gone, Ready, Failed, Sleeping
<1>4. \A b \in Quiet : b \notin Asked /\ b \notin Answered
  BY <1>1, <1>2, <1>3 DEF Quiet
<1>5. \A b \in Asked : b \notin Answered
  BY <1>1, <1>2
<1> QED
  BY <1>1, <1>2, <1>3, <1>4, <1>5

LEMMA SessionNumbers ==
    ASSUME FieldsOK
    PROVE  /\ MaxPost \in Nat /\ MaxRestart \in Nat /\ MaxFail \in Nat
           /\ \A e \in Endpoint : room[e] \in Seq(Reading) /\ Len(room[e]) \in Nat
                                  /\ DOMAIN room[e] = 1..Len(room[e])
           /\ cursor \in Nat /\ posts \in Nat /\ restarts \in Nat
           /\ 0 \notin Task
<1>1. MaxPost \in Nat /\ MaxRestart \in Nat /\ MaxFail \in Nat
  BY PrataSessionAssumption DEF PrataSessionAssumption
<1>2. \A e \in Endpoint : room[e] \in Seq(Reading)
  BY DEF FieldsOK
<1>3. \A e \in Endpoint : Len(room[e]) \in Nat /\ DOMAIN room[e] = 1..Len(room[e])
  BY <1>2, LenProperties
<1>4. cursor \in Nat /\ posts \in Nat /\ restarts \in Nat
  BY <1>1 DEF FieldsOK
<1>5. 0 \notin Task
  BY <1>1 DEF Task
<1> QED
  BY <1>1, <1>2, <1>3, <1>4, <1>5

LEMMA ReadingIs == \A h : Headers(h) <=> h \in Reading
<1>1. ASSUME NEW h, Headers(h) PROVE h \in Reading
  <2>1. h \in [DOMAIN h -> From] /\ DOMAIN h \in SUBSET Nat /\ IsFiniteSet(DOMAIN h)
    BY <1>1 DEF Headers
  <2> QED
    BY <2>1 DEF Reading
<1>2. ASSUME NEW h \in Reading PROVE Headers(h)
  <2>1. PICK S \in SUBSET Nat : h \in [S -> From]
    BY DEF Reading
  <2>2. DOMAIN h = S /\ IsFiniteSet(DOMAIN h)
    BY <2>1 DEF Reading
  <2> QED
    BY <2>1, <2>2 DEF Headers
<1> QED
  BY <1>1, <1>2

(* The numbers the parser reads in a room. *)
LEMMA ReadNumbers ==
    ASSUME FieldsOK, NEW e \in Endpoint, NEW n \in DOMAIN room[e]
    PROVE  Headers(room[e][n]) /\ DOMAIN room[e][n] \subseteq Nat /\ n \in Nat
<1>1. room[e] \in Seq(Reading) /\ DOMAIN room[e] = 1..Len(room[e]) /\ Len(room[e]) \in Nat
  BY SessionNumbers
<1>2. room[e] \in [1..Len(room[e]) -> Reading]
  BY <1>1, LenProperties
<1>3. room[e][n] \in Reading
  BY <1>1, <1>2
<1> QED
  BY <1>1, <1>3, ReadingIs DEF Headers

LEMMA SessionStart == SessionInit => SessionInv
<1> SUFFICES ASSUME SessionInit PROVE SessionInv
  OBVIOUS
<1>1. MaxPost \in Nat /\ MaxRestart \in Nat /\ FirstEndpoint \in Endpoint
  BY PrataSessionAssumption DEF PrataSessionAssumption
<1>2. <<>> \in Seq(Reading) /\ Len(<<>>) = 0
  BY EmptySeq
<1>3. room \in [Endpoint -> Seq(Reading)] /\ \A e \in Endpoint : Len(room[e]) = 0
  BY <1>2 DEF SessionInit
<1>4. task \in [Task -> Quiet] /\ 1 \in Task
  BY <1>1 DEF SessionInit, Quiet, Task
<1>5. /\ endpoint = FirstEndpoint /\ messages = {} /\ cursor = 0 /\ didLoadHistory = FALSE
      /\ connection = "idle" /\ unreadCount = 0 /\ isVisible = FALSE /\ loop = 1
      /\ mixed = FALSE /\ posts = 0 /\ restarts = 0
  BY DEF SessionInit
<1>6. \A i \in Task : task[i] \notin Asked /\ task[i] \notin Answered
  BY <1>4, TaskKinds
<1>7. FieldsOK
  <2>1. \A e \in Endpoint : Len(room[e]) <= posts
    BY <1>3, <1>5
  <2>2. posts \in 0..MaxPost /\ restarts \in 0..MaxRestart /\ cursor \in Nat
    BY <1>1, <1>5
  <2> QED
    BY <1>1, <1>3, <1>4, <1>5, <2>1, <2>2 DEF FieldsOK
<1>8. ShownOK
  BY <1>5 DEF ShownOK
<1>9. BatchesOK
  BY <1>6 DEF BatchesOK
<1>10. Reached(endpoint, cursor)
  BY <1>1, <1>3, <1>5 DEF Reached, Within
<1>11. NoGap
  BY <1>5, <1>6, <1>10 DEF NoGap, Usable
<1> QED
  BY <1>7, <1>8, <1>9, <1>11 DEF SessionInv

(* Steps that end a request or none, and change nothing of the transcript. *)
LEMMA SessionQuiet ==
    ASSUME SessionInv,
           UNCHANGED <<room, posts, endpoint, messages, cursor, didLoadHistory, mixed, restarts>>,
           loop' = loop \/ loop' = 0,
           DOMAIN task' = Task, task' = [i \in Task |-> task'[i]],
           \A i \in Task : task'[i] = task[i] \/ task'[i] \in Quiet,
           isVisible' \in BOOLEAN, unreadCount' \in Nat,
           connection' \in {"idle", "connecting", "live", "failed"}
    PROVE  SessionInv'
<1>1. \A i \in Task : task'[i] \in Asked \cup Answered => task'[i] = task[i]
  BY TaskKinds
<1>2. task \in [Task -> Quiet \cup Asked \cup Answered] /\ 0 \notin Task
  BY SessionNumbers DEF SessionInv, FieldsOK
<1>3. task' \in [Task -> Quiet \cup Asked \cup Answered]
  BY <1>2
<1>4. FieldsOK'
  BY <1>3 DEF SessionInv, FieldsOK
<1>5. ShownOK'
  BY DEF SessionInv, ShownOK
<1>6. /\ \A e, c : Reached(e, c)' <=> Reached(e, c)
      /\ \A e, c, u : Within(e, c, u)' <=> Within(e, c, u)
      /\ \A n : Covered(n)' <=> Covered(n)
  BY DEF Reached, Within, Covered, Shown, Obscured
<1>7. BatchesOK'
  BY <1>1, <1>6 DEF SessionInv, BatchesOK
<1>8. \A i \in Task : i = loop' => i = loop
  BY <1>2
<1>9. \A i \in Task : Usable(i)' => Usable(i) /\ task'[i] = task[i]
  BY <1>1 DEF Usable
<1>10. \A i \in Task : Brings(i) /\ task'[i] = task[i] => Brings(i)'
  BY <1>6, <1>9 DEF Brings
<1>11. NoGap'
  BY <1>1, <1>6, <1>8, <1>9, <1>10 DEF SessionInv, NoGap
<1> QED
  BY <1>4, <1>5, <1>7, <1>11 DEF SessionInv

(* A new loop starts on an empty transcript. *)
LEMMA SessionReset ==
    ASSUME SessionInv, restarts < MaxRestart, restarts' = restarts + 1, loop' = restarts + 2,
           UNCHANGED <<room, posts>>, endpoint' \in Endpoint,
           messages' = {}, cursor' = 0, didLoadHistory' = FALSE, mixed' = FALSE,
           task' = [i \in Task |-> task'[i]], task'[restarts + 2] = Ready,
           \A i \in Task : task'[i] = task[i] \/ task'[i] \in Quiet,
           isVisible' \in BOOLEAN, unreadCount' = 0, connection' = "idle"
    PROVE  SessionInv'
<1>1. \A i \in Task : task'[i] \in Asked \cup Answered => task'[i] = task[i]
  BY TaskKinds
<1>2. /\ task \in [Task -> Quiet \cup Asked \cup Answered]
      /\ restarts \in Nat /\ MaxRestart \in Nat /\ MaxPost \in Nat
      /\ \A e \in Endpoint : Len(room[e]) \in Nat
  BY SessionNumbers DEF SessionInv, FieldsOK
<1>3. task' \in [Task -> Quiet \cup Asked \cup Answered]
  BY <1>2
<1>4. loop' \in Task /\ restarts' \in 0..MaxRestart
  BY <1>2 DEF Task
<1>5. FieldsOK'
  <2>1. cursor' \in Nat /\ unreadCount' \in Nat
    OBVIOUS
  <2>2. didLoadHistory' \in BOOLEAN /\ mixed' \in BOOLEAN
    OBVIOUS
  <2>3. connection' \in {"idle", "connecting", "live", "failed"}
    OBVIOUS
  <2> QED
    BY <1>3, <1>4, <2>1, <2>2, <2>3 DEF SessionInv, FieldsOK
<1>6. ShownOK'
  BY DEF ShownOK
<1>7. BatchesOK'
  <2>1. \A e, c : Reached(e, c)' <=> Reached(e, c)
    BY DEF Reached, Within
  <2> QED
    BY <1>1, <2>1 DEF SessionInv, BatchesOK
<1>8. task'[loop'] \notin Asked /\ task'[loop'] \notin Answered
  BY TaskKinds DEF Quiet
<1>9. NoGap'
  <2>1. \A i \in Task : i = loop' => ~(task'[i] \in Asked) /\ ~Usable(i)'
    BY <1>8 DEF Usable
  <2>2. Len(room'[endpoint']) \in Nat
    BY <1>2
  <2>3. Reached(endpoint, cursor)'
    BY <2>2 DEF Reached, Within
  <2> QED
    BY <2>1, <2>3 DEF NoGap
<1> QED
  BY <1>5, <1>6, <1>7, <1>9 DEF SessionInv

(* A message is read as finitely many header lines. *)
LEMMA MessageIs ==
    ASSUME NEW n \in Nat, NEW from \in From, NEW headed \in BOOLEAN, NEW q \in Quotes
    PROVE  Message(n, from, headed, q) \in Reading
<1> DEFINE h == Message(n, from, headed, q)
           own == IF headed THEN {n} ELSE {}
<1>1. DOMAIN q \subseteq Nat /\ IsFiniteSet(DOMAIN q) /\ q \in [DOMAIN q -> From]
  BY PrataSessionAssumption DEF PrataSessionAssumption, Headers
<1>2. IsFiniteSet(own) /\ own \subseteq Nat
  BY FS_EmptySet, FS_Singleton
<1>3. DOMAIN h = own \cup DOMAIN q
  BY DEF Message
<1>4. IsFiniteSet(own \cup DOMAIN q) /\ own \cup DOMAIN q \subseteq Nat
  BY <1>1, <1>2, FS_Union
<1>5. \A k \in own \cup DOMAIN q :
        h[k] = (IF headed /\ k = n THEN from ELSE q[k]) /\ (~(headed /\ k = n) => k \in DOMAIN q)
  BY DEF Message
<1>6. \A k \in own \cup DOMAIN q : h[k] \in From
  BY <1>1, <1>5
<1>7. h = [k \in own \cup DOMAIN q |-> h[k]]
  BY DEF Message
<1> HIDE DEF h, own
<1>8. h \in [DOMAIN h -> From]
  BY <1>3, <1>6, <1>7
<1>9. Headers(h)
  BY <1>3, <1>4, <1>8 DEF Headers
<1> QED
  BY <1>9, ReadingIs DEF h

(* As a room grows, nothing that its messages let the app miss or reach is lost. *)
LEMMA RoomGrows ==
    ASSUME NEW e, DOMAIN room[e] \subseteq DOMAIN room'[e],
           \A k \in DOMAIN room[e] : room'[e][k] = room[e][k],
           Len(room[e]) \in Nat, Len(room'[e]) \in Nat, Len(room[e]) <= Len(room'[e])
    PROVE  /\ \A c, u : Within(e, c, u) => Within(e, c, u)'
           /\ \A n : Obscured(e, n) => Obscured(e, n)'
           /\ \A c \in Nat : DOMAIN room[e] \subseteq Nat /\ Reached(e, c) => Reached(e, c)'
<1>1. \A c, u : Within(e, c, u) => Within(e, c, u)'
  BY DEF Within
<1>2. \A n : Obscured(e, n) => Obscured(e, n)'
  BY DEF Obscured
<1>3. ASSUME NEW c \in Nat, DOMAIN room[e] \subseteq Nat, Reached(e, c) PROVE Reached(e, c)'
  <2> DEFINE l == Len(room[e])
             m == Len(room'[e])
  <2>1. l \in Nat /\ m \in Nat /\ l <= m
    OBVIOUS
  <2>2. Within(e, c, l)
    BY <1>3 DEF Reached
  <2> HIDE DEF l, m
  <2>3. CASE c <= l
    <3>1. c <= m
      BY <2>1, <2>3
    <3> QED
      BY <3>1 DEF Reached, Within, m
  <2>4. ASSUME NEW k \in DOMAIN room[e], k <= l, NEW j \in DOMAIN room[e][k], c <= j
        PROVE  Reached(e, c)'
    <3>1. k <= m
      BY <1>3, <2>1, <2>4
    <3>2. k \in DOMAIN room'[e] /\ j \in DOMAIN room'[e][k]
      BY <2>4
    <3> QED
      BY <2>4, <3>1, <3>2 DEF Reached, Within, m
  <2> QED
    BY <2>2, <2>3, <2>4 DEF Within
<1> QED
  BY <1>1, <1>2, <1>3

LEMMA SessionOfPosted ==
    ASSUME SessionInv, NEW e \in Endpoint, NEW from \in From, NEW headed \in BOOLEAN,
           NEW q \in Quotes, Posted(e, from, headed, q)
    PROVE  SessionInv'
<1> DEFINE x == Message(Len(room[e]) + 1, from, headed, q)
<1>1. /\ posts < MaxPost /\ posts' = posts + 1
      /\ room' = [room EXCEPT ![e] = Append(room[e], x)]
      /\ UNCHANGED <<endpoint, messages, cursor, didLoadHistory, unreadCount, mixed, connection,
                     isVisible, loop, task, restarts>>
  BY DEF Posted, transcript
<1>2. /\ MaxPost \in Nat /\ posts \in Nat /\ cursor \in Nat
      /\ \A d \in Endpoint : room[d] \in Seq(Reading) /\ Len(room[d]) \in Nat
                             /\ DOMAIN room[d] = 1..Len(room[d])
  BY SessionNumbers DEF SessionInv
<1>3. x \in Reading
  BY <1>2, MessageIs
<1> HIDE DEF x
<1>4. /\ Append(room[e], x) \in Seq(Reading) /\ Len(Append(room[e], x)) = Len(room[e]) + 1
      /\ \A k \in 1..Len(room[e]) : Append(room[e], x)[k] = room[e][k]
  BY <1>2, <1>3, AppendProperties
<1>5. room \in [Endpoint -> Seq(Reading)] /\ endpoint \in Endpoint
  BY DEF SessionInv, FieldsOK
<1>6. \A d \in Endpoint : room'[d] = IF d = e THEN Append(room[e], x) ELSE room[d]
  BY <1>1, <1>5
<1>7. room' \in [Endpoint -> Seq(Reading)]
  BY <1>1, <1>4, <1>5
<1>8. ASSUME NEW d \in Endpoint
      PROVE  /\ Len(room'[d]) \in Nat /\ DOMAIN room'[d] = 1..Len(room'[d])
             /\ Len(room'[d]) = Len(room[d]) \/ Len(room'[d]) = Len(room[d]) + 1
             /\ Len(room[d]) <= Len(room'[d]) /\ Len(room'[d]) <= Len(room[d]) + 1
             /\ \A k \in DOMAIN room[d] : k \in DOMAIN room'[d] /\ room'[d][k] = room[d][k]
  <2> DEFINE n == Len(room[d])
             m == Len(room'[d])
  <2>1. n \in Nat /\ (m = n \/ m = n + 1) /\ DOMAIN room[d] = 1..n
    BY <1>2, <1>4, <1>6
  <2>2. DOMAIN room'[d] = 1..m
    <3>1. room'[d] \in Seq(Reading)
      BY <1>7
    <3> QED
      BY <3>1, LenProperties
  <2>3. \A k \in 1..n : room'[d][k] = room[d][k]
    BY <1>4, <1>6
  <2> HIDE DEF n, m
  <2>4. m \in Nat /\ n <= m /\ m <= n + 1 /\ 1..n \subseteq 1..m
    BY <2>1
  <2> QED
    BY <2>1, <2>2, <2>3, <2>4 DEF n, m
<1>9. FieldsOK'
  <2>1. \A d \in Endpoint : Len(room'[d]) <= posts'
    <3> SUFFICES ASSUME NEW d \in Endpoint PROVE Len(room'[d]) <= posts'
      OBVIOUS
    <3>1. Len(room[d]) <= posts
      BY DEF SessionInv, FieldsOK
    <3> QED
      BY <1>1, <1>2, <1>8, <3>1
  <2>2. posts' \in 0..MaxPost
    BY <1>1, <1>2
  <2> QED
    BY <1>1, <1>7, <2>1, <2>2 DEF SessionInv, FieldsOK
<1>10. ShownOK'
  <2>1. ASSUME NEW m \in messages
        PROVE  /\ m.at \in Endpoint /\ m.by \in DOMAIN room'[m.at]
               /\ m.seq \in DOMAIN room'[m.at][m.by] /\ m.seq \in 0..cursor
    <3>1. /\ m.at \in Endpoint /\ m.by \in DOMAIN room[m.at]
          /\ m.seq \in DOMAIN room[m.at][m.by] /\ m.seq \in 0..cursor
      BY DEF SessionInv, ShownOK
    <3> QED
      BY <1>8, <3>1
  <2> QED
    BY <1>1, <2>1 DEF SessionInv, ShownOK
<1>11. ASSUME NEW d \in Endpoint
       PROVE  /\ \A c, u : Within(d, c, u) => Within(d, c, u)'
              /\ \A n : Obscured(d, n) => Obscured(d, n)'
              /\ \A c \in Nat : Reached(d, c) => Reached(d, c)'
  <2>1. DOMAIN room[d] \subseteq Nat
    BY <1>2
  <2> QED
    BY <1>2, <1>8, <2>1, RoomGrows
<1>12. ASSUME NEW i \in Task, task[i] \in Asked \cup Answered
       PROVE  /\ task[i].of \in Endpoint /\ task[i].after \in Nat
              /\ task[i] \in Answered => task[i].upto \in Nat
  BY <1>12, TaskKinds
<1>13. BatchesOK'
  <2>1. ASSUME NEW i \in Task, task[i] \in Asked, ~task[i].mixed
        PROVE  Reached(task[i].of, task[i].after)'
    <3>1. Reached(task[i].of, task[i].after)
      BY <2>1 DEF SessionInv, BatchesOK
    <3>2. \A d \in Endpoint, c \in Nat : Reached(d, c) => Reached(d, c)'
      BY <1>11
    <3>3. task'[i] = task[i]
      BY <1>1
    <3> QED
      BY <1>12, <2>1, <3>1, <3>2, <3>3
  <2>2. ASSUME NEW i \in Task, task[i] \in Answered, ~task[i].mixed
        PROVE  /\ Reached(task[i].of, task[i].upto)'
               /\ task[i].upto <= Len(room'[task[i].of]) \/ task[i].upto = task[i].after
    <3>1. /\ Reached(task[i].of, task[i].upto)
          /\ task[i].upto <= Len(room[task[i].of]) \/ task[i].upto = task[i].after
      BY <2>2 DEF SessionInv, BatchesOK
    <3>2. \A d \in Endpoint, c \in Nat : Reached(d, c) => Reached(d, c)'
      BY <1>11
    <3>3. task'[i] = task[i] /\ task[i].of \in Endpoint /\ task[i].upto \in Nat
      BY <1>1, <1>12, <2>2
    <3>4. Reached(task[i].of, task[i].upto)'
      BY <3>1, <3>2, <3>3
    <3>5. /\ Len(room[task[i].of]) \in Nat /\ Len(room'[task[i].of]) \in Nat
          /\ Len(room[task[i].of]) <= Len(room'[task[i].of])
      BY <1>2, <1>8, <3>3
    <3> QED
      BY <3>1, <3>3, <3>4, <3>5
  <2>3. \A i \in Task : task'[i] = task[i]
    BY <1>1
  <2>4. \A i \in Task : task'[i] \in Asked /\ ~task'[i].mixed => Reached(task[i].of, task[i].after)'
    BY <2>1, <2>3
  <2>5. \A i \in Task : task'[i] \in Answered /\ ~task'[i].mixed =>
               /\ Reached(task[i].of, task[i].upto)'
               /\ task'[i].upto <= Len(room'[task'[i].of]) \/ task'[i].upto = task'[i].after
    BY <2>2, <2>3
  <2>6. \A i \in Task : /\ task'[i] \in Answered => task'[i].after <= task'[i].upto
                        /\ task'[i] \in Asked \cup Answered /\ task'[i].history => task'[i].after = 0
    BY <2>3 DEF SessionInv, BatchesOK
  <2> QED
    BY <2>4, <2>5, <2>6 DEF BatchesOK
<1>14. ASSUME ~mixed, didLoadHistory, NEW n \in DOMAIN room'[endpoint], n <= cursor
       PROVE  Covered(n)'
  <2> DEFINE l == Len(room[endpoint])
  <2>1. l \in Nat /\ DOMAIN room[endpoint] = 1..l
    BY <1>2, <1>5
  <2>2. Reached(endpoint, cursor)
    BY <1>14 DEF SessionInv, NoGap
  <2>3. CASE n \in DOMAIN room[endpoint]
    <3>1. Covered(n)
      BY <1>14, <2>3 DEF SessionInv, NoGap
    <3>2. Shown(endpoint, n) => Shown(endpoint, n)'
      BY <1>1 DEF Shown
    <3>3. Obscured(endpoint, n) => Obscured(endpoint, n)'
      BY <1>1, <1>5, <1>11
    <3> QED
      BY <3>1, <3>2, <3>3 DEF Covered
  <2>4. CASE n \notin DOMAIN room[endpoint]
    <3>1. n = l + 1 /\ n \in Nat
      <4>1. n \in 1..Len(room'[endpoint])
        BY <1>5, <1>8
      <4>2. Len(room'[endpoint]) = l \/ Len(room'[endpoint]) = l + 1
        BY <1>5, <1>8
      <4> QED
        BY <2>1, <2>4, <4>1, <4>2
    <3>2. ~(cursor <= l)
      BY <1>2, <1>14, <2>1, <3>1
    <3>3. PICK k \in DOMAIN room[endpoint] : k <= l /\ \E j \in DOMAIN room[endpoint][k] : cursor <= j
      BY <2>2, <3>2 DEF Reached, Within
    <3>4. PICK j \in DOMAIN room[endpoint][k] : cursor <= j
      BY <3>3
    <3>5. j \in Nat /\ k \in Nat
      BY <1>5, ReadNumbers DEF SessionInv
    <3>6. k \in DOMAIN room'[endpoint] /\ j \in DOMAIN room'[endpoint][k]
      BY <1>5, <1>8
    <3>7. k < n /\ k # n /\ (j = n \/ n < j)
      BY <1>2, <1>14, <2>1, <3>1, <3>3, <3>4, <3>5
    <3>8. endpoint' = endpoint
      BY <1>1
    <3> HIDE DEF l
    <3>9. Obscured(endpoint, n)'
      BY <3>6, <3>7, <3>8 DEF Obscured
    <3> QED
      BY <3>9 DEF Covered
  <2> QED
    BY <2>3, <2>4
<1>15. NoGap'
  <2>1. ~mixed => Reached(endpoint, cursor)'
    <3>1. ~mixed => Reached(endpoint, cursor)
      BY DEF SessionInv, NoGap
    <3> QED
      BY <1>1, <1>2, <1>5, <1>11, <3>1
  <2>2. \A i \in Task : Usable(i)' <=> Usable(i)
    BY <1>1 DEF Usable
  <2>3. \A i \in Task : Brings(i) => Brings(i)'
    <3>1. \A c, u : Within(endpoint, c, u) => Within(endpoint, c, u)'
      BY <1>1, <1>5, <1>11
    <3>2. /\ \A i \in Task : task'[i] = task[i]
          /\ endpoint' = endpoint /\ cursor' = cursor
      BY <1>1
    <3> QED
      BY <2>2, <3>1, <3>2 DEF Brings
  <2>4. ~mixed /\ didLoadHistory =>
          \A n \in DOMAIN room'[endpoint] : n <= cursor => Covered(n)'
    BY <1>14
  <2> QED
    BY <1>1, <2>1, <2>2, <2>3, <2>4 DEF SessionInv, NoGap
<1> QED
  BY <1>9, <1>10, <1>13, <1>15 DEF SessionInv

LEMMA SessionOfAsks ==
    ASSUME SessionInv, NEW i \in Task, Asks(i)
    PROVE  SessionInv'
<1> DEFINE b == [at |-> "asked", of |-> endpoint, history |-> ~didLoadHistory,
                 after |-> IF didLoadHistory THEN cursor ELSE 0, mixed |-> mixed]
<1>1. /\ i = loop /\ task' = [task EXCEPT ![i] = b]
      /\ connection' = IF connection = "live" THEN "live" ELSE "connecting"
      /\ UNCHANGED <<room, endpoint, messages, cursor, didLoadHistory, unreadCount, mixed,
                     isVisible, loop, posts, restarts>>
  BY DEF Asks, transcript, Cancelled
<1>2. /\ endpoint \in Endpoint /\ cursor \in Nat
      /\ Len(room[endpoint]) \in Nat
      /\ didLoadHistory \in BOOLEAN /\ mixed \in BOOLEAN
  BY SessionNumbers DEF SessionInv, FieldsOK
<1>3. /\ b \in Asked
      /\ b.of = endpoint
      /\ b.after = IF didLoadHistory THEN cursor ELSE 0
  BY <1>2 DEF Asked
<1>4. /\ b.mixed = mixed
      /\ b.history = ~didLoadHistory
  OBVIOUS
<1>5. /\ b.mixed => mixed
      /\ mixed => b.mixed
      /\ b.history => ~didLoadHistory
      /\ ~b.history => didLoadHistory
  BY <1>2, <1>4
<1> HIDE DEF b
<1>6. task \in [Task -> Quiet \cup Asked \cup Answered]
  BY DEF SessionInv, FieldsOK
<1>7. \A j \in Task : task'[j] = IF j = i THEN b ELSE task[j]
  BY <1>1, <1>6
<1>8. task' \in [Task -> Quiet \cup Asked \cup Answered]
  BY <1>1, <1>3, <1>6
<1>9. b \notin Answered
  BY <1>3, TaskKinds
<1>10. FieldsOK'
  BY <1>1, <1>8 DEF SessionInv, FieldsOK
<1>11. ShownOK'
  BY <1>1 DEF SessionInv, ShownOK
<1>12. /\ \A e, c : Reached(e, c)' <=> Reached(e, c)
       /\ \A e, c, u : Within(e, c, u)' <=> Within(e, c, u)
       /\ \A n : Covered(n)' <=> Covered(n)
  BY <1>1 DEF Reached, Within, Covered, Shown, Obscured
<1>13. ~b.mixed => Reached(b.of, b.after)
  <2>1. Reached(endpoint, 0)
    BY <1>2 DEF Reached, Within
  <2>2. ~mixed => Reached(endpoint, cursor)
    BY DEF SessionInv, NoGap
  <2> QED
    BY <1>3, <1>5, <2>1, <2>2
<1>14. b.history => b.after = 0
  BY <1>3, <1>5
<1>15. BatchesOK'
  <2>1. \A j \in Task : j # i => task'[j] = task[j]
    BY <1>7
  <2>2. \A j \in Task : j = i => task'[j] = b
    BY <1>7
  <2>3. room' = room
    BY <1>1
  <2> QED
    BY <1>9, <1>12, <1>13, <1>14, <2>1, <2>2, <2>3 DEF SessionInv, BatchesOK
<1>16. \A j \in Task : Usable(j)' => Usable(j) /\ task'[j] = task[j] /\ j # i
  BY <1>1, <1>7, <1>9 DEF Usable
<1>17. ~b.history => b.after <= cursor
  BY <1>2, <1>3, <1>5
<1>18. \A j \in Task : Brings(j) /\ task'[j] = task[j] => Brings(j)'
  BY <1>1, <1>12, <1>16 DEF Brings
<1>19. NoGap'
  BY <1>1, <1>7, <1>12, <1>16, <1>17, <1>18 DEF SessionInv, NoGap
<1> QED
  BY <1>10, <1>11, <1>15, <1>19 DEF SessionInv

LEMMA LargerIs ==
    ASSUME NEW a \in Nat, NEW b \in Nat
    PROVE  /\ Larger(a, b) \in Nat /\ a <= Larger(a, b) /\ b <= Larger(a, b)
           /\ Larger(a, b) = a \/ Larger(a, b) = b
           /\ a <= b => Larger(a, b) = b
BY DEF Larger

LEMMA SessionOfAnswer ==
    ASSUME SessionInv, NEW i \in Task, Answer(i)
    PROVE  SessionInv'
<1> DEFINE a == task[i]
           b == [at |-> "answered", of |-> a.of, history |-> a.history, after |-> a.after,
                 upto |-> Larger(a.after, Len(room[a.of])), mixed |-> a.mixed]
           n == Len(room[a.of])
<1>1. /\ i = loop /\ a.at = "asked" /\ task' = [task EXCEPT ![i] = b]
      /\ UNCHANGED <<room, endpoint, messages, cursor, didLoadHistory, unreadCount, mixed,
                     connection, isVisible, loop, posts, restarts>>
  BY DEF Answer, transcript, Cancelled
<1>2. task \in [Task -> Quiet \cup Asked \cup Answered]
  BY DEF SessionInv, FieldsOK
<1>3. a \in Asked
  <2>1. a \in Quiet \cup Asked \cup Answered
    BY <1>2
  <2>2. \A x \in Quiet : x.at # "asked"
    BY TaskKinds DEF Quiet
  <2>3. \A x \in Answered : x.at # "asked"
    BY TaskKinds
  <2> QED
    BY <1>1, <2>1, <2>2, <2>3
<1>4. /\ a.of \in Endpoint /\ a.after \in Nat
      /\ a.history \in BOOLEAN /\ a.mixed \in BOOLEAN
  BY <1>3, TaskKinds
<1>5. n \in Nat
  BY <1>4, SessionNumbers DEF SessionInv
<1>6. /\ Larger(a.after, n) \in Nat
      /\ a.after <= Larger(a.after, n)
      /\ Larger(a.after, n) = a.after \/ Larger(a.after, n) = n
      /\ a.after <= n => Larger(a.after, n) = n
  BY <1>4, <1>5, LargerIs
<1>7. b \in Answered
  BY <1>4, <1>6 DEF Answered
<1>8. b.of = a.of /\ b.after = a.after /\ b.upto = Larger(a.after, n)
  OBVIOUS
<1>9. b.history = a.history /\ b.mixed = a.mixed
  OBVIOUS
<1> HIDE DEF a, b, n
<1>10. \A j \in Task : task'[j] = IF j = i THEN b ELSE task[j]
  BY <1>1, <1>2
<1>11. task' \in [Task -> Quiet \cup Asked \cup Answered]
  BY <1>1, <1>2, <1>7
<1>12. b \notin Asked
  BY <1>7, TaskKinds
<1>13. FieldsOK'
  BY <1>1, <1>11 DEF SessionInv, FieldsOK
<1>14. ShownOK'
  BY <1>1 DEF SessionInv, ShownOK
<1>15. b.history => b.after = 0
  <2>1. a.history => a.after = 0
    BY <1>3 DEF SessionInv, BatchesOK, a
  <2> QED
    BY <1>8, <1>9, <2>1
<1>16. b.after <= b.upto /\ b.upto \in Nat /\ b.after \in Nat
  BY <1>4, <1>6, <1>8
<1>17. ~b.mixed => Reached(b.of, b.upto) /\ (b.upto <= n \/ b.upto = b.after)
  <2>1. ~a.mixed => Reached(a.of, a.after)
    BY <1>3 DEF SessionInv, BatchesOK, a
  <2>2. Reached(a.of, n)
    BY <1>5 DEF Reached, Within, n
  <2> QED
    BY <1>5, <1>6, <1>8, <1>9, <2>1, <2>2
<1>18. b.history => b.upto = n
  BY <1>5, <1>6, <1>8, <1>15
<1>19. /\ \A e, c : Reached(e, c)' <=> Reached(e, c)
       /\ \A e, c, u : Within(e, c, u)' <=> Within(e, c, u)
       /\ \A k : Covered(k)' <=> Covered(k)
  BY <1>1 DEF Reached, Within, Covered, Shown, Obscured
<1>20. BatchesOK'
  <2>1. \A j \in Task : j # i => task'[j] = task[j]
    BY <1>10
  <2>2. \A j \in Task : j = i => task'[j] = b
    BY <1>10
  <2>3. room' = room
    BY <1>1
  <2>4. ~b.mixed => Reached(b.of, b.upto) /\ (b.upto <= Len(room[b.of]) \/ b.upto = b.after)
    BY <1>8, <1>17 DEF n
  <2> QED
    BY <1>12, <1>15, <1>16, <1>19, <2>1, <2>2, <2>3, <2>4 DEF SessionInv, BatchesOK
<1>21. ~mixed /\ ~b.history => b.after <= cursor
  <2>1. ~mixed /\ ~a.history => a.after <= cursor
    BY <1>1, <1>3 DEF SessionInv, NoGap, a
  <2> QED
    BY <1>8, <1>9, <2>1
<1>22. ASSUME NEW j \in Task
       PROVE  /\ j # i => (Usable(j)' <=> Usable(j)) /\ task'[j] = task[j]
              /\ j = i /\ Usable(j)' => ~b.mixed /\ b.of = endpoint /\ task'[j] = b
  BY <1>1, <1>10 DEF Usable
<1>23. ASSUME ~mixed, Usable(i)', b.history PROVE Brings(i)'
  <2>1. task'[i] = b /\ b.of = endpoint /\ ~b.mixed
    BY <1>22, <1>23
  <2>2. b.upto = Len(room[endpoint])
    BY <1>8, <1>18, <1>23, <2>1 DEF n
  <2>3. Within(endpoint, cursor, b.upto)
    BY <1>23, <2>2 DEF SessionInv, NoGap, Reached
  <2>4. ASSUME NEW j \in Task, Usable(j)'
        PROVE  /\ Within(endpoint, task'[j].upto, b.upto)
               /\ task'[j].upto <= b.upto \/ task'[j].upto = task'[j].after
    <3>1. CASE j = i
      <4>1. Within(endpoint, b.upto, b.upto)
        BY <1>16 DEF Within
      <4> QED
        BY <1>16, <2>1, <3>1, <4>1
    <3>2. CASE j # i
      <4>1. Usable(j) /\ task'[j] = task[j]
        BY <1>22, <2>4, <3>2
      <4>2. /\ Reached(endpoint, task[j].upto)
            /\ task[j].upto <= Len(room[endpoint]) \/ task[j].upto = task[j].after
        BY <4>1 DEF Usable, SessionInv, BatchesOK
      <4> QED
        BY <2>2, <4>1, <4>2 DEF Reached
    <3> QED
      BY <3>1, <3>2
  <2>5. cursor' = cursor /\ endpoint' = endpoint
    BY <1>1
  <2> QED
    BY <1>19, <2>1, <2>3, <2>4, <2>5 DEF Brings
<1>24. NoGap'
  <2> SUFFICES ASSUME ~mixed' PROVE NoGap'
    BY DEF NoGap
  <2>0. ~mixed
    BY <1>1
  <2>1. /\ Reached(endpoint, cursor)'
        /\ didLoadHistory' => \A k \in DOMAIN room'[endpoint'] : k <= cursor' => Covered(k)'
    BY <1>1, <1>19, <2>0 DEF SessionInv, NoGap
  <2>2. \A k \in Task : k = loop' => ~(task'[k] \in Asked)
    BY <1>1, <1>10, <1>12
  <2>3. ASSUME didLoadHistory', NEW k \in Task, Usable(k)', ~task'[k].history
        PROVE  task'[k].after <= cursor'
    <3>1. CASE k = i
      BY <1>1, <1>21, <1>22, <2>0, <2>3, <3>1
    <3>2. CASE k # i
      BY <1>1, <1>22, <2>0, <2>3, <3>2 DEF SessionInv, NoGap
    <3> QED
      BY <3>1, <3>2
  <2>4. ASSUME NEW k \in Task, k = loop', Usable(k)', task'[k].history
        PROVE  Brings(k)'
    <3>1. k = i
      BY <1>1, <2>4
    <3>2. b.history
      BY <1>22, <2>4, <3>1
    <3> QED
      BY <1>23, <2>0, <2>4, <3>1, <3>2
  <2> QED
    BY <2>1, <2>2, <2>3, <2>4 DEF NoGap
<1> QED
  BY <1>13, <1>14, <1>20, <1>24 DEF SessionInv

(* What the parser makes of an answer. *)
LEMMA LinesAre ==
    ASSUME FieldsOK, NEW b, b.of \in Endpoint
    PROVE  /\ \A m \in Lines(b) :
                /\ m.at = b.of /\ m.by \in Batch(b) /\ m.by \in DOMAIN room[b.of]
                /\ m.seq \in DOMAIN room[b.of][m.by] /\ m.seq \in Nat /\ m.by \in Nat
                /\ m.from = room[b.of][m.by][m.seq]
           /\ \A n \in Batch(b) : \A k \in DOMAIN room[b.of][n] :
                \E m \in Lines(b) : m.at = b.of /\ m.by = n /\ m.seq = k
           /\ IsFiniteSet(Lines(b))
<1> DEFINE line(n, k) == [seq |-> k, at |-> b.of, by |-> n, from |-> room[b.of][n][k]]
           lines(n) == {line(n, k) : k \in DOMAIN room[b.of][n]}
           all == {lines(n) : n \in Batch(b)}
<1>1. Lines(b) = UNION all
  BY DEF Lines
<1>2. Batch(b) \subseteq DOMAIN room[b.of]
  BY DEF Batch
<1>3. \A n, k : line(n, k).seq = k /\ line(n, k).at = b.of /\ line(n, k).by = n
                /\ line(n, k).from = room[b.of][n][k]
  OBVIOUS
<1>4. \A n \in Batch(b) : /\ IsFiniteSet(DOMAIN room[b.of][n]) /\ n \in Nat
                          /\ DOMAIN room[b.of][n] \subseteq Nat
  BY <1>2, ReadNumbers DEF Headers
<1> HIDE DEF line
<1>5. ASSUME NEW m \in Lines(b)
      PROVE  /\ m.at = b.of /\ m.by \in Batch(b) /\ m.by \in DOMAIN room[b.of]
             /\ m.seq \in DOMAIN room[b.of][m.by] /\ m.seq \in Nat /\ m.by \in Nat
             /\ m.from = room[b.of][m.by][m.seq]
  <2>1. PICK n \in Batch(b) : m \in lines(n)
    BY <1>1
  <2>2. PICK k \in DOMAIN room[b.of][n] : m = line(n, k)
    BY <2>1
  <2> QED
    BY <1>2, <1>3, <1>4, <2>1, <2>2
<1>6. ASSUME NEW n \in Batch(b), NEW k \in DOMAIN room[b.of][n]
      PROVE  \E m \in Lines(b) : m.at = b.of /\ m.by = n /\ m.seq = k
  <2>1. line(n, k) \in lines(n) /\ lines(n) \in all
    OBVIOUS
  <2>2. line(n, k) \in Lines(b)
    BY <1>1, <2>1
  <2> QED
    BY <1>3, <2>2
<1>7. IsFiniteSet(Lines(b))
  <2>1. IsFiniteSet(Batch(b))
    <3>1. Len(room[b.of]) \in Nat /\ DOMAIN room[b.of] = 1..Len(room[b.of])
      BY SessionNumbers
    <3>2. IsFiniteSet(DOMAIN room[b.of])
      BY <3>1, FS_Interval
    <3> QED
      BY <1>2, <3>2, FS_Subset
  <2>2. \A n \in Batch(b) : IsFiniteSet(lines(n))
    <3> SUFFICES ASSUME NEW n \in Batch(b) PROVE IsFiniteSet(lines(n))
      OBVIOUS
    <3> DEFINE f == [k \in DOMAIN room[b.of][n] |-> line(n, k)]
    <3>1. f \in Surjection(DOMAIN room[b.of][n], lines(n))
      BY DEF Surjection
    <3> QED
      BY <1>4, <3>1, FS_Surjection
  <2>3. IsFiniteSet(all)
    <3> HIDE DEF lines
    <3> DEFINE f == [n \in Batch(b) |-> lines(n)]
    <3>1. f \in Surjection(Batch(b), all)
      BY DEF Surjection
    <3> QED
      BY <2>1, <3>1, FS_Surjection
  <2>4. \A S \in all : IsFiniteSet(S)
    BY <2>2
  <2> HIDE DEF all
  <2> QED
    BY <1>1, <2>3, <2>4, FS_UNION
<1> QED
  BY <1>5, <1>6, <1>7

(* The answer that is applied, also by a loop that was cancelled. *)
LEMMA SessionOfApply ==
    ASSUME SessionInv, NEW i \in Task, Apply(i)
    PROVE  SessionInv'
<1> DEFINE b == task[i]
           fresh == Fresh(b)
           lines == Lines(b)
           incoming == {m \in fresh : m.from = "theirs"}
           size == Len(room[b.of])
<1>1. /\ b.at = "answered"
      /\ didLoadHistory' = (didLoadHistory \/ b.history)
      /\ connection' = "live"
      /\ messages' = messages \cup fresh
      /\ cursor' \in Passed(b) /\ \A d \in Passed(b) : d <= cursor'
      /\ unreadCount' = IF isVisible THEN unreadCount ELSE unreadCount + Cardinality(incoming)
      /\ task' = [task EXCEPT ![i] = Ready]
      /\ mixed' = (mixed \/ b.mixed \/ b.of # endpoint \/ (b.history /\ Cancelled(i)))
      /\ UNCHANGED <<room, endpoint, isVisible, loop, posts, restarts>>
  BY DEF Apply, CursorMoves
<1>2. task \in [Task -> Quiet \cup Asked \cup Answered] /\ FieldsOK
  BY DEF SessionInv, FieldsOK
<1>3. b \in Answered
  <2>1. b \in Quiet \cup Asked \cup Answered
    BY <1>2
  <2>2. \A x \in Quiet : x.at # "answered"
    BY TaskKinds DEF Quiet
  <2>3. \A x \in Asked : x.at # "answered"
    BY TaskKinds
  <2> QED
    BY <1>1, <2>1, <2>2, <2>3
<1>4. /\ b.of \in Endpoint /\ b.after \in Nat /\ b.upto \in Nat
      /\ b.history \in BOOLEAN /\ b.mixed \in BOOLEAN
  BY <1>3, TaskKinds
<1>5. cursor \in Nat /\ size \in Nat /\ DOMAIN room[b.of] = 1..size
  BY <1>2, <1>4, SessionNumbers
<1>6. /\ \A m \in lines : /\ m.at = b.of /\ m.by \in Batch(b) /\ m.by \in DOMAIN room[b.of]
                          /\ m.seq \in DOMAIN room[b.of][m.by] /\ m.seq \in Nat /\ m.by \in Nat
                          /\ m.from = room[b.of][m.by][m.seq]
      /\ \A n \in Batch(b) : \A k \in DOMAIN room[b.of][n] :
           \E m \in lines : m.at = b.of /\ m.by = n /\ m.seq = k
      /\ IsFiniteSet(lines)
  BY <1>2, <1>4, LinesAre
<1>7. Passed(b) = {cursor, b.upto} \cup {m.seq : m \in lines}
  BY DEF Passed
<1>8. \A n : n \in Batch(b) <=> n \in 1..size /\ b.after < n /\ n <= b.upto
  BY <1>5 DEF Batch
<1>9. fresh = {m \in lines : m.seq \notin seenSeqs /\ \A l \in lines : l.seq = m.seq => m.by <= l.by}
  BY DEF Fresh
<1>10. Cardinality(incoming) \in Nat
  <2>1. IsFiniteSet(incoming)
    BY <1>6, <1>9, FS_Subset
  <2> HIDE DEF incoming
  <2> QED
    BY <2>1, FS_CardinalityType
<1> HIDE DEF incoming, size, fresh, lines
<1>11. /\ cursor' \in Nat /\ cursor <= cursor' /\ b.upto <= cursor'
       /\ \A m \in lines : m.seq <= cursor'
       /\ \/ cursor' = cursor \/ cursor' = b.upto
          \/ \E m \in lines : cursor' = m.seq
  BY <1>1, <1>4, <1>5, <1>6, <1>7
<1>12. \A j \in Task : task'[j] = IF j = i THEN Ready ELSE task[j]
  BY <1>1, <1>2
<1>13. task' \in [Task -> Quiet \cup Asked \cup Answered]
  BY <1>1, <1>2 DEF Quiet
<1>14. Ready \notin Asked /\ Ready \notin Answered
  BY TaskKinds DEF Quiet
<1>15. FieldsOK'
  <2>1. unreadCount' \in Nat
    BY <1>1, <1>10 DEF SessionInv, FieldsOK
  <2>2. didLoadHistory' \in BOOLEAN /\ mixed' \in BOOLEAN
    BY <1>1
  <2>3. connection' \in {"idle", "connecting", "live", "failed"}
    BY <1>1
  <2> QED
    BY <1>1, <1>11, <1>13, <2>1, <2>2, <2>3 DEF SessionInv, FieldsOK
<1>16. ShownOK'
  <2>1. ASSUME NEW m \in fresh
        PROVE  /\ m.at = b.of /\ m.at \in Endpoint /\ m.by \in DOMAIN room[m.at]
               /\ m.seq \in DOMAIN room[m.at][m.by] /\ m.seq \in 0..cursor'
               /\ m.seq \notin seenSeqs
    <3>1. m \in lines /\ m.seq \notin seenSeqs
      BY <1>9
    <3> QED
      BY <1>4, <1>6, <1>11, <3>1
  <2>2. ASSUME NEW m \in messages
        PROVE  /\ m.at \in Endpoint /\ m.by \in DOMAIN room[m.at]
               /\ m.seq \in DOMAIN room[m.at][m.by] /\ m.seq \in 0..cursor'
    BY <1>5, <1>11 DEF SessionInv, ShownOK
  <2>3. \A m \in messages, n \in fresh : m.seq # n.seq
    BY <2>1 DEF seenSeqs
  <2>4. ASSUME NEW m \in fresh, NEW n \in fresh, m.seq = n.seq PROVE m = n
    <3>1. m \in lines /\ n \in lines /\ m.by <= n.by /\ n.by <= m.by
      BY <1>9, <2>4
    <3>2. m.by = n.by /\ m.at = n.at /\ m.from = n.from
      BY <1>6, <2>4, <3>1
    <3>3. \A l \in lines : l = [seq |-> l.seq, at |-> l.at, by |-> l.by, from |-> l.from]
      BY DEF lines, Lines
    <3>4. m = [seq |-> m.seq, at |-> m.at, by |-> m.by, from |-> m.from]
      BY <3>1, <3>3
    <3>5. n = [seq |-> n.seq, at |-> n.at, by |-> n.by, from |-> n.from]
      BY <3>1, <3>3
    <3> QED
      BY <2>4, <3>2, <3>4, <3>5
  <2>5. \A m, n \in messages : m.seq = n.seq => m = n
    BY DEF SessionInv, ShownOK
  <2>6. ~mixed' => \A m \in messages' : m.at = endpoint'
    BY <1>1, <2>1 DEF SessionInv, ShownOK
  <2>7. \A m \in messages' : /\ m.at \in Endpoint /\ m.by \in DOMAIN room[m.at]
                             /\ m.seq \in DOMAIN room[m.at][m.by] /\ m.seq \in 0..cursor'
    BY <1>1, <2>1, <2>2
  <2>8. \A m, n \in messages' : m.seq = n.seq => m = n
    BY <1>1, <2>3, <2>4, <2>5
  <2> QED
    BY <1>1, <2>6, <2>7, <2>8 DEF ShownOK
<1>17. /\ \A e, c : Reached(e, c)' <=> Reached(e, c)
       /\ \A e, c, u : Within(e, c, u)' <=> Within(e, c, u)
       /\ \A e, n : Obscured(e, n)' <=> Obscured(e, n)
       /\ \A e, n : Shown(e, n) => Shown(e, n)'
  BY <1>1 DEF Reached, Within, Shown, Obscured
<1>18. BatchesOK'
  BY <1>1, <1>12, <1>14, <1>17 DEF SessionInv, BatchesOK
<1>19. b.after <= b.upto /\ (b.history => b.after = 0)
  BY <1>3 DEF SessionInv, BatchesOK
<1>20. ASSUME NEW j \in Task, Usable(j)'
       PROVE  Usable(j) /\ task'[j] = task[j] /\ j # i
  BY <1>1, <1>12, <1>14, <1>20 DEF Usable
<1>21. ASSUME NEW j \in Task, Usable(j)
       PROVE  task[j].after \in Nat /\ task[j].upto \in Nat /\ task[j].after <= task[j].upto
  BY <1>4, <1>21, TaskKinds DEF Usable, SessionInv, BatchesOK
<1>22. NoGap'
  <2> SUFFICES ASSUME ~mixed' PROVE NoGap'
    BY DEF NoGap
  <2>1. /\ ~mixed /\ ~b.mixed /\ b.of = endpoint /\ endpoint' = endpoint
        /\ b.history => i = loop
    BY <1>1 DEF Cancelled
  <2>2. Usable(i)
    BY <1>3, <2>1 DEF Usable
  <2>3. /\ Reached(endpoint, cursor)
        /\ didLoadHistory => \A n \in DOMAIN room[endpoint] : n <= cursor => Covered(n)
        /\ \A k \in Task : k = loop /\ task[k] \in Asked /\ ~task[k].history => task[k].after <= cursor
        /\ didLoadHistory =>
             \A k \in Task : Usable(k) /\ ~task[k].history => task[k].after <= cursor
        /\ \A k \in Task : k = loop /\ Usable(k) /\ task[k].history => Brings(k)
    BY <2>1 DEF SessionInv, NoGap
  <2>4. Reached(endpoint, b.upto) /\ (b.upto <= size \/ b.upto = b.after) /\ size = Len(room[endpoint])
    BY <1>3, <2>1 DEF SessionInv, BatchesOK, size
  (* What was read in the answer, the room lets a cursor get to. *)
  <2>5. \A m \in lines : Within(endpoint, m.seq, m.by)
    BY <1>6, <2>1 DEF Within
  <2>6. ASSUME NEW c \in Nat, NEW u \in Nat, NEW v \in Nat, u <= v, Within(endpoint, c, u)
        PROVE  Within(endpoint, c, v)
    <3>1. CASE c <= u
      BY <2>6, <3>1 DEF Within
    <3>2. ASSUME NEW k \in DOMAIN room[endpoint], k <= u, NEW j \in DOMAIN room[endpoint][k], c <= j
          PROVE  Within(endpoint, c, v)
      <4>1. k \in Nat
        BY <1>5, <2>1
      <4>2. k <= v
        BY <2>6, <3>2, <4>1
      <4> QED
        BY <3>2, <4>2 DEF Within
    <3> QED
      BY <2>6, <3>1, <3>2 DEF Within
  <2>7. \A m \in lines : m.by \in 1..size /\ b.after < m.by /\ m.by <= b.upto /\ m.seq \in Nat
    BY <1>6, <1>8
  <2>8. Reached(endpoint, cursor')
    <3>1. ASSUME NEW m \in lines PROVE Reached(endpoint, m.seq)
      BY <1>5, <2>4, <2>5, <2>6, <2>7 DEF Reached
    <3> QED
      BY <1>11, <2>3, <2>4, <3>1
  (* A message of the answer is shown, or another one's line was. *)
  <2>9. ASSUME NEW n \in Batch(b) PROVE Shown(endpoint, n)' \/ Obscured(endpoint, n)
    <3> SUFFICES ASSUME ~Obscured(endpoint, n) PROVE Shown(endpoint, n)'
      OBVIOUS
    <3>1. n \in DOMAIN room[endpoint] /\ n \in DOMAIN room[endpoint][n]
      BY <1>5, <1>8, <2>1 DEF Obscured
    <3>2. PICK m \in lines : m.at = endpoint /\ m.by = n /\ m.seq = n
      BY <1>6, <2>1, <3>1
    <3>3. \A k \in DOMAIN room[endpoint] : n \in DOMAIN room[endpoint][k] => k = n
      BY DEF Obscured
    <3>4. CASE n \in seenSeqs
      <4>1. PICK l \in messages : l.seq = n
        BY <3>4 DEF seenSeqs
      <4>2. /\ l.at = endpoint /\ l.by \in DOMAIN room[endpoint]
            /\ n \in DOMAIN room[endpoint][l.by]
        BY <2>1, <4>1 DEF SessionInv, ShownOK
      <4>3. l.by = n
        BY <3>3, <4>2
      <4> QED
        BY <1>1, <2>1, <4>1, <4>2, <4>3 DEF Shown
    <3>5. CASE n \notin seenSeqs
      <4>1. \A l \in lines : l.seq = m.seq => m.by <= l.by
        <5> SUFFICES ASSUME NEW l \in lines, l.seq = m.seq PROVE m.by <= l.by
          OBVIOUS
        <5>1. l.by = n /\ l.by \in Nat
          BY <1>6, <2>1, <3>2, <3>3
        <5> QED
          BY <3>2, <5>1
      <4>2. m \in fresh
        BY <1>9, <3>2, <3>5, <4>1
      <4>3. m \in messages'
        BY <1>1, <4>2
      <4> QED
        BY <2>1, <3>2, <4>3 DEF Shown
    <3> QED
      BY <3>4, <3>5
  (* A message after the answer that the cursor passes by one of its lines. *)
  <2>10. ASSUME NEW n \in Nat, NEW k \in DOMAIN room[endpoint], k < n,
                NEW j \in DOMAIN room[endpoint][k], n <= j
         PROVE  Obscured(endpoint, n)
    <3>1. j \in Nat /\ k \in Nat
      BY <1>2, <1>4, <2>1, ReadNumbers
    <3>2. k # n /\ (j = n \/ n < j)
      BY <2>10, <3>1
    <3> QED
      BY <2>10, <3>2 DEF Obscured
  <2>11. ASSUME NEW n \in 1..size, ~(n <= b.upto), NEW m \in lines, n <= m.seq
         PROVE  Obscured(endpoint, n)
    <3>1. m.by \in DOMAIN room[endpoint] /\ m.seq \in DOMAIN room[endpoint][m.by]
      BY <1>6, <2>1
    <3>2. m.by < n /\ n \in Nat
      BY <1>4, <1>5, <2>7, <2>11
    <3> QED
      BY <2>10, <2>11, <3>1, <3>2
  <2>12. CASE b.history
    <3>1. i = loop /\ b.after = 0
      BY <1>19, <2>1, <2>12
    <3>2. Brings(i)
      BY <2>2, <2>3, <2>12, <3>1
    <3>3. ASSUME NEW n \in 1..size, n <= cursor' PROVE Covered(n)'
      <4>1. CASE n <= b.upto
        <5>1. n \in Batch(b)
          BY <1>4, <1>8, <3>1, <3>3, <4>1
        <5> QED
          BY <1>17, <2>1, <2>9, <5>1 DEF Covered
      <4>2. CASE ~(n <= b.upto)
        <5>1. CASE \E m \in lines : cursor' = m.seq
          <6>1. PICK m \in lines : cursor' = m.seq
            BY <5>1
          <6>2. Obscured(endpoint, n)
            BY <2>11, <3>3, <4>2, <6>1
          <6> QED
            BY <1>17, <2>1, <6>2 DEF Covered
        <5>2. CASE cursor' = cursor
          <6>1. Within(endpoint, cursor, b.upto)
            BY <3>2 DEF Brings
          <6>2. ~(cursor <= b.upto)
            BY <1>4, <1>5, <3>3, <4>2, <5>2
          <6>3. PICK k \in DOMAIN room[endpoint] :
                  k <= b.upto /\ \E j \in DOMAIN room[endpoint][k] : cursor <= j
            BY <6>1, <6>2 DEF Within
          <6>4. PICK j \in DOMAIN room[endpoint][k] : cursor <= j
            BY <6>3
          <6>5. j \in Nat /\ k \in Nat
            BY <1>2, <1>4, <2>1, ReadNumbers
          <6>6. k < n /\ n <= j /\ n \in Nat
            BY <1>4, <1>5, <3>3, <4>2, <5>2, <6>3, <6>4, <6>5
          <6>7. Obscured(endpoint, n)
            BY <2>10, <6>6
          <6> QED
            BY <1>17, <2>1, <6>7 DEF Covered
        <5> QED
          BY <1>11, <3>3, <4>2, <5>1, <5>2
      <4> QED
        BY <4>1, <4>2
    <3>4. \A n \in DOMAIN room'[endpoint'] : n <= cursor' => Covered(n)'
      BY <1>1, <1>5, <2>1, <3>3
    <3>5. \A k \in Task : k = loop => ~(task'[k] \in Asked) /\ ~Usable(k)'
      BY <1>12, <1>14, <1>20, <3>1
    <3>6. ASSUME NEW j \in Task, Usable(j)' PROVE task'[j].after <= cursor'
      <4>1. Usable(j) /\ task'[j] = task[j]
        BY <1>20, <3>6
      <4>2. task[j].after \in Nat /\ task[j].upto \in Nat /\ task[j].after <= task[j].upto
        BY <1>21, <4>1
      <4>3. Within(endpoint, task[j].upto, b.upto)
        BY <3>2, <4>1 DEF Brings
      <4>4. task[j].upto <= cursor'
        <5>1. CASE task[j].upto <= b.upto
          BY <1>4, <1>11, <4>2, <5>1
        <5>2. CASE ~(task[j].upto <= b.upto)
          <6>1. PICK k \in DOMAIN room[endpoint] :
                  k <= b.upto /\ \E l \in DOMAIN room[endpoint][k] : task[j].upto <= l
            BY <4>3, <5>2 DEF Within
          <6>2. PICK l \in DOMAIN room[endpoint][k] : task[j].upto <= l
            BY <6>1
          <6>3. k \in Batch(b)
            BY <1>5, <1>8, <2>1, <3>1, <6>1
          <6>4. PICK m \in lines : m.seq = l
            BY <1>6, <2>1, <6>2, <6>3
          <6>5. l <= cursor' /\ l \in Nat
            BY <1>6, <1>11, <6>4
          <6> QED
            BY <1>11, <4>2, <6>2, <6>5
        <5> QED
          BY <5>1, <5>2
      <4> QED
        BY <1>11, <4>1, <4>2, <4>4
    <3>7. Reached(endpoint, cursor)'
      BY <1>17, <2>1, <2>8
    <3> QED
      BY <1>1, <3>4, <3>5, <3>6, <3>7 DEF NoGap
  <2>13. CASE ~b.history
    <3>1. didLoadHistory' = didLoadHistory
      BY <1>1, <2>13 DEF SessionInv, FieldsOK
    <3>2. didLoadHistory => b.after <= cursor
      BY <2>2, <2>3, <2>13
    <3>3. ASSUME didLoadHistory, NEW n \in 1..size, n <= cursor' PROVE Covered(n)'
      <4>1. CASE n <= cursor
        <5>1. Covered(n)
          BY <1>5, <2>1, <2>3, <3>3, <4>1
        <5> QED
          BY <1>17, <2>1, <5>1 DEF Covered
      <4>2. CASE ~(n <= cursor) /\ n <= b.upto
        <5>1. n \in Batch(b)
          BY <1>4, <1>5, <1>8, <3>2, <3>3, <4>2
        <5> QED
          BY <1>17, <2>1, <2>9, <5>1 DEF Covered
      <4>3. CASE ~(n <= cursor) /\ ~(n <= b.upto)
        <5>1. PICK m \in lines : cursor' = m.seq
          BY <1>11, <3>3, <4>3
        <5>2. Obscured(endpoint, n)
          BY <2>11, <3>3, <4>3, <5>1
        <5> QED
          BY <1>17, <2>1, <5>2 DEF Covered
      <4> QED
        BY <4>1, <4>2, <4>3
    <3>4. ASSUME NEW k \in Task, k = loop, task'[k] \in Asked, ~task'[k].history
          PROVE  task'[k].after <= cursor'
      <4>1. task'[k] = task[k]
        BY <1>12, <1>14, <3>4
      <4>2. task[k].after <= cursor /\ task[k].after \in Nat
        BY <2>3, <3>4, <4>1, TaskKinds
      <4> QED
        BY <1>5, <1>11, <4>1, <4>2
    <3>5. ASSUME didLoadHistory, NEW k \in Task, Usable(k)', ~task'[k].history
          PROVE  task'[k].after <= cursor'
      <4>1. Usable(k) /\ task'[k] = task[k]
        BY <1>20, <3>5
      <4>2. task[k].after <= cursor /\ task[k].after \in Nat
        BY <1>21, <2>3, <3>5, <4>1
      <4> QED
        BY <1>5, <1>11, <4>1, <4>2
    <3>6. ASSUME NEW k \in Task, k = loop, Usable(k)', task'[k].history
          PROVE  Brings(k)'
      <4>1. Usable(k) /\ task'[k] = task[k] /\ task[k].upto \in Nat
        BY <1>20, <1>21, <3>6
      <4>2. Brings(k)
        BY <2>3, <3>6, <4>1
      <4>3. Within(endpoint, b.upto, task[k].upto) /\ (b.upto <= task[k].upto \/ b.upto = b.after)
        BY <2>2, <4>2 DEF Brings
      <4>4. ASSUME NEW m \in lines PROVE Within(endpoint, m.seq, task[k].upto)
        <5>1. m.by \in Nat /\ m.by <= task[k].upto
          BY <1>4, <1>5, <2>7, <4>1, <4>3
        <5> QED
          BY <2>5, <2>6, <2>7, <4>1, <5>1
      <4>5. Within(endpoint, cursor', task[k].upto)
        <5>1. Within(endpoint, cursor, task[k].upto)
          BY <4>2 DEF Brings
        <5> QED
          BY <1>11, <4>3, <4>4, <5>1
      <4>6. \A j \in Task : Usable(j)' => Usable(j) /\ task'[j] = task[j]
        BY <1>20
      <4>7. \A j \in Task : Usable(j) =>
              /\ Within(endpoint, task[j].upto, task[k].upto)
              /\ task[j].upto <= task[k].upto \/ task[j].upto = task[j].after
        BY <4>2 DEF Brings
      <4> QED
        BY <1>17, <2>1, <4>1, <4>5, <4>6, <4>7 DEF Brings
    <3>7. Reached(endpoint, cursor)'
      BY <1>17, <2>1, <2>8
    <3>8. didLoadHistory' => \A n \in DOMAIN room'[endpoint'] : n <= cursor' => Covered(n)'
      BY <1>1, <1>5, <2>1, <3>1, <3>3
    <3> QED
      BY <1>1, <3>1, <3>4, <3>5, <3>6, <3>7, <3>8 DEF NoGap
  <2> QED
    BY <1>4, <2>12, <2>13
<1> QED
  BY <1>15, <1>16, <1>18, <1>22 DEF SessionInv

LEMMA SessionLoop ==
    ASSUME SessionInv, NEW i \in Task, LoopStep(i)
    PROVE  SessionInv'
<1>1. /\ DOMAIN task = Task /\ connection \in {"idle", "connecting", "live", "failed"}
      /\ isVisible \in BOOLEAN /\ unreadCount \in Nat
      /\ task = [j \in Task |-> task[j]]
  BY DEF SessionInv, FieldsOK
<1>2. ASSUME NEW t \in Quiet, task' = [task EXCEPT ![i] = t],
             UNCHANGED <<room, endpoint, transcript, isVisible, loop, posts, restarts>>,
             connection' \in {connection, "failed"}
      PROVE  SessionInv'
  <2>1. /\ DOMAIN task' = Task /\ task' = [j \in Task |-> task'[j]]
        /\ \A j \in Task : task'[j] = task[j] \/ task'[j] \in Quiet
    BY <1>1, <1>2
  <2>2. UNCHANGED <<messages, cursor, didLoadHistory, unreadCount, mixed>>
    BY <1>2 DEF transcript
  <2>3. connection' \in {"idle", "connecting", "live", "failed"}
    BY <1>1, <1>2
  <2> QED
    BY <1>1, <1>2, <2>1, <2>2, <2>3, SessionQuiet
<1>3. CASE Leaves(i)
  BY <1>2, <1>3 DEF Leaves, Quiet
<1>4. CASE Asks(i)
  BY <1>4, SessionOfAsks
<1>5. CASE Answer(i)
  BY <1>5, SessionOfAnswer
<1>6. CASE Fail(i)
  BY <1>2, <1>6 DEF Fail, Quiet, Failed
<1>7. CASE CancelRequest(i)
  BY <1>2, <1>7 DEF CancelRequest, Quiet
<1>8. CASE BackOff(i)
  BY <1>2, <1>8 DEF BackOff, Quiet, Sleeping
<1>9. CASE Wake(i)
  BY <1>2, <1>9 DEF Wake, Quiet
<1>10. CASE Apply(i)
  BY <1>10, SessionOfApply
<1> QED
  BY <1>3, <1>4, <1>5, <1>6, <1>7, <1>8, <1>9, <1>10 DEF LoopStep

LEMMA SessionAppStep == SessionInv /\ [Next]_vars => SessionInv'
<1> SUFFICES ASSUME SessionInv, [Next]_vars PROVE SessionInv'
  OBVIOUS
<1>1. /\ DOMAIN task = Task /\ connection \in {"idle", "connecting", "live", "failed"}
      /\ isVisible \in BOOLEAN /\ unreadCount \in Nat /\ endpoint \in Endpoint
      /\ task = [j \in Task |-> task[j]]
      /\ restarts \in Nat /\ MaxRestart \in Nat
  BY SessionNumbers DEF SessionInv, FieldsOK
<1>2. CASE UNCHANGED sessionVars
  BY <1>1, <1>2, SessionQuiet DEF sessionVars, transcript
<1>3. ASSUME NEW e \in Endpoint, NEW from \in From, NEW headed \in BOOLEAN, NEW q \in Quotes,
             Posted(e, from, headed, q)
      PROVE  SessionInv'
  BY <1>3, SessionOfPosted
<1>4. ASSUME NEW e \in Endpoint, Restart(e)
      PROVE  SessionInv'
  <2>1. restarts < MaxRestart /\ task' = [task EXCEPT ![restarts + 2] = Ready]
    BY <1>4 DEF Restart
  <2>2. restarts + 2 \in Task
    BY <1>1, <2>1 DEF Task
  <2>3. /\ task' = [j \in Task |-> task'[j]] /\ task'[restarts + 2] = Ready
        /\ \A j \in Task : task'[j] = task[j] \/ task'[j] \in Quiet
    BY <1>1, <2>1, <2>2 DEF Quiet
  <2> QED
    BY <1>1, <1>4, <2>3, SessionReset DEF Restart
<1>5. CASE Relaunch
  <2>1. restarts < MaxRestart /\ task' = [j \in Task |-> IF j = restarts + 2 THEN Ready ELSE Gone]
    BY <1>5 DEF Relaunch
  <2>2. restarts + 2 \in Task
    BY <1>1, <2>1 DEF Task
  <2>3. /\ task' = [j \in Task |-> task'[j]] /\ task'[restarts + 2] = Ready
        /\ \A j \in Task : task'[j] = task[j] \/ task'[j] \in Quiet
    BY <2>1, <2>2 DEF Quiet
  <2> QED
    BY <1>1, <1>5, <2>3, SessionReset DEF Relaunch
<1>6. CASE Forget
  BY <1>1, <1>6, SessionQuiet DEF Forget, Stop, transcript
<1>7. CASE Show
  BY <1>1, <1>7, SessionQuiet DEF Show
<1>8. CASE Hide
  BY <1>1, <1>8, SessionQuiet DEF Hide, transcript
<1>9. ASSUME NEW i \in Task, LoopStep(i)
      PROVE  SessionInv'
  BY <1>9, SessionLoop
<1> QED
  BY <1>2, <1>3, <1>4, <1>5, <1>6, <1>7, <1>8, <1>9 DEF Next, SessionNext, vars

LEMMA AlwaysSession == Spec => []SessionInv
BY SessionStart, SessionAppStep, PTL DEF Spec, Init

(* Once the history is loaded, every message that the cursor has passed is shown, through
   failures, restarts and answers applied after a restart.  The exceptions are a message
   whose header cannot be read, one whose number is in a header line of another message's
   text, one after a message whose text has a later number, and a transcript to which a
   batch was applied that came from another endpoint or was the history of a cancelled
   loop. *)
THEOREM NothingIsSkipped == Spec => []HistoryComplete
<1>1. SessionInv => HistoryComplete
  BY DEF SessionInv, NoGap, HistoryComplete, Covered
<1> QED
  BY <1>1, AlwaysSession, PTL

(* Every variable of the app has its type, no number is shown twice, and the stored queue
   stays within its cap. *)
THEOREM AppTypeCorrect == Spec => []TypeOK
<1>1. SessionInv => SessionTypeOK
  <2> SUFFICES ASSUME SessionInv PROVE SessionTypeOK
    OBVIOUS
  <2>1. Cardinality(messages) = Cardinality(seenSeqs)
    <3> DEFINE f == [m \in messages |-> m.seq]
    <3>1. f \in Injection(messages, 0..cursor)
      <4>1. f \in [messages -> 0..cursor]
        BY DEF SessionInv, ShownOK
      <4>2. \A m, n \in messages : f[m] = f[n] => m = n
        BY DEF SessionInv, ShownOK
      <4> QED
        BY <4>1, <4>2, Fun_IsInj
    <3>2. IsFiniteSet(0..cursor)
      BY SessionNumbers, FS_Interval DEF SessionInv
    <3>3. IsFiniteSet(messages)
      BY <3>1, <3>2, FS_Injection
    <3>4. f \in Surjection(messages, seenSeqs) /\ f \in Injection(messages, seenSeqs)
      <4>1. f \in [messages -> seenSeqs]
        BY DEF seenSeqs
      <4>2. \A m, n \in messages : f[m] = f[n] => m = n
        BY DEF SessionInv, ShownOK
      <4>3. \A s \in seenSeqs : \E m \in messages : f[m] = s
        BY DEF seenSeqs
      <4> QED
        BY <4>1, <4>2, <4>3, Fun_IsInj, Fun_IsSurj
    <3> HIDE DEF f
    <3>5. Cardinality(seenSeqs) = Cardinality(messages) <=> f \in Injection(messages, seenSeqs)
      BY <3>3, <3>4, FS_Surjection
    <3> QED
      BY <3>4, <3>5
  <2>2. \A i \in Task :
          task[i].at \in {"gone", "ready", "asked", "answered", "failed", "sleeping"}
    <3>1. \A x \in Quiet \cup Asked \cup Answered :
            x.at \in {"gone", "ready", "asked", "answered", "failed", "sleeping"}
      BY TaskKinds DEF Quiet
    <3> QED
      BY <3>1 DEF SessionInv, FieldsOK
  <2>3. ASSUME NEW e \in Endpoint
        PROVE  Len(room[e]) \in 0..posts /\ \A n \in DOMAIN room[e] : Headers(room[e][n])
    <3>1. Len(room[e]) \in Nat /\ posts \in Nat /\ Len(room[e]) <= posts
      BY SessionNumbers DEF SessionInv, FieldsOK
    <3> QED
      BY <3>1, ReadNumbers DEF SessionInv
  <2>4. DOMAIN room = Endpoint
    BY DEF SessionInv, FieldsOK
  <2> QED
    BY <2>1, <2>2, <2>3, <2>4 DEF SessionInv, FieldsOK, ShownOK, SessionTypeOK
<1>2. QueueInv => QueueTypeOK
  <2> SUFFICES ASSUME QueueInv PROVE QueueTypeOK
    OBVIOUS
  <2>1. ASSUME NEW q, QueueOK(q, typed, replies)
        PROVE  /\ q \in Seq([id : 1..typed, state : State, note : 0..Len(replies)])
               /\ \A j, k \in DOMAIN q : j < k => q[j].id < q[k].id
    <3> DEFINE S == [id : 1..typed, state : State, note : 0..Len(replies)]
               n == Len(q)
    <3>1. n \in Nat /\ DOMAIN q = 1..n /\ q \in [1..n -> Instruction]
      BY <2>1, LenProperties DEF QueueOK
    <3>2. ASSUME NEW k \in 1..n PROVE q[k] \in S
      <4>1. q[k] \in Instruction /\ q[k].id \in 1..typed /\ q[k].note \in 0..Len(replies)
        BY <2>1, <3>1 DEF QueueOK
      <4> QED
        BY <4>1 DEF Instruction
    <3>3. q \in [1..n -> S]
      BY <3>1, <3>2
    <3> HIDE DEF S, n
    <3>4. q \in Seq(S)
      BY <3>1, <3>3, SeqOfFunction
    <3> QED
      BY <2>1, <3>4 DEF S, QueueOK, Ordered
  <2> QED
    BY <2>1 DEF QueueInv, QueueTypeOK, Replies
<1> QED
  BY <1>1, <1>2, AlwaysSession, AlwaysQueue, PTL DEF TypeOK

=============================================================================

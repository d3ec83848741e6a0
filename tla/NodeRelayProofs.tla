-------------------------- MODULE NodeRelayProofs --------------------------
(***************************************************************************)
(* The chain of the Node relay does what the input gate of a Durable Object     *)
(* does, for any identities, keys, sizes and number of requests: NodeRelay is    *)
(* an implementation of RelaySession in which no handler is cut short, and so     *)
(* what RelaySessionProofs shows of the engine holds on this host.               *)
(***************************************************************************)
EXTENDS NodeRelay, TLAPS

-----------------------------------------------------------------------------
(* The chain.                                                                *)

Request == [op : Op, by : Fingerprint, at : {"chained", "running", "resolved", "rejected"},
            handler : Gated!Handler]

Idle == [at |-> "idle"]
Over == {"resolved", "rejected"}

(* A task that was started has only settled ones before it; only a task that is running is in
   a handler, and never one whose operation has no second put. *)
InOrder(r) ==
    /\ r \in Seq(Request)
    /\ \A m, n \in DOMAIN r : m < n /\ r[n].at # "chained" => r[m].at \in Over
    /\ \A n \in DOMAIN r : r[n].handler # Idle => r[n].at = "running" /\ r[n].op # "garbled"
ChainInv == InOrder(requests)

(* The handler of the session. *)
Inside(r) == {n \in DOMAIN r : r[n].at = "running" /\ r[n].handler # Idle}
GateOf(r) == IF Inside(r) = {} THEN Idle ELSE r[CHOOSE n \in Inside(r) : TRUE].handler
GateHandler ==
    IF InHandler = {} THEN [at |-> "idle"] ELSE requests[CHOOSE n \in InHandler : TRUE].handler

LEMMA GateIsGateOf == GateHandler = GateOf(requests) /\ GateHandler' = GateOf(requests')
<1>1. InHandler = Inside(requests) /\ InHandler' = Inside(requests')
  BY DEF InHandler, Inside, Running, Requests, Idle
<1> QED
  BY <1>1 DEF GateHandler, GateOf, Idle

(* While a task is running, or about to start, the session's handler is that task's. *)
LEMMA OneRuns ==
    ASSUME NEW r, InOrder(r), NEW n \in DOMAIN r,
           \/ r[n].at = "running"
           \/ r[n].at = "chained" /\ (n > 1 => r[n - 1].at \in Over)
    PROVE  /\ GateOf(r) = r[n].handler
           /\ \A m \in DOMAIN r : m < n => r[m].at \in Over
           /\ \A m \in DOMAIN r : m > n => r[m].at = "chained"
<1>1. r \in Seq(Request) /\ DOMAIN r = 1..Len(r) /\ Len(r) \in Nat
  BY DEF InOrder
<1>2. \A m \in DOMAIN r : m > n => r[m].at = "chained"
  <2>1. r[n].at \notin Over
    BY DEF Over
  <2> QED
    BY <1>1, <2>1 DEF InOrder
<1>3. ASSUME NEW m \in DOMAIN r, m < n PROVE r[m].at \in Over
  <2>1. CASE r[n].at = "running"
    BY <1>3, <2>1 DEF InOrder
  <2>2. CASE r[n].at = "chained" /\ m = n - 1
    BY <1>1, <1>3, <2>2 DEF Over
  <2>3. CASE r[n].at = "chained" /\ m # n - 1
    <3>1. n - 1 \in DOMAIN r /\ m < n - 1 /\ r[n - 1].at \in Over
      BY <1>1, <1>3, <2>3
    <3> QED
      BY <3>1 DEF InOrder, Over
  <2> QED
    BY <2>1, <2>2, <2>3
<1>4. \A m \in Inside(r) : m = n
  BY <1>1, <1>2, <1>3 DEF Inside, Over
<1>5. CASE Inside(r) = {}
  <2>1. r[n].handler = Idle
    BY <1>5 DEF Inside, InOrder
  <2> QED
    BY <1>2, <1>3, <1>5, <2>1 DEF GateOf
<1>6. CASE Inside(r) # {}
  <2>1. Inside(r) = {n}
    BY <1>4, <1>6
  <2> QED
    BY <1>2, <1>3, <2>1 DEF GateOf
<1> QED
  BY <1>5, <1>6

(* When the session's handler is that of a task before and after one of the task's steps, the
   step is one of the session. *)
LEMMA TaskStep ==
    ASSUME NEW n, requests[n].by \in Fingerprint, First(n) \/ Later(n),
           GateHandler = requests[n].handler, GateHandler' = requests'[n].handler
    PROVE  Gated!Next
<1> DEFINE fp == requests[n].by
<1> USE DEF GateHandler, Engine!Idle, Gated!Idle, Engine!Created, Gated!Created,
            Engine!Members, Gated!Members, Engine!store, Gated!store,
            Engine!callers, Gated!callers, Engine!history, Gated!history
<1>1. ASSUME NEW size \in Size, Engine(n)!InitMeta(fp, size) PROVE Gated!Next
  <2>1. Gated!InitMeta(fp, size)
    BY <1>1 DEF Engine!InitMeta, Gated!InitMeta
  <2> QED
    BY <2>1 DEF Gated!Next
<1>2. ASSUME Engine(n)!JoinMember(fp) PROVE Gated!Next
  <2>1. Gated!JoinMember(fp)
    BY <1>2 DEF Engine!JoinMember, Gated!JoinMember, Engine!MayJoin, Gated!MayJoin
  <2> QED
    BY <2>1 DEF Gated!Next
<1>3. ASSUME Engine(n)!PostSeq(fp) PROVE Gated!Next
  <2>1. Gated!PostSeq(fp)
    BY <1>3 DEF Engine!PostSeq, Gated!PostSeq
  <2> QED
    BY <2>1 DEF Gated!Next
<1>4. ASSUME Engine(n)!GetMessages(fp) PROVE Gated!Next
  <2>1. \A c : Engine(n)!After(c) = Gated!After(c) /\ Engine(n)!CursorAfter(c) = Gated!CursorAfter(c)
    BY DEF Engine!After, Gated!After, Engine!CursorAfter, Gated!CursorAfter, Engine!MaxOf, Gated!MaxOf
  <2>2. Gated!GetMessages(fp)
    BY <1>4, <2>1 DEF Engine!GetMessages, Gated!GetMessages
  <2> QED
    BY <2>2 DEF Gated!Next
<1>5. ASSUME Engine(n)!Status(fp) PROVE Gated!Next
  <2>1. Gated!Status(fp)
    BY <1>5 DEF Engine!Status, Gated!Status
  <2> QED
    BY <2>1 DEF Gated!Next
<1>6. ASSUME NEW gk \in GroupKey, Engine(n)!PostKeys(fp, gk) PROVE Gated!Next
  <2>1. Gated!PostKeys(fp, gk)
    BY <1>6 DEF Engine!PostKeys, Gated!PostKeys
  <2> QED
    BY <2>1 DEF Gated!Next
<1>7. ASSUME Engine(n)!InitMember PROVE Gated!Next
  <2>1. Gated!InitMember
    BY <1>7 DEF Engine!InitMember, Gated!InitMember
  <2> QED
    BY <2>1 DEF Gated!Next
<1>8. ASSUME Engine(n)!InitToken PROVE Gated!Next
  <2>1. Gated!InitToken
    BY <1>8 DEF Engine!InitToken, Gated!InitToken
  <2> QED
    BY <2>1 DEF Gated!Next
<1>9. ASSUME Engine(n)!JoinMeta PROVE Gated!Next
  <2>1. Gated!JoinMeta
    BY <1>9 DEF Engine!JoinMeta, Gated!JoinMeta, Engine!JoinedMeta, Gated!JoinedMeta,
                Engine!Cardinality, Gated!Cardinality
  <2> QED
    BY <2>1 DEF Gated!Next
<1>10. ASSUME Engine(n)!PostMsg PROVE Gated!Next
  <2>1. Gated!PostMsg
    BY <1>10 DEF Engine!PostMsg, Gated!PostMsg
  <2> QED
    BY <2>1 DEF Gated!Next
<1>11. ASSUME NEW f \in Fingerprint, Engine(n)!PostWrap(f) PROVE Gated!Next
  <2>1. Gated!PostWrap(f)
    BY <1>11 DEF Engine!PostWrap, Gated!PostWrap
  <2> QED
    BY <2>1 DEF Gated!Next
<1>12. ASSUME Engine(n)!KeysPosted PROVE Gated!Next
  <2>1. Gated!KeysPosted
    BY <1>12 DEF Engine!KeysPosted, Gated!KeysPosted
  <2> QED
    BY <2>1 DEF Gated!Next
<1> QED
  BY <1>1, <1>2, <1>3, <1>4, <1>5, <1>6, <1>7, <1>8, <1>9, <1>10, <1>11, <1>12 DEF First, Later

-----------------------------------------------------------------------------
(* The invariant is kept.                                                    *)

LEMMA ChainInit == NodeInit => ChainInv
<1> SUFFICES ASSUME NodeInit PROVE ChainInv
  OBVIOUS
<1>1. requests = <<>> /\ <<>> \in Seq(Request) /\ DOMAIN <<>> = {}
  BY DEF NodeInit
<1> QED
  BY <1>1 DEF ChainInv, InOrder

(* A new request is chained behind the others. *)
LEMMA ChainedStep ==
    ASSUME ChainInv, NEW op \in Op, NEW fp \in Fingerprint, Chain(op, fp)
    PROVE  ChainInv' /\ GateOf(requests') = GateOf(requests)
<1> DEFINE q == [op |-> op, by |-> fp, at |-> "chained", handler |-> Idle]
           k == Len(requests)
           r == requests
           s == requests'
<1>1. k \in Nat /\ DOMAIN r = 1..k /\ r \in Seq(Request)
  BY DEF ChainInv, InOrder
<1>2. q \in Request /\ q.at = "chained" /\ q.handler = Idle
  BY DEF Request, Gated!Handler, Gated!Idle, Idle
<1>3. s = Append(r, q)
  BY DEF Chain, Gated!Idle, Idle
<1> HIDE DEF q
<1>4. /\ s \in Seq(Request) /\ DOMAIN s = 1..(k + 1)
      /\ s[k + 1] = q /\ \A n \in 1..k : s[n] = r[n]
  BY <1>1, <1>2, <1>3
<1>5. InOrder(r)
  BY DEF ChainInv
<1> HIDE DEF k, r, s
<1>6. \A n \in 1..(k + 1) : n \in 1..k \/ n = k + 1
  BY <1>1
<1>7. InOrder(s)
  <2>1. ASSUME NEW m \in DOMAIN s, NEW n \in DOMAIN s, m < n, s[n].at # "chained"
        PROVE  s[m].at \in Over
    <3>1. n \in 1..k /\ m \in 1..k
      BY <1>1, <1>2, <1>4, <1>6, <2>1
    <3> QED
      BY <1>1, <1>4, <1>5, <2>1, <3>1 DEF InOrder
  <2>2. ASSUME NEW n \in DOMAIN s, s[n].handler # Idle
        PROVE  s[n].at = "running" /\ s[n].op # "garbled"
    BY <1>1, <1>2, <1>4, <1>5, <1>6, <2>2 DEF InOrder
  <2> QED
    BY <1>4, <2>1, <2>2 DEF InOrder
<1>8. Inside(s) = Inside(r) /\ Inside(r) \subseteq 1..k
  BY <1>1, <1>2, <1>4, <1>6 DEF Inside
<1>9. GateOf(s) = GateOf(r)
  <2>1. CASE Inside(r) = {}
    BY <1>8, <2>1 DEF GateOf
  <2>2. CASE Inside(r) # {}
    BY <1>4, <1>8, <2>2 DEF GateOf
  <2> QED
    BY <2>1, <2>2
<1> QED
  BY <1>7, <1>9 DEF ChainInv, r, s

(* A task that is running, or may start, goes on to at, with handler h. *)
LEMMA TaskMoves ==
    ASSUME ChainInv, NEW n \in Requests,
           n \in Running \/ (requests[n].at = "chained" /\ (n > 1 => Settled(n - 1))),
           NEW at \in {"running", "resolved", "rejected"}, NEW h \in Gated!Handler,
           h # Idle => at = "running" /\ requests[n].op # "garbled",
           requests' = [requests EXCEPT ![n].at = at, ![n].handler = h]
    PROVE  /\ ChainInv'
           /\ requests'[n].handler = h
           /\ GateOf(requests) = requests[n].handler
           /\ GateOf(requests') = h
<1> DEFINE r == requests
           s == requests'
           q == [r[n] EXCEPT !.at = at, !.handler = h]
<1>1. InOrder(r) /\ r \in Seq(Request) /\ DOMAIN r = 1..Len(r) /\ Len(r) \in Nat /\ n \in DOMAIN r
  BY DEF ChainInv, InOrder, Requests
<1>2. \/ r[n].at = "running"
      \/ r[n].at = "chained" /\ (n > 1 => r[n - 1].at \in Over)
  BY DEF Running, Settled, Over
<1>3. r[n] \in Request
  BY <1>1
<1>4. q \in Request /\ q.at = at /\ q.handler = h /\ q.op = r[n].op
  BY <1>3 DEF Request
<1>5. s = [r EXCEPT ![n] = q]
  BY <1>1, <1>3 DEF Request
<1> HIDE DEF q, r, s
<1>6. /\ s \in Seq(Request) /\ DOMAIN s = DOMAIN r /\ s[n] = q
      /\ \A m \in DOMAIN r : m # n => s[m] = r[m]
  BY <1>1, <1>4, <1>5
<1>7. /\ GateOf(r) = r[n].handler
      /\ \A m \in DOMAIN r : m < n => r[m].at \in Over
      /\ \A m \in DOMAIN r : m > n => r[m].at = "chained"
  BY <1>1, <1>2, OneRuns
<1>8. InOrder(s)
  <2>1. ASSUME NEW m \in DOMAIN s, NEW k \in DOMAIN s, m < k, s[k].at # "chained"
        PROVE  s[m].at \in Over
    <3>1. k <= n
      BY <1>1, <1>6, <1>7, <2>1
    <3>2. m < n /\ m # n /\ r[m].at \in Over
      BY <1>1, <1>6, <1>7, <2>1, <3>1
    <3> QED
      BY <1>6, <3>2
  <2>2. ASSUME NEW k \in DOMAIN s, s[k].handler # Idle
        PROVE  s[k].at = "running" /\ s[k].op # "garbled"
    <3>1. CASE k = n
      BY <1>4, <1>6, <2>2, <3>1 DEF r
    <3>2. CASE k # n
      BY <1>1, <1>6, <2>2, <3>2 DEF InOrder
    <3> QED
      BY <3>1, <3>2
  <2> QED
    BY <1>6, <2>1, <2>2 DEF InOrder
<1>9. GateOf(s) = h
  <2>1. CASE at = "running"
    BY <1>1, <1>4, <1>6, <1>8, <2>1, OneRuns
  <2>2. CASE at # "running"
    <3>1. Inside(s) = {}
      <4>1. s[n].handler = Idle
        BY <1>4, <1>6, <2>2
      <4>2. \A m \in DOMAIN s : m # n => s[m].at # "running"
        BY <1>1, <1>6, <1>7 DEF Over
      <4> QED
        BY <4>1, <4>2 DEF Inside
    <3> QED
      BY <2>2, <3>1 DEF GateOf
  <2> QED
    BY <2>1, <2>2
<1> QED
  BY <1>4, <1>6, <1>7, <1>8, <1>9 DEF ChainInv, r, s

-----------------------------------------------------------------------------
(* The refinement.                                                           *)

(* What leaves the store, the callers and the handler of the session alone. *)
LEMMA GateRests ==
    ASSUME UNCHANGED <<nodeStore, nodeCallers>>, GateOf(requests') = GateOf(requests)
    PROVE  UNCHANGED Gated!vars
<1>1. GateHandler' = GateHandler
  BY GateIsGateOf
<1> QED
  BY <1>1 DEF nodeStore, nodeCallers, Gated!vars, Gated!store, Gated!callers, Gated!history, GateHandler

LEMMA StartStep ==
    ASSUME ChainInv, NEW n \in Requests, Start(n)
    PROVE  ChainInv' /\ UNCHANGED Gated!vars
<1>1. requests[n] \in Request /\ requests[n].at = "chained" /\ requests[n].handler = Idle
  BY DEF Start, ChainInv, InOrder, Requests
<1>2. requests' = [requests EXCEPT ![n].at = "running", ![n].handler = Idle]
  BY <1>1 DEF Start, Request
<1>3. Idle \in Gated!Handler
  BY DEF Idle, Gated!Handler, Gated!Idle
<1>4. n > 1 => Settled(n - 1)
  BY DEF Start
<1>5. ChainInv' /\ GateOf(requests) = requests[n].handler /\ GateOf(requests') = Idle
  BY <1>1, <1>2, <1>3, <1>4, TaskMoves
<1> QED
  BY <1>1, <1>5, GateRests DEF Start

(* Refuse and Throw: an answer without a step of the engine. *)
LEMMA AnswerStep ==
    ASSUME ChainInv, NEW n \in Requests, Refuse(n) \/ Throw(n)
    PROVE  ChainInv' /\ UNCHANGED Gated!vars
<1>1. requests[n] \in Request /\ n \in Running
  BY DEF Refuse, Throw, ChainInv, InOrder, Requests
<1>2. requests[n].handler = Idle
  BY DEF Refuse, Throw, ChainInv, InOrder, InHandler, Idle, Requests, Running
<1>3. PICK at \in {"resolved", "rejected"} : requests' = [requests EXCEPT ![n].at = at]
  BY DEF Refuse, Throw
<1>4. requests' = [requests EXCEPT ![n].at = at, ![n].handler = Idle]
  BY <1>1, <1>2, <1>3 DEF Request
<1>5. Idle \in Gated!Handler
  BY DEF Idle, Gated!Handler, Gated!Idle
<1>6. ChainInv' /\ GateOf(requests) = requests[n].handler /\ GateOf(requests') = Idle
  BY <1>1, <1>3, <1>4, <1>5, TaskMoves
<1> QED
  BY <1>2, <1>6, GateRests DEF Refuse, Throw

LEMMA WorkStep ==
    ASSUME ChainInv, NEW n \in Requests, Work(n)
    PROVE  ChainInv' /\ Gated!Next
<1>1. requests[n] \in Request /\ n \in Running /\ requests[n].at = "running"
  BY DEF Work, ChainInv, InOrder, Requests, Running
<1>2. PICK h \in Stops(n) :
        requests' = [requests EXCEPT ![n].handler = h,
                                     ![n].at = IF h = Gated!Idle THEN "resolved" ELSE @]
  BY DEF Work
<1> DEFINE at == IF h = Idle THEN "resolved" ELSE "running"
<1>3. requests' = [requests EXCEPT ![n].at = at, ![n].handler = h]
  BY <1>1, <1>2 DEF Request, Idle, Gated!Idle
<1>4. h \in Gated!Handler
  <2>1. requests[n].by \in Fingerprint
    BY <1>1 DEF Request
  <2> QED
    BY <2>1 DEF Stops, Gated!Handler
<1>5. First(n) \/ Later(n)
  BY DEF Work
<1>6. requests[n].op # "garbled"
  <2> SUFFICES ASSUME requests[n].op = "garbled" PROVE FALSE
    OBVIOUS
  <2>1. requests[n].handler = Idle
    BY DEF ChainInv, InOrder, Requests
  <2>2. ~ First(n)
    BY DEF First
  <2>3. requests[n].handler.at = "idle"
    BY <2>1 DEF Idle
  <2>4. ~ Later(n)
    BY <2>3 DEF Later, Engine!InitMember, Engine!InitToken, Engine!JoinMeta, Engine!PostMsg,
                Engine!PostWrap, Engine!KeysPosted
  <2> QED
    BY <1>5, <2>2, <2>4
<1>7. at \in {"running", "resolved", "rejected"} /\ (h # Idle => at = "running")
  OBVIOUS
<1> HIDE DEF at
<1>8. /\ ChainInv' /\ requests'[n].handler = h
      /\ GateOf(requests) = requests[n].handler /\ GateOf(requests') = h
  BY <1>1, <1>3, <1>4, <1>6, <1>7, TaskMoves
<1>9. GateHandler = requests[n].handler /\ GateHandler' = requests'[n].handler
  BY <1>8, GateIsGateOf
<1>10. requests[n].by \in Fingerprint
  BY <1>1 DEF Request
<1> QED
  BY <1>5, <1>8, <1>9, <1>10, TaskStep

LEMMA NodeStep == ChainInv /\ [NodeNext]_nodeVars => ChainInv' /\ [Gated!Next]_(Gated!vars)
<1> SUFFICES ASSUME ChainInv, [NodeNext]_nodeVars PROVE ChainInv' /\ [Gated!Next]_(Gated!vars)
  OBVIOUS
<1>1. ASSUME NEW op \in Op, NEW fp \in Fingerprint, Chain(op, fp),
             UNCHANGED <<nodeStore, nodeCallers>>
      PROVE  ChainInv' /\ [Gated!Next]_(Gated!vars)
  BY <1>1, ChainedStep, GateRests
<1>2. ASSUME NEW fp \in Fingerprint, CreateSession(fp)
      PROVE  ChainInv' /\ [Gated!Next]_(Gated!vars)
  <2>1. "init" \in Op
    BY DEF Op
  <2> QED
    BY <1>1, <1>2, <2>1 DEF CreateSession
<1>3. ASSUME NEW op \in Op, NEW fp \in Fingerprint, SessionRequest(op, fp)
      PROVE  ChainInv' /\ [Gated!Next]_(Gated!vars)
  BY <1>1, <1>3 DEF SessionRequest
<1>4. ASSUME NEW n \in Requests, Turn(n) PROVE ChainInv' /\ [Gated!Next]_(Gated!vars)
  BY <1>4, StartStep, WorkStep, AnswerStep DEF Turn
<1>5. CASE UNCHANGED nodeVars
  <2>1. requests' = requests /\ UNCHANGED <<nodeStore, nodeCallers>>
    BY <1>5 DEF nodeVars
  <2> QED
    BY <2>1, GateRests DEF ChainInv
<1> QED
  BY <1>2, <1>3, <1>4, <1>5 DEF NodeNext

LEMMA AlwaysInOrder == NodeSpec => []ChainInv
BY ChainInit, NodeStep, PTL DEF NodeSpec

(* The session on the Node relay is a RelaySession in which a handler starts only when no other is
   between two puts, whatever requests race, are refused or throw (node-relay.ts:21). *)
THEOREM ChainReplacesGate == NodeSpec => ChainIsGate
<1>1. NodeInit => Gated!Init
  BY DEF NodeInit
<1> QED
  BY <1>1, AlwaysInOrder, NodeStep, PTL DEF NodeSpec, ChainIsGate, Gated!Spec

-----------------------------------------------------------------------------
(* What is proved of the engine, on this host.                               *)

Proved == INSTANCE RelaySessionProofs WITH
    handler <- IF InHandler = {} THEN [at |-> "idle"]
                                 ELSE requests[CHOOSE n \in InHandler : TRUE].handler,
    MaxSeq <- MaxPost, MaxCrash <- 0, torn <- {}, tornKeys <- {}, crashes <- 0

LEMMA EngineAssumption == Proved!RelayAssumption
BY NodeAssumption DEF NodeAssumption, Proved!RelayAssumption, Proved!Meta, Proved!IsFiniteSet, IsFiniteSet

LEMMA SameSpec == Gated!Spec => Proved!Spec
<1> USE DEF Gated!Idle, Proved!Idle, Gated!Created, Proved!Created, Gated!Members, Proved!Members,
            Gated!store, Proved!store, Gated!callers, Proved!callers, Gated!history, Proved!history
<1>1. Gated!Init => Proved!Init
  BY DEF Gated!Init, Proved!Init
<1>2. Gated!vars = Proved!vars /\ (UNCHANGED Gated!vars => UNCHANGED Proved!vars)
  BY DEF Gated!vars, Proved!vars
<1>3. Gated!Next => Proved!Next
  <2>1. ASSUME NEW fp \in Fingerprint, NEW n \in Size, Gated!InitMeta(fp, n) PROVE Proved!InitMeta(fp, n)
    BY <2>1 DEF Gated!InitMeta, Proved!InitMeta
  <2>2. ASSUME NEW fp \in Fingerprint, Gated!JoinMember(fp) PROVE Proved!JoinMember(fp)
    BY <2>2 DEF Gated!JoinMember, Proved!JoinMember, Gated!MayJoin, Proved!MayJoin
  <2>3. ASSUME NEW fp \in Fingerprint, Gated!PostSeq(fp) PROVE Proved!PostSeq(fp)
    BY <2>3 DEF Gated!PostSeq, Proved!PostSeq
  <2>4. ASSUME NEW fp \in Fingerprint, Gated!GetMessages(fp) PROVE Proved!GetMessages(fp)
    <3>1. \A c : Gated!After(c) = Proved!After(c) /\ Gated!CursorAfter(c) = Proved!CursorAfter(c)
      BY DEF Gated!After, Proved!After, Gated!CursorAfter, Proved!CursorAfter, Gated!MaxOf, Proved!MaxOf
    <3> QED
      BY <2>4, <3>1 DEF Gated!GetMessages, Proved!GetMessages
  <2>5. ASSUME NEW fp \in Fingerprint, Gated!Status(fp) PROVE Proved!Status(fp)
    BY <2>5 DEF Gated!Status, Proved!Status
  <2>6. ASSUME NEW fp \in Fingerprint, NEW gk \in GroupKey, Gated!PostKeys(fp, gk)
        PROVE  Proved!PostKeys(fp, gk)
    BY <2>6 DEF Gated!PostKeys, Proved!PostKeys
  <2>7. ASSUME NEW fp \in Fingerprint, Gated!PostWrap(fp) PROVE Proved!PostWrap(fp)
    BY <2>7 DEF Gated!PostWrap, Proved!PostWrap
  <2>8. /\ Gated!InitMember => Proved!InitMember
        /\ Gated!InitToken => Proved!InitToken
    BY DEF Gated!InitMember, Proved!InitMember, Gated!InitToken, Proved!InitToken
  <2>9. Gated!JoinMeta => Proved!JoinMeta
    BY DEF Gated!JoinMeta, Proved!JoinMeta, Gated!JoinedMeta, Proved!JoinedMeta,
           Gated!Cardinality, Proved!Cardinality
  <2>10. /\ Gated!PostMsg => Proved!PostMsg
         /\ Gated!KeysPosted => Proved!KeysPosted
         /\ Gated!Crash => Proved!Crash
    BY DEF Gated!PostMsg, Proved!PostMsg, Gated!KeysPosted, Proved!KeysPosted, Gated!Crash, Proved!Crash
  <2> QED
    BY <2>1, <2>2, <2>3, <2>4, <2>5, <2>6, <2>7, <2>8, <2>9, <2>10 DEF Gated!Next, Proved!Next
<1> QED
  BY <1>1, <1>2, <1>3, PTL DEF Gated!Spec, Proved!Spec

(* On the Node relay no handler is cut short, so that without exception: an answered post is kept
   under its number, the epoch counts the joins, no session has more members than it was made for,
   a full one is locked, and the wraps of an epoch hold one key once they are posted. *)
SessionIsSafe ==
    /\ \A p \in acked : p[1] \in DOMAIN msg /\ msg[p[1]] = p[2]
    /\ meta # NoMeta => Cardinality(Gated!Members) <= meta.maxMembers
    /\ Gated!EpochCountsJoins
    /\ Gated!LockedWhenFull
    /\ Gated!CreatorFirst
    /\ Gated!OneKeyPerEpoch

(* So what is shown of the engine holds of a session on this host, at every step of its tasks. *)
THEOREM EngineHoldsOnNode == NodeSpec => []SessionIsSafe
<1>1. Proved!Spec => [](/\ Proved!AckedPostsKept /\ Proved!EpochCountsJoins
                        /\ Proved!CapacityRespected /\ Proved!LockedWhenFull
                        /\ Proved!CreatorFirst /\ Proved!OneKeyPerEpoch)
  BY EngineAssumption, Proved!AckedPostsAreKept, Proved!EpochIsJoinCount,
     Proved!CapacityIsRespected, Proved!FullIsLocked, Proved!CreatorComesFirst,
     Proved!OneKeyForEachEpoch, PTL
<1>2. ASSUME Proved!AckedPostsKept, Proved!EpochCountsJoins, Proved!CapacityRespected,
             Proved!LockedWhenFull, Proved!CreatorFirst, Proved!OneKeyPerEpoch
      PROVE  SessionIsSafe
  <2> USE DEF Gated!Idle, Proved!Idle, Gated!Created, Proved!Created, Gated!Members, Proved!Members
  <2>1. \A p \in acked : p[1] \in DOMAIN msg /\ msg[p[1]] = p[2]
    BY <1>2 DEF Proved!AckedPostsKept
  <2>2. \A S : Cardinality(S) = Proved!Cardinality(S) /\ Cardinality(S) = Gated!Cardinality(S)
    BY DEF Proved!Cardinality, Gated!Cardinality, Cardinality
  <2>3. meta # NoMeta => Cardinality(Gated!Members) <= meta.maxMembers
    BY <1>2, <2>2 DEF Proved!CapacityRespected
  <2>4. Gated!EpochCountsJoins
    BY <1>2, <2>2 DEF Gated!EpochCountsJoins, Proved!EpochCountsJoins, Gated!Welcomed, Proved!Welcomed,
                 Gated!Running, Proved!Running
  <2>5. Gated!LockedWhenFull
    BY <1>2, <2>2 DEF Gated!LockedWhenFull, Proved!LockedWhenFull, Gated!Running, Proved!Running
  <2>6. Gated!CreatorFirst
    BY <1>2 DEF Gated!CreatorFirst, Proved!CreatorFirst
  <2>7. Gated!OneKeyPerEpoch
    BY <1>2 DEF Gated!OneKeyPerEpoch, Proved!OneKeyPerEpoch, Gated!Posting, Proved!Posting,
                Gated!OneKey, Proved!OneKey, Gated!Wrapped, Proved!Wrapped
  <2> QED
    BY <2>1, <2>3, <2>4, <2>5, <2>6, <2>7 DEF SessionIsSafe
<1> QED
  BY <1>1, <1>2, SameSpec, ChainReplacesGate, PTL DEF ChainIsGate
=============================================================================

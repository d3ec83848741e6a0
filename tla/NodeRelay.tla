----------------------------- MODULE NodeRelay -----------------------------
(***************************************************************************)
(* The relay of the CLI (packages/cli/src/node-relay.ts): the session engine *)
(* of RelaySession on an in-memory store, behind node:http.  Node has no       *)
(* input gate: the handlers of two requests interleave at every await unless    *)
(* something keeps them apart.  That is a chain of promises: a request becomes  *)
(* a task that starts when the task chained before it has settled, resolved or   *)
(* rejected.                                                                   *)
(*                                                                         *)
(* A task is an instance of the engine with a handler of its own, so that        *)
(* nothing but the chain decides whether two run at once.  One session is        *)
(* modelled: others have their own store and chain.  As the store is memory, no  *)
(* put fails and no handler is cut short; when the process ends, all is gone.     *)
(***************************************************************************)
EXTENDS Integers, Sequences, FiniteSets

CONSTANTS
    Fingerprint, GroupKey, Size, Epoch,   \* as in RelaySession
    NoMeta, NoKey,
    MaxPost,     \* bound: how many messages are posted
    MaxRequest   \* bound: how many requests are made

ASSUME NodeAssumption ==
    /\ IsFiniteSet(Fingerprint)
    /\ Size \subseteq Nat
    /\ Epoch \subseteq Nat
    /\ NoMeta \notin [maxMembers : Nat, locked : BOOLEAN, epoch : Nat, creatorId : Fingerprint]
    /\ NoKey \notin GroupKey
    /\ MaxPost \in Nat
    /\ MaxRequest \in Nat

VARIABLES
    meta, seq, joinedSeq, token, msg, gkey,   \* the MemoryKvStore of the session
    cursor, snap, got, batch, acked,          \* callers and history, as in RelaySession
    requests   \* the requests in the order in which they were chained:
               \* [op, by, at, handler], at being where the task's promise is

nodeStore == <<meta, seq, joinedSeq, token, msg, gkey>>
nodeCallers == <<cursor, snap, got, batch, acked>>
nodeVars == <<nodeStore, nodeCallers, requests>>

Requests == DOMAIN requests
Running == {n \in Requests : requests[n].at = "running"}
Settled(n) == requests[n].at \in {"resolved", "rejected"}

(* The engine as task n runs it, and as the session's callers see it. *)
Engine(n) == INSTANCE RelaySession WITH
    handler <- requests[n].handler, MaxSeq <- MaxPost, MaxCrash <- 0,
    torn <- {}, tornKeys <- {}, crashes <- 0

InHandler == {n \in Running : requests[n].handler # [at |-> "idle"]}
Gated == INSTANCE RelaySession WITH
    handler <- IF InHandler = {} THEN [at |-> "idle"]
                                 ELSE requests[CHOOSE n \in InHandler : TRUE].handler,
    MaxSeq <- MaxPost, MaxCrash <- 0, torn <- {}, tornKeys <- {}, crashes <- 0

NodeInit == requests = <<>> /\ Gated!Init

-----------------------------------------------------------------------------
(* handle: the body is read, then the request is chained.  The session's id is known
   to others once /sessions was answered; a member polls with one request at a time. *)

Op == {"init", "join", "post", "get", "status", "keys", "wait", "garbled"}

Chain(op, fp) ==
    requests' = Append(requests, [op |-> op, by |-> fp, at |-> "chained", handler |-> Gated!Idle])

CreateSession(fp) ==
    /\ requests = <<>>
    /\ Chain("init", fp)
    /\ UNCHANGED <<nodeStore, nodeCallers>>

SessionRequest(op, fp) ==
    /\ Len(requests) \in 1..(MaxRequest - 1)
    /\ Settled(1) /\ meta # NoMeta
    /\ op # "init"
    /\ op = "post" => Cardinality({n \in Requests : requests[n].op = op}) < MaxPost
    /\ op = "get" => \A n \in Requests : requests[n].op = op /\ requests[n].by = fp => Settled(n)
    /\ Chain(op, fp)
    /\ UNCHANGED <<nodeStore, nodeCallers>>

(* Mutants: tasks are not chained; a task runs only after one that resolved. *)
StartAtOnce(n) ==
    /\ requests[n].at = "chained"
    /\ requests' = [requests EXCEPT ![n].at = "running"]
    /\ UNCHANGED <<nodeStore, nodeCallers>>
StartAfterResolved(n) ==
    /\ requests[n].at = "chained"
    /\ n > 1 => requests[n - 1].at = "resolved"
    /\ requests' = [requests EXCEPT ![n].at = "running"]
    /\ UNCHANGED <<nodeStore, nodeCallers>>

(* serialize: prev.then(task, task). *)
Start(n) ==
    /\ requests[n].at = "chained"
    /\ n > 1 => Settled(n - 1)
    /\ requests' = [requests EXCEPT ![n].at = "running"]
    /\ UNCHANGED <<nodeStore, nodeCallers>>

-----------------------------------------------------------------------------
(* dispatchSession.  The first step of a handler, and those that follow; a read is one
   with the put that comes after it. *)
First(n) ==
    LET op == requests[n].op  fp == requests[n].by IN
    \/ op = "init" /\ \E size \in Size : Engine(n)!InitMeta(fp, size)
    \/ op = "join" /\ Engine(n)!JoinMember(fp)
    \/ op = "post" /\ Engine(n)!PostSeq(fp)
    \/ op = "get" /\ Engine(n)!GetMessages(fp)
    \/ op = "status" /\ Engine(n)!Status(fp)
    \/ op = "keys" /\ \E gk \in GroupKey : Engine(n)!PostKeys(fp, gk)

Later(n) ==
    \/ Engine(n)!InitMember
    \/ Engine(n)!InitToken
    \/ Engine(n)!JoinMeta
    \/ Engine(n)!PostMsg
    \/ \E fp \in Fingerprint : Engine(n)!PostWrap(fp)
    \/ Engine(n)!KeysPosted

(* Where a handler may stand after a step; only key posts go through the wraps. *)
Stops(n) ==
    {Gated!Idle}
    \cup IF requests[n].op = "keys" THEN {h \in Gated!Handler : h.at = "postWraps"}
         ELSE [at : {"initMember", "initToken", "joinMeta", "postMsg"}, by : {requests[n].by}]

(* The handler moves on; with its last step the promise resolves and is answered 200. *)
Work(n) ==
    /\ n \in Running
    /\ \E h \in Stops(n) :
         requests' = [requests EXCEPT ![n].handler = h,
                                      ![n].at = IF h = Gated!Idle THEN "resolved" ELSE @]
    /\ First(n) \/ Later(n)

(* A SessionError, the 401 of one who is no member, and the 404 of /wait, which this
   host does not know, are answers; so is a /status of another than the key-holder. *)
Refused(n) ==
    LET op == requests[n].op  fp == requests[n].by IN
    \/ op = "wait"
    \/ op = "init" /\ \E size \in Size : size < 2
    \/ op = "join" /\ ~Gated!MayJoin(fp)
    \/ op \in {"post", "get", "status", "keys"} /\ fp \notin Gated!Members
    \/ op \in {"status", "keys"} /\ meta # NoMeta /\ fp # meta.creatorId
    \/ op = "keys" /\ snap.members = {}

Refuse(n) ==
    /\ n \in Running \ InHandler
    /\ Refused(n)
    /\ requests' = [requests EXCEPT ![n].at = "resolved"]
    /\ UNCHANGED <<nodeStore, nodeCallers>>

(* The body of a /join was not JSON and reads as undefined: the handler throws, the
   task's promise is rejected, and the answer is a 500. *)
Throw(n) ==
    /\ n \in Running
    /\ requests[n].op = "garbled"
    /\ requests' = [requests EXCEPT ![n].at = "rejected"]
    /\ UNCHANGED <<nodeStore, nodeCallers>>

Turn(n) ==
    \/ Start(n)
    \/ Work(n)
    \/ Refuse(n)
    \/ Throw(n)

NodeNext ==
    \/ \E fp \in Fingerprint : CreateSession(fp)
    \/ \E op \in Op, fp \in Fingerprint : SessionRequest(op, fp)
    \/ \E n \in Requests : Turn(n)

NodeSpec == NodeInit /\ [][NodeNext]_nodeVars

(* The event loop runs on while a task can: every await in one is of a promise that is
   resolved at once.  Nobody need make a request. *)
NodeFairness == WF_nodeVars(\E n \in Requests : Turn(n))

-----------------------------------------------------------------------------
(* The chain does what the Durable Object's input gate does ("replacing the Durable
   Object's blockConcurrencyWhile", node-relay.ts:21): the session is a RelaySession that
   is never reset, in which a handler starts only when no other is between two puts. *)
ChainIsGate == Gated!Spec

(* Every request is answered in the end, whatever was refused or thrown before it. *)
EveryoneAnswered == \A n \in 1..MaxRequest : n \in Requests ~> n \in Requests /\ Settled(n)

=============================================================================

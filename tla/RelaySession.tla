---------------------------- MODULE RelaySession ----------------------------
(***************************************************************************)
(* One session of the blind relay (apps/relay/src/session.ts) on its       *)
(* key-value store.  The Durable Object runs one handler at a time, but a  *)
(* handler awaits its puts one by one: between two puts the object may be   *)
(* reset, by an eviction or by a put that throws, and the puts not yet made *)
(* are lost while the ones made stay.  So every put is a step, no handler   *)
(* starts before the running one ended, and Crash may end it anywhere.      *)
(*                                                                         *)
(* Left out: the request signatures (a caller is who it says it is), the    *)
(* ciphertext, and the answers that change nothing (401, 403, 404, 409,     *)
(* 423), which show only as the handler not being enabled.                  *)
(***************************************************************************)
EXTENDS Integers, FiniteSets

CONSTANTS
    Fingerprint,  \* the identities that may call
    GroupKey,     \* the group keys a key-holder may wrap
    Size,         \* the values of maxMembers an /init may carry
    Epoch,        \* bound: the epochs a key may be posted for
    MaxSeq,       \* bound: how many messages are posted
    MaxCrash,     \* bound: how often the object is reset
    NoMeta, NoKey \* "no such key in the store"

VARIABLES
    \* the store, one variable per family of keys
    meta,         \* "meta"
    seq,          \* "seq"; absent reads as 0
    joinedSeq,    \* "member:<fp>".joinedSeq; -1 when fp is not registered
    token,        \* whether "token:<hash>" of the invite is there
    msg,          \* "msg:<n>", the author stands for the message
    gkey,         \* "gkey:<epoch>:<fp>", the key wrapped there
    \* memory
    handler,      \* the handler between two of its puts, or Idle
    \* the callers
    cursor,       \* cursor[fp]: the cursor the last poll of fp returned
    snap,         \* the /status answer the key-holder last got
    \* history
    got,          \* got[fp]: what the polls of fp returned so far
    batch,        \* batch[fp]: what its last poll returned
    acked,        \* the posts answered 200, as <<number, author>>
    torn,         \* the members whose /join a crash cut short
    tornKeys,     \* the epochs whose last key post a crash cut short
    crashes

store == <<meta, seq, joinedSeq, token, msg, gkey>>
callers == <<cursor, snap>>
history == <<got, batch, acked, torn, tornKeys, crashes>>
vars == <<store, handler, callers, history>>

Meta == [maxMembers : Nat, locked : BOOLEAN, epoch : Nat, creatorId : Fingerprint]

Idle == [at |-> "idle"]
Handler ==
    {Idle}
    \cup [at : {"initMember", "initToken", "joinMeta", "postMsg"}, by : Fingerprint]
    \cup [at : {"postWraps"}, epoch : Epoch, key : GroupKey,
          all : SUBSET Fingerprint, left : SUBSET Fingerprint]

ASSUME RelayAssumption ==
    /\ IsFiniteSet(Fingerprint)
    /\ Size \subseteq Nat
    /\ Epoch \subseteq Nat
    /\ MaxSeq \in Nat
    /\ MaxCrash \in Nat
    /\ NoMeta \notin Meta
    /\ NoKey \notin GroupKey

Created == meta # NoMeta
Members == {fp \in Fingerprint : joinedSeq[fp] >= 0}
MaxOf(S) == CHOOSE n \in S : \A k \in S : k <= n

Init ==
    /\ meta = NoMeta
    /\ seq = 0
    /\ joinedSeq = [fp \in Fingerprint |-> -1]
    /\ token = FALSE
    /\ msg = [n \in {} |-> n]
    /\ gkey = [w \in Epoch \X Fingerprint |-> NoKey]
    /\ handler = Idle
    /\ cursor = [fp \in Fingerprint |-> 0]
    /\ snap = [epoch |-> 0, members |-> {}]
    /\ got = [fp \in Fingerprint |-> {}]
    /\ batch = [fp \in Fingerprint |-> {}]
    /\ acked = {}
    /\ torn = {}
    /\ tornKeys = {}
    /\ crashes = 0

-----------------------------------------------------------------------------
(* Session.init: meta (and "seq" 0), then the creator, then the token.       *)

(* Mutant: the token is minted with the session instead of last. *)
InitMetaWithToken(fp, n) ==
    /\ handler = Idle
    /\ ~Created
    /\ n >= 2
    /\ meta' = [maxMembers |-> n, locked |-> FALSE, epoch |-> 0, creatorId |-> fp]
    /\ token' = TRUE
    /\ handler' = [at |-> "initMember", by |-> fp]
    /\ UNCHANGED <<seq, joinedSeq, msg, gkey, callers, history>>

InitMeta(fp, n) ==
    /\ handler = Idle
    /\ ~Created
    /\ n >= 2
    /\ meta' = [maxMembers |-> n, locked |-> FALSE, epoch |-> 0, creatorId |-> fp]
    /\ handler' = [at |-> "initMember", by |-> fp]
    /\ UNCHANGED <<seq, joinedSeq, token, msg, gkey, callers, history>>

InitMember ==
    /\ handler.at = "initMember"
    /\ joinedSeq' = [joinedSeq EXCEPT ![handler.by] = 0]
    /\ handler' = [at |-> "initToken", by |-> handler.by]
    /\ UNCHANGED <<meta, seq, token, msg, gkey, callers, history>>

InitToken ==
    /\ handler.at = "initToken"
    /\ token' = TRUE
    /\ handler' = Idle
    /\ UNCHANGED <<meta, seq, joinedSeq, msg, gkey, callers, history>>

-----------------------------------------------------------------------------
(* Session.join: the member, then meta with the next epoch and the lock.     *)

MayJoin(fp) == Created /\ ~meta.locked /\ token /\ fp \notin Members

JoinMember(fp) ==
    /\ handler = Idle
    /\ MayJoin(fp)
    /\ joinedSeq' = [joinedSeq EXCEPT ![fp] = seq]
    /\ handler' = [at |-> "joinMeta", by |-> fp]
    /\ UNCHANGED <<meta, seq, token, msg, gkey, callers, history>>

(* Mutant: locks one member too late. *)
JoinedMetaLateLock ==
    [meta EXCEPT !.epoch = @ + 1,
                 !.locked = @ \/ Cardinality(Members) > meta.maxMembers]

(* Mutant: the join that fills the session makes no new epoch. *)
JoinedMetaLastJoinKeepsEpoch ==
    IF Cardinality(Members) >= meta.maxMembers
      THEN [meta EXCEPT !.locked = TRUE]
      ELSE [meta EXCEPT !.epoch = @ + 1]

JoinedMeta ==
    [meta EXCEPT !.epoch = @ + 1,
                 !.locked = @ \/ Cardinality(Members) >= meta.maxMembers]

JoinMeta ==
    /\ handler.at = "joinMeta"
    /\ meta' = JoinedMeta
    /\ handler' = Idle
    /\ UNCHANGED <<seq, joinedSeq, token, msg, gkey, callers, history>>

-----------------------------------------------------------------------------
(* Session.postMessage: the new "seq", then the message under it.            *)

(* Mutant: numbers the messages of each author, not those of the session. *)
PostSeqPerAuthor(fp) ==
    /\ handler = Idle
    /\ Created
    /\ fp \in Members
    /\ seq < MaxSeq
    /\ seq' = Cardinality({n \in DOMAIN msg : msg[n] = fp}) + 1
    /\ handler' = [at |-> "postMsg", by |-> fp]
    /\ UNCHANGED <<meta, joinedSeq, token, msg, gkey, callers, history>>

PostSeq(fp) ==
    /\ handler = Idle
    /\ Created
    /\ fp \in Members
    /\ seq < MaxSeq
    /\ seq' = seq + 1
    /\ handler' = [at |-> "postMsg", by |-> fp]
    /\ UNCHANGED <<meta, joinedSeq, token, msg, gkey, callers, history>>

PostMsg ==
    /\ handler.at = "postMsg"
    /\ msg' = [n \in DOMAIN msg \cup {seq} |-> IF n = seq THEN handler.by ELSE msg[n]]
    /\ acked' = acked \cup {<<seq, handler.by>>}
    /\ handler' = Idle
    /\ UNCHANGED <<meta, seq, joinedSeq, token, gkey, callers, got, batch, torn, tornKeys, crashes>>

(* Session.getMessages: the numbers after the cursor, and the new cursor. *)
After(c) == {n \in DOMAIN msg : n > c}
(* Mutants: the cursor is the next number to read; the first number read. *)
CursorAfterNext(c) == IF After(c) = {} THEN c ELSE MaxOf(After(c)) + 1
CursorAfterFirst(c) ==
    IF After(c) = {} THEN c ELSE CHOOSE n \in After(c) : \A k \in After(c) : n <= k
CursorAfter(c) == IF After(c) = {} THEN c ELSE MaxOf(After(c))

(* A member polls from the cursor its last poll returned. *)
GetMessages(fp) ==
    /\ handler = Idle
    /\ fp \in Members
    /\ batch' = [batch EXCEPT ![fp] = {<<n, msg[n]>> : n \in After(cursor[fp])}]
    /\ got' = [got EXCEPT ![fp] = @ \cup {<<n, msg[n]>> : n \in After(cursor[fp])}]
    /\ cursor' = [cursor EXCEPT ![fp] = CursorAfter(@)]
    /\ UNCHANGED <<store, handler, snap, acked, torn, tornKeys, crashes>>

-----------------------------------------------------------------------------
(* Session.status, asked by the key-holder, and Session.postKeys with the    *)
(* wraps for the members of that answer, however old the answer is by then.  *)

Status(fp) ==
    /\ handler = Idle
    /\ Created
    /\ fp \in Members
    /\ fp = meta.creatorId
    /\ meta.epoch \in Epoch
    /\ snap' = [epoch |-> meta.epoch, members |-> Members]
    /\ UNCHANGED <<store, handler, cursor, history>>

(* Mutant: wraps the key only for the members that have none yet. *)
PostKeysToNew(fp, gk) ==
    /\ handler = Idle
    /\ Created
    /\ fp \in Members
    /\ fp = meta.creatorId
    /\ snap.members # {}
    /\ handler' = [at |-> "postWraps", epoch |-> snap.epoch, key |-> gk,
                   all |-> snap.members,
                   left |-> {f \in snap.members : gkey[<<snap.epoch, f>>] = NoKey}]
    /\ UNCHANGED <<store, callers, history>>

PostKeys(fp, gk) ==
    /\ handler = Idle
    /\ Created
    /\ fp \in Members
    /\ fp = meta.creatorId
    /\ snap.members # {}
    /\ handler' = [at |-> "postWraps", epoch |-> snap.epoch, key |-> gk,
                   all |-> snap.members, left |-> snap.members]
    /\ UNCHANGED <<store, callers, history>>

(* One put of the loop over the wraps. *)
PostWrap(fp) ==
    /\ handler.at = "postWraps"
    /\ fp \in handler.left
    /\ gkey' = [gkey EXCEPT ![<<handler.epoch, fp>>] = handler.key]
    /\ handler' = [handler EXCEPT !.left = @ \ {fp}]
    /\ UNCHANGED <<meta, seq, joinedSeq, token, msg, callers, history>>

KeysPosted ==
    /\ handler.at = "postWraps"
    /\ handler.left = {}
    /\ tornKeys' = tornKeys \ {handler.epoch}
    /\ handler' = Idle
    /\ UNCHANGED <<store, callers, got, batch, acked, torn, crashes>>

-----------------------------------------------------------------------------
(* The object is reset inside a handler: the rest of its puts never happen.  *)
Crash ==
    /\ handler # Idle
    /\ crashes < MaxCrash
    /\ crashes' = crashes + 1
    /\ torn' = IF handler.at = "joinMeta" THEN torn \cup {handler.by} ELSE torn
    /\ tornKeys' = IF handler.at = "postWraps" /\ handler.left # handler.all
                     THEN tornKeys \cup {handler.epoch} ELSE tornKeys
    /\ handler' = Idle
    /\ UNCHANGED <<store, callers, got, batch, acked>>

Next ==
    \/ \E fp \in Fingerprint, n \in Size : InitMeta(fp, n)
    \/ InitMember
    \/ InitToken
    \/ \E fp \in Fingerprint : JoinMember(fp)
    \/ JoinMeta
    \/ \E fp \in Fingerprint : PostSeq(fp)
    \/ PostMsg
    \/ \E fp \in Fingerprint : GetMessages(fp)
    \/ \E fp \in Fingerprint : Status(fp)
    \/ \E fp \in Fingerprint, gk \in GroupKey : PostKeys(fp, gk)
    \/ \E fp \in Fingerprint : PostWrap(fp)
    \/ KeysPosted
    \/ Crash

Spec == Init /\ [][Next]_vars

-----------------------------------------------------------------------------
(* Every variable has its type; only an /init that has written its meta has a
   second put to make, and so has every other handler. *)
TypeOK ==
    /\ meta \in Meta \cup {NoMeta}
    /\ seq \in 0..MaxSeq
    /\ joinedSeq \in [Fingerprint -> -1..MaxSeq]
    /\ token \in BOOLEAN
    /\ DOMAIN msg \subseteq 0..MaxSeq
    /\ msg \in [DOMAIN msg -> Fingerprint]
    /\ gkey \in [Epoch \X Fingerprint -> GroupKey \cup {NoKey}]
    /\ handler \in Handler
    /\ handler # Idle => Created
    /\ cursor \in [Fingerprint -> 0..MaxSeq]
    /\ snap \in [epoch : Nat, members : SUBSET Fingerprint]
    /\ snap.members # {} => snap.epoch \in Epoch
    /\ got \in [Fingerprint -> SUBSET ((0..MaxSeq) \X Fingerprint)]
    /\ batch \in [Fingerprint -> SUBSET ((0..MaxSeq) \X Fingerprint)]
    /\ acked \subseteq (0..MaxSeq) \X Fingerprint
    /\ torn \subseteq Fingerprint
    /\ tornKeys \subseteq Epoch
    /\ crashes \in 0..MaxCrash

(* A member that joined and was told so: not the creator, not the member whose
   /join is running, not one whose /join was cut short. *)
Running(step) == IF handler.at = step THEN {handler.by} ELSE {}
Welcomed == Members \ ({meta.creatorId} \cup torn \cup Running("joinMeta"))

(* The epoch counts the joins that were answered, so that each of them made a
   new key generation (session.ts:147), whatever was cut short meanwhile. *)
EpochCountsJoins == Created => meta.epoch = Cardinality(Welcomed)

(* maxMembers bounds the members a lock could have counted (session.ts:149):
   only joins cut short between their two puts come on top of it. *)
CapacityRespected == Created => Cardinality(Members \ torn) <= meta.maxMembers

(* A full session is locked ("lock when maxMembers reached", session.ts:126), the
   members counted that no cut-short join left behind. *)
LockedWhenFull ==
    Created /\ Cardinality(Members \ (torn \cup Running("joinMeta"))) >= meta.maxMembers
        => meta.locked

(* Whoever can be registered finds the creator registered, so that a joiner
   never meets "creator not present in session" (local server.ts:192), even on
   a session whose /init was cut short. *)
CreatorFirst == Members # {} => Created /\ meta.creatorId \in Members

(* A post that was answered with a number is stored under that number for good
   (session.ts:174-181), through every later post and crash. *)
AckedPostsKept == \A p \in acked : p[1] \in DOMAIN msg /\ msg[p[1]] = p[2]

(* Whatever the members that were handed a key for an epoch, they were handed the
   same one, although the holder may post again for an epoch and from an old
   status answer; only a key post that was cut short may leave two. *)
Wrapped(e, fp) == gkey[<<e, fp>>] # NoKey
OneKey(e) ==
    \A f, g \in Fingerprint : Wrapped(e, f) /\ Wrapped(e, g) => gkey[<<e, f>>] = gkey[<<e, g>>]
Posting(e) == handler.at = "postWraps" /\ handler.epoch = e
OneKeyPerEpoch == \A e \in Epoch \ tornKeys : Posting(e) \/ OneKey(e)

(* The relay's messages are a MessageFeed: what each poller has got by its
   cursor is exactly the stored messages up to it, in every interleaving of
   posts, polls and crashes. *)
Feed == INSTANCE MessageFeed WITH
            Author <- Fingerprint,
            Reader <- Fingerprint,
            Number <- 1..MaxSeq,
            log <- {<<n, msg[n]>> : n \in DOMAIN msg},
            seen <- got
RefinesFeed == Feed!Spec

=============================================================================

----------------------------- MODULE Transcript -----------------------------
(***************************************************************************)
(* The proof bundle of a session and its verification with no network and no  *)
(* private key (packages/core/src/transcript.ts).  The members of a session    *)
(* sign messages on the chain as they see it, one of them exports the bundle   *)
(* (RandevuLocal.exportTranscript), and on its way to whoever verifies it parts *)
(* of any kind may be lost, changed, or signed with a key of no member.        *)
(*                                                                         *)
(* Hashes do not collide and signatures fit only what was signed.  So the k-th  *)
(* message of the session has digest k, and an envelope no member signed has    *)
(* one unlike all others, written 0; a chain hash is the sequence of digests     *)
(* folded into it.  A key is named by the member that signs with it, which is    *)
(* also the fingerprint of that key.  Left out: text, and the types that        *)
(* verification does not tell from "message".                                 *)
(***************************************************************************)
EXTENDS Integers, Sequences, FiniteSets

CONSTANTS
    Signer,     \* the members of the session
    SealEpoch,  \* the epochs messages may be sealed for
    JoinedAt,   \* JoinedAt[p]: the first epoch that p was given a key of
    Foreign,    \* a key of no member
    Absent,     \* "no bundle", "no head"
    MaxMessage, \* bound: how many messages are signed
    MaxStep     \* bound: how many times the bundle is damaged and messages are signed, in all

ASSUME TranscriptAssumption ==
    /\ IsFiniteSet(Signer)
    /\ Foreign \notin Signer
    /\ SealEpoch \subseteq Nat
    /\ JoinedAt \in [Signer -> SealEpoch]
    /\ MaxMessage \in Nat
    /\ MaxStep \in Nat

VARIABLES
    signed,    \* the envelopes signed, as the relay numbered them
    exporter,  \* who made the bundle
    bundle,    \* [members, keys, messages, head], or Absent
    damage     \* how often the bundle was damaged

transcriptVars == <<signed, exporter, bundle, damage>>

IdentityKey == Signer \cup {Foreign}
Type == {"message", "accept"}
MemberEntry == [identityPub : IdentityKey, did : IdentityKey]

TranscriptInit ==
    /\ signed = <<>>
    /\ exporter = Absent
    /\ bundle = Absent
    /\ damage = 0

-----------------------------------------------------------------------------
(* The session.                                                              *)

HeadOf(k) == [i \in 1..k |-> i]

(* signTranscriptHead: the heads the members may have signed in exports so far. *)
HeadBy(p, k) == [lastSeq |-> k, hash |-> HeadOf(k), signer |-> p, by |-> p]
Heads == {HeadBy(p, k) : p \in Signer, k \in 0..Len(signed)}

(* RandevuLocal.send: p signs on the head it pulled; another's message may come
   to be stored before its own.  A ref names an earlier message by its digest. *)
SignMessage(p, e, t, ref, behind) ==
    /\ bundle = Absent
    /\ Len(signed) < MaxMessage
    /\ e >= JoinedAt[p]
    /\ ref <= Len(signed) - behind /\ behind <= Len(signed)
    /\ signed' = Append(signed, [sender |-> p, epoch |-> e, type |-> t, ref |-> ref,
                                 prev |-> HeadOf(Len(signed) - behind), nonce |-> Len(signed) + 1])
    /\ UNCHANGED <<exporter, bundle, damage>>

Signature(key, env) == [by |-> key, of |-> env]

(* RandevuLocal.exportTranscript, by a member that has asked for the status in every
   epoch since it joined: it knows all members and holds the keys of those epochs. *)
Export(p) ==
    /\ bundle = Absent
    /\ exporter' = p
    /\ bundle' = [members |-> [q \in Signer |-> [identityPub |-> q, did |-> q]],
                  keys |-> {e \in SealEpoch : e >= JoinedAt[p]},
                  messages |-> [k \in DOMAIN signed |->
                                 [seq |-> k, env |-> signed[k],
                                  signature |-> Signature(signed[k].sender, signed[k]),
                                  decodable |-> TRUE]],
                  head |-> HeadBy(p, Len(signed))]
    /\ UNCHANGED <<signed, damage>>

-----------------------------------------------------------------------------
(* The bundle on its way.                                                    *)

Digest(env) == IF \E k \in DOMAIN signed : signed[k] = env THEN env.nonce ELSE 0

(* The messages in the order of their numbers; those with one number stay as they are. *)
Ordered(s) ==
    LET Precedes(j, i) == s[j].seq < s[i].seq \/ (s[j].seq = s[i].seq /\ j < i)
    IN [r \in DOMAIN s |->
          s[CHOOSE i \in DOMAIN s : Cardinality({j \in DOMAIN s : Precedes(j, i)}) = r - 1]]

Presented == LET o == Ordered(bundle.messages) IN [i \in DOMAIN o |-> Digest(o[i].env)]

Damaged(b) ==
    /\ bundle # Absent
    /\ damage + Len(signed) < MaxStep
    /\ damage' = damage + 1
    /\ bundle' = b
    /\ UNCHANGED <<signed, exporter>>

Messages(s) == [bundle EXCEPT !.messages = s]
Changed(i, entry) == Messages([bundle.messages EXCEPT ![i] = entry])

LoseMessage(i) ==
    LET s == bundle.messages IN
    Damaged(Messages(SubSeq(s, 1, i - 1) \o SubSeq(s, i + 1, Len(s))))
Repeat(i) == Damaged(Messages(Append(bundle.messages, bundle.messages[i])))
Renumber(i, n) == Damaged(Changed(i, [bundle.messages[i] EXCEPT !.seq = n]))
ChangeEnvelope(i, env) == Damaged(Changed(i, [bundle.messages[i] EXCEPT !.env = env]))
SignAnew(i, env) ==
    Damaged(Changed(i, [bundle.messages[i] EXCEPT !.env = env,
                                                  !.signature = Signature(Foreign, env)]))
Garble(i) == Damaged(Changed(i, [bundle.messages[i] EXCEPT !.decodable = FALSE]))
LoseKey(e) == Damaged([bundle EXCEPT !.keys = @ \ {e}])
LoseMember(p) ==
    Damaged([bundle EXCEPT !.members = [q \in (DOMAIN @) \ {p} |-> @[q]]])
(* An entry whose key or did does not fit its name. *)
ChangeMember(p, entry) == Damaged([bundle EXCEPT !.members[p] = entry])
(* An older export leaves an older head. *)
ReplaceHead(h) == Damaged([bundle EXCEPT !.head = h])

(* The envelope of entry i with another ref, type or sender. *)
Altered(i) ==
    LET env == bundle.messages[i].env IN
    {[env EXCEPT !.ref = ref] : ref \in 0..Len(signed)}
      \cup {[env EXCEPT !.type = t] : t \in Type}
      \cup {[env EXCEPT !.sender = p] : p \in Signer}

(* A head over what the bundle presents, in the name of p but signed with a foreign key. *)
ForeignHead(p) ==
    [lastSeq |-> Len(bundle.messages), hash |-> Presented, signer |-> p, by |-> Foreign]

Damage ==
    /\ bundle # Absent
    /\ \/ \E i \in DOMAIN bundle.messages :
            \/ LoseMessage(i)
            \/ Repeat(i)
            \/ \E n \in 1..MaxMessage : Renumber(i, n)
            \/ \E env \in Altered(i) : ChangeEnvelope(i, env) \/ SignAnew(i, env)
            \/ Garble(i)
       \/ \E e \in bundle.keys : LoseKey(e)
       \/ \E p \in DOMAIN bundle.members :
            LoseMember(p) \/ \E entry \in MemberEntry : ChangeMember(p, entry)
       \/ \E h \in Heads \cup {ForeignHead(p) : p \in Signer} \cup {Absent} : ReplaceHead(h)

TranscriptNext ==
    \/ \E p \in Signer, e \in SealEpoch, t \in Type, ref \in 0..MaxMessage, behind \in 0..1 :
         SignMessage(p, e, t, ref, behind)
    \/ \E p \in Signer : Export(p)
    \/ Damage

TranscriptSpec == TranscriptInit /\ [][TranscriptNext]_transcriptVars

-----------------------------------------------------------------------------
(* verifyTranscript.                                                         *)

(* The head once messages o[1..i] are folded; what cannot be decoded is left out. *)
ChainHead(o, i) ==
    LET folded == {j \in 1..i : o[j].decodable}
    IN [r \in 1..Cardinality(folded) |->
          Digest(o[CHOOSE j \in folded : Cardinality({k \in folded : k < j}) = r - 1].env)]

(* The key listed under the sender's name is taken, whether or not it fits the name. *)
SignatureValid(b, m) ==
    /\ m.decodable
    /\ m.env.sender \in DOMAIN b.members
    /\ m.signature = Signature(b.members[m.env.sender].identityPub, m.env)

(* Mutant: the first message is not compared with the empty head. *)
ChainValidFromSecond(o, i) == o[i].decodable /\ (i = 1 \/ o[i].env.prev = ChainHead(o, i - 1))
ChainValid(o, i) == o[i].decodable /\ o[i].env.prev = ChainHead(o, i - 1)

(* Mutant: tries the newest key only. *)
DecryptsNewest(b, m) ==
    SignatureValid(b, m) /\ m.env.epoch \in b.keys /\ \A e \in b.keys : e <= m.env.epoch
Decrypts(b, m) == SignatureValid(b, m) /\ m.env.epoch \in b.keys

(* Mutant: does not look at the hash. *)
HeadValidByNumber(b, o) ==
    \/ b.head = Absent
    \/ /\ b.head.signer \in DOMAIN b.members
       /\ b.head.by = b.members[b.head.signer].identityPub
       /\ b.head.lastSeq = IF o = <<>> THEN 0 ELSE o[Len(o)].seq
HeadValid(b, o) ==
    \/ b.head = Absent
    \/ /\ b.head.signer \in DOMAIN b.members
       /\ b.head.by = b.members[b.head.signer].identityPub
       /\ b.head.hash = ChainHead(o, Len(o))
       /\ b.head.lastSeq = IF o = <<>> THEN 0 ELSE o[Len(o)].seq

MembersValid(b) ==
    /\ DOMAIN b.members # {}
    /\ \A p \in DOMAIN b.members : b.members[p] = [identityPub |-> p, did |-> p]

Valid(b) ==
    LET o == Ordered(b.messages) IN
    /\ MembersValid(b)
    /\ \A i \in DOMAIN o : SignatureValid(b, o[i]) /\ ChainValid(o, i) /\ Decrypts(b, o[i])
    /\ HeadValid(b, o)

(* The message a ref names: the last that has its digest. *)
Named(o, ref) == {i \in DOMAIN o : o[i].decodable /\ Digest(o[i].env) = ref}
LastOf(S) == CHOOSE i \in S : \A j \in S : j <= i

(* Mutant: an accept counts whoever signed it. *)
AcceptsUnsigned(b, o) ==
    {i \in DOMAIN o : o[i].env.type = "accept" /\ o[i].env.ref # 0 /\ ChainValid(o, i)}
Accepts(b, o) ==
    {i \in DOMAIN o : /\ o[i].env.type = "accept" /\ o[i].env.ref # 0
                      /\ SignatureValid(b, o[i]) /\ ChainValid(o, i)}

(* The agreements reported; 0 and Absent stand for null. *)
Agreements(b) ==
    LET o == Ordered(b.messages) IN
    {LET ref == o[i].env.ref
         named == Named(o, ref)
         m == o[LastOf(named)]
     IN [accepter |-> o[i].env.sender, acceptsId |-> ref,
         acceptedSenderId |-> IF named = {} THEN Absent ELSE m.env.sender,
         acceptedBody |-> IF named # {} /\ Decrypts(b, m) THEN m.env.nonce ELSE 0]
     : i \in Accepts(b, o)}

-----------------------------------------------------------------------------
Exported == bundle # Absent
Forked == \E k \in DOMAIN signed : signed[k].prev # HeadOf(k - 1)

(* A bundle that verifies with a head presents exactly the messages its signer had
   exported, all of them and in order (transcript.ts:246-266). *)
HeadCommits ==
    Exported /\ Valid(bundle) /\ bundle.head # Absent
        => Presented = HeadOf(bundle.head.lastSeq)

(* When nobody signed on an old head, a bundle that verifies presents a beginning of
   the session, in order and with nothing left out of it, even without a head
   (transcript.ts:14-17). *)
ChainCommits ==
    Exported /\ Valid(bundle) /\ ~Forked => Presented = HeadOf(Len(Presented))

(* An export that came through whole verifies, unless two messages were signed on
   one head or the exporter joined after a message was sealed: the proof of a late
   joiner does not verify (MCP-API.md:53-54 names no such limit). *)
WholeVerifies ==
    Exported /\ damage = 0 =>
        (Valid(bundle) <=>
            \A i \in DOMAIN bundle.messages :
                /\ signed[i].prev = HeadOf(i - 1)
                /\ signed[i].epoch >= JoinedAt[exporter])

(* An agreement reported was signed by its accepter as an accept, of a message that came
   before; and the sender and terms shown with it are those of that message
   (transcript.ts:83-89), even when the rest of the bundle does not verify.  Except when the
   bundle lists another key under the accepter's name: the agreements are reported whatever
   became of membersValid (transcript.ts:138, 232-233), so that the reader has to ask for it. *)
AgreementsAreSigned ==
    Exported => \A a \in Agreements(bundle) :
        bundle.members[a.accepter].identityPub = a.accepter =>
            /\ \E k \in DOMAIN signed :
                 /\ signed[k].sender = a.accepter /\ signed[k].type = "accept"
                 /\ signed[k].ref = a.acceptsId /\ a.acceptsId < k
            /\ a.acceptedSenderId # Absent => a.acceptedSenderId = signed[a.acceptsId].sender
            /\ a.acceptedBody # 0 => a.acceptedBody = a.acceptsId

=============================================================================

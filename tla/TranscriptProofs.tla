-------------------------- MODULE TranscriptProofs --------------------------
(***************************************************************************)
(* Theorems on Transcript: what a bundle that verifies says of the messages    *)
(* that were signed, for any members, epochs, messages and damage.  The chain    *)
(* needs no induction: a genuine message says by its prev which place it has.    *)
(***************************************************************************)
EXTENDS Transcript, FunctionTheorems, FiniteSetTheorems, WellFoundedInduction, TLAPS

-----------------------------------------------------------------------------
(* Ranks.                                                                    *)

(* In a finite linear order each rank is taken. *)
LEMMA EveryRankIsTaken ==
    ASSUME NEW n \in Nat, NEW R,
           \A i \in 1..n : <<i, i>> \notin R,
           \A i, j \in 1..n : i # j => <<i, j>> \in R \/ <<j, i>> \in R,
           \A i, j, k \in 1..n : <<i, j>> \in R /\ <<j, k>> \in R => <<i, k>> \in R
    PROVE  \A r \in 1..n : \E i \in 1..n : Cardinality({j \in 1..n : <<j, i>> \in R}) = r - 1
<1> DEFINE S == 1..n
           Before(i) == {j \in S : <<j, i>> \in R}
           rank == [i \in S |-> Cardinality(Before(i)) + 1]
<1>1. IsFiniteSet(S) /\ Cardinality(S) = n
  BY FS_Interval
<1>2. \A i \in S : Before(i) \in SUBSET S /\ Before(i) # S
  OBVIOUS
<1>3. \A i, j \in S : <<i, j>> \in R => Before(i) \in SUBSET Before(j) /\ Before(i) # Before(j)
  OBVIOUS
<1>4. \A i \in S : rank[i] = Cardinality(Before(i)) + 1
  OBVIOUS
<1>5. DOMAIN rank = S /\ rank = [i \in S |-> rank[i]]
  OBVIOUS
<1> HIDE DEF Before, rank
<1>6. \A i \in S : IsFiniteSet(Before(i)) /\ Cardinality(Before(i)) \in 0..(n - 1)
  <2> SUFFICES ASSUME NEW i \in S
               PROVE  IsFiniteSet(Before(i)) /\ Cardinality(Before(i)) \in 0..(n - 1)
    OBVIOUS
  <2> HIDE DEF S
  <2>1. /\ IsFiniteSet(Before(i))
        /\ Cardinality(Before(i)) <= Cardinality(S)
        /\ Cardinality(S) # Cardinality(Before(i))
    BY <1>1, <1>2, FS_Subset
  <2>2. Cardinality(Before(i)) \in Nat
    BY <2>1, FS_CardinalityType
  <2> QED
    BY <1>1, <2>1, <2>2
<1>7. \A i, j \in S : <<i, j>> \in R => rank[i] < rank[j]
  <2> SUFFICES ASSUME NEW i \in S, NEW j \in S, <<i, j>> \in R PROVE rank[i] < rank[j]
    OBVIOUS
  <2>1. /\ Cardinality(Before(i)) <= Cardinality(Before(j))
        /\ Cardinality(Before(j)) # Cardinality(Before(i))
    <3>1. IsFiniteSet(Before(j)) /\ Before(i) \in SUBSET Before(j) /\ Before(i) # Before(j)
      BY <1>3, <1>6
    <3> QED
      BY <3>1, FS_Subset
  <2>2. Cardinality(Before(i)) \in Nat /\ Cardinality(Before(j)) \in Nat
    BY <1>6
  <2> QED
    BY <1>4, <2>1, <2>2
<1>8. rank \in Injection(S, S)
  <2>1. \A i \in S : rank[i] \in S
    BY <1>4, <1>6
  <2>2. rank \in [S -> S]
    <3> HIDE DEF S
    <3> QED
      BY <1>5, <2>1
  <2>3. \A i, j \in S : rank[i] = rank[j] => i = j
    <3> SUFFICES ASSUME NEW i \in S, NEW j \in S, rank[i] = rank[j], i # j PROVE FALSE
      OBVIOUS
    <3>1. rank[i] < rank[j] \/ rank[j] < rank[i]
      BY <1>7
    <3>2. rank[i] \in 1..n /\ rank[j] \in 1..n
      BY <2>1
    <3> QED
      BY <3>1, <3>2
  <2> HIDE DEF S
  <2> QED
    BY <2>2, <2>3, Fun_IsInj, Zenon
<1>9. rank \in Surjection(S, S)
  <2> HIDE DEF S
  <2> QED
    BY <1>1, <1>8, FS_Injection
<1>10. \A r \in S : \E i \in S : rank[i] = r
  <2> HIDE DEF S
  <2> QED
    BY <1>9, Zenon DEF Surjection
<1>11. \A i \in S : \A r \in Int : rank[i] = r => Cardinality(Before(i)) = r - 1
  BY <1>4, <1>6
<1>12. \A r \in S : \E i \in S : Cardinality(Before(i)) = r - 1
  <2> TAKE r \in S
  <2>1. PICK i \in S : rank[i] = r
    BY <1>10
  <2>2. r \in Int
    OBVIOUS
  <2> QED
    BY <1>11, <2>1, <2>2
<1> QED
  BY <1>12 DEF Before

(* A set of positions that is not empty has a last one. *)
LEMMA LastOfPositions ==
    ASSUME NEW n \in Nat, NEW S \in SUBSET (1..n), S # {}
    PROVE  LastOf(S) \in S
<1> DEFINE T == {n - i : i \in S}
<1>1. T \subseteq Nat /\ T # {}
  <2>1. \A i \in S : n - i \in Nat
    OBVIOUS
  <2>2. \A i \in S : n - i \in T
    OBVIOUS
  <2> QED
    BY <2>1, <2>2
<1>2. PICK x \in T : \A y \in T : ~ (<<y, x>> \in OpToRel(<, Nat))
  BY <1>1, NatLessThanWellFounded, WFMin, Zenon
<1>3. PICK i \in S : x = n - i
  BY <1>2
<1>4. \A j \in S : j <= i
  <2> SUFFICES ASSUME NEW j \in S, ~ (j <= i) PROVE FALSE
    OBVIOUS
  <2>1. n - j \in T /\ n - j \in Nat /\ x \in Nat /\ n - j < x
    BY <1>1, <1>3
  <2>2. <<n - j, x>> \in OpToRel(<, Nat)
    BY <2>1 DEF OpToRel
  <2> QED
    BY <1>2, <2>1, <2>2
<1> QED
  BY <1>4, Zenon DEF LastOf

-----------------------------------------------------------------------------
(* Ordered and ChainHead.                                                    *)

(* Sorting keeps the entries. *)
LEMMA OrderedEntries ==
    ASSUME NEW S, NEW s \in Seq(S), \A i \in DOMAIN s : s[i].seq \in Nat
    PROVE  /\ DOMAIN Ordered(s) = 1..Len(s)
           /\ Len(Ordered(s)) = Len(s)
           /\ \A r \in DOMAIN s : \E i \in DOMAIN s : Ordered(s)[r] = s[i]
<1> DEFINE n == Len(s)
           Precedes(j, i) == s[j].seq < s[i].seq \/ (s[j].seq = s[i].seq /\ j < i)
           At(r) == CHOOSE i \in DOMAIN s :
                      Cardinality({j \in DOMAIN s : Precedes(j, i)}) = r - 1
           R == {p \in (1..n) \X (1..n) : Precedes(p[1], p[2])}
<1>1. n \in Nat /\ DOMAIN s = 1..n
  OBVIOUS
<1>2. Ordered(s) = [r \in DOMAIN s |-> s[At(r)]]
  BY DEF Ordered
<1>3. \A i, j \in 1..n : <<j, i>> \in R <=> Precedes(j, i)
  OBVIOUS
<1>4. \A i \in 1..n : s[i].seq \in Nat
  BY <1>1
<1>5. \A r \in 1..n : \E i \in 1..n : Cardinality({j \in 1..n : <<j, i>> \in R}) = r - 1
  <2>1. \A i \in 1..n : <<i, i>> \notin R
    BY <1>3, <1>4
  <2>2. \A i, j \in 1..n : i # j => <<i, j>> \in R \/ <<j, i>> \in R
    BY <1>3, <1>4
  <2>3. \A i, j, k \in 1..n : <<i, j>> \in R /\ <<j, k>> \in R => <<i, k>> \in R
    BY <1>3, <1>4
  <2>4. n \in Nat
    BY <1>1
  <2> HIDE DEF R, n
  <2> QED
    BY <2>1, <2>2, <2>3, <2>4, EveryRankIsTaken
<1>6. \A r \in DOMAIN s : At(r) \in DOMAIN s
  <2> TAKE r \in DOMAIN s
  <2>1. PICK i \in 1..n : Cardinality({j \in 1..n : <<j, i>> \in R}) = r - 1
    BY <1>1, <1>5
  <2>2. {j \in 1..n : <<j, i>> \in R} = {j \in DOMAIN s : Precedes(j, i)}
    BY <1>1, <1>3
  <2>3. \E k \in DOMAIN s : Cardinality({j \in DOMAIN s : Precedes(j, k)}) = r - 1
    BY <1>1, <2>1, <2>2
  <2> QED
    BY <2>3, Zenon
<1> HIDE DEF At
<1>7. DOMAIN Ordered(s) = 1..n
  BY <1>1, <1>2
<1> QED
  BY <1>1, <1>2, <1>6, <1>7

(* Among the positions up to a number, a position has the rank of its number. *)
LEMMA RankOfPosition ==
    ASSUME NEW i \in Nat, NEW j \in 1..i
    PROVE  Cardinality({k \in 1..i : k < j}) = j - 1
<1>1. {k \in 1..i : k < j} = 1..(j - 1)
  OBVIOUS
<1>2. Cardinality(1..(j - 1)) = j - 1
  BY FS_Interval
<1> QED
  BY <1>1, <1>2

(* When every message can be decoded, the head folds them all, one after the other. *)
LEMMA HeadOfDecodable ==
    ASSUME NEW o, NEW i \in Nat, \A j \in 1..i : o[j].decodable
    PROVE  ChainHead(o, i) = [j \in 1..i |-> Digest(o[j].env)]
<1> DEFINE folded == {j \in 1..i : o[j].decodable}
           At(r) == CHOOSE j \in folded : Cardinality({k \in folded : k < j}) = r - 1
<1>1. folded = 1..i
  OBVIOUS
<1>2. Cardinality(folded) = i
  <2>1. Cardinality(1..i) = i
    BY FS_Interval
  <2> QED
    BY <1>1, <2>1
<1>3. \A r \in 1..i : At(r) = r
  <2> TAKE r \in 1..i
  <2>1. \A j \in 1..i : Cardinality({k \in 1..i : k < j}) = j - 1
    BY RankOfPosition
  <2> DEFINE A == CHOOSE j \in 1..i : Cardinality({k \in 1..i : k < j}) = r - 1
  <2>2. A \in 1..i /\ Cardinality({k \in 1..i : k < A}) = r - 1
    BY <2>1, Zenon
  <2>3. A - 1 = r - 1
    BY <2>1, <2>2
  <2>4. At(r) = A
    BY <1>1
  <2> HIDE DEF A, At
  <2> QED
    BY <2>2, <2>3, <2>4
<1>4. ChainHead(o, i) = [r \in 1..Cardinality(folded) |-> Digest(o[At(r)].env)]
  BY DEF ChainHead
<1> HIDE DEF At, folded
<1> QED
  BY <1>2, <1>3, <1>4

(* Messages that are in the order of their numbers stay where they are. *)
LEMMA OrderedInOrder ==
    ASSUME NEW n \in Nat, NEW s, DOMAIN s = 1..n, \A i \in 1..n : s[i].seq = i
    PROVE  DOMAIN Ordered(s) = 1..n /\ \A r \in 1..n : Ordered(s)[r] = s[r]
<1> DEFINE Precedes(j, i) == s[j].seq < s[i].seq \/ (s[j].seq = s[i].seq /\ j < i)
           At(r) == CHOOSE i \in DOMAIN s :
                      Cardinality({j \in DOMAIN s : Precedes(j, i)}) = r - 1
<1>1. Ordered(s) = [r \in DOMAIN s |-> s[At(r)]]
  BY DEF Ordered
<1>2. ASSUME NEW i \in 1..n
      PROVE  Cardinality({j \in DOMAIN s : Precedes(j, i)}) = i - 1
  <2>1. {j \in DOMAIN s : Precedes(j, i)} = {j \in 1..n : j < i}
    OBVIOUS
  <2>2. Cardinality({j \in 1..n : j < i}) = i - 1
    BY RankOfPosition
  <2> QED
    BY <2>1, <2>2
<1>3. ASSUME NEW r \in 1..n PROVE At(r) = r
  <2>1. \E i \in DOMAIN s : Cardinality({j \in DOMAIN s : Precedes(j, i)}) = r - 1
    BY <1>2
  <2>2. At(r) \in 1..n /\ Cardinality({j \in DOMAIN s : Precedes(j, At(r))}) = r - 1
    BY <2>1, Zenon
  <2> DEFINE A == At(r)
  <2>3. A \in 1..n /\ A - 1 = r - 1
    BY <1>2, <2>2
  <2> HIDE DEF At
  <2> QED
    BY <2>3
<1> HIDE DEF At
<1> QED
  BY <1>1, <1>3

-----------------------------------------------------------------------------
(* The inductive invariant.                                                  *)

Envelope == [sender : Signer, epoch : SealEpoch, type : Type, ref : Nat, prev : Seq(Nat),
             nonce : Nat]
Signatures == [by : IdentityKey, of : Envelope]
Entry == [seq : Nat, env : Envelope, signature : Signatures, decodable : BOOLEAN]
MemberEntries == UNION {[S -> MemberEntry] : S \in SUBSET Signer}

(* A message names its place by its nonce, and the head it was signed on by its prev. *)
SignedOK ==
    /\ signed \in Seq(Envelope)
    /\ \A k \in DOMAIN signed :
         /\ signed[k].nonce = k
         /\ signed[k].ref < k
         /\ \E h \in Nat : signed[k].prev = HeadOf(h)

(* Whatever became of a bundle, what is signed in it with a member's key was signed by that
   member in the session. *)
Made(m) == m.signature.by = Foreign
             \/ \E k \in DOMAIN signed : m.signature = Signature(signed[k].sender, signed[k])
ListedHead == [lastSeq : Nat, hash : Seq(Nat), signer : Signer, by : IdentityKey]
Bundle == [members : MemberEntries, keys : SUBSET SealEpoch, messages : Seq(Entry),
           head : ListedHead \cup {Absent}]
Genuine(b) ==
    /\ \A i \in DOMAIN b.messages : Made(b.messages[i])
    /\ b.head = Absent \/ b.head \in Heads \/ b.head.by = Foreign
BundleOK == bundle # Absent => exporter \in Signer /\ bundle \in Bundle /\ Genuine(bundle)

(* What was not damaged is as it was exported. *)
WholeOK ==
    bundle # Absent /\ damage = 0 =>
        bundle = [members |-> [q \in Signer |-> [identityPub |-> q, did |-> q]],
                  keys |-> {e \in SealEpoch : e >= JoinedAt[exporter]},
                  messages |-> [k \in DOMAIN signed |->
                                 [seq |-> k, env |-> signed[k],
                                  signature |-> Signature(signed[k].sender, signed[k]),
                                  decodable |-> TRUE]],
                  head |-> HeadBy(exporter, Len(signed))]

TranscriptInv == SignedOK /\ BundleOK /\ WholeOK /\ damage \in Nat

LEMMA HeadType == \A k \in Nat : HeadOf(k) \in Seq(Nat) /\ Len(HeadOf(k)) = k
<1> TAKE k \in Nat
<1>1. HeadOf(k) \in [1..k -> Nat]
  BY DEF HeadOf
<1> QED
  BY <1>1

LEMMA HeadsTyped == SignedOK => Heads \subseteq ListedHead
<1> SUFFICES ASSUME SignedOK, NEW p \in Signer, NEW k \in 0..Len(signed)
             PROVE  HeadBy(p, k) \in ListedHead
  BY DEF Heads
<1>1. k \in Nat
  BY DEF SignedOK
<1> QED
  BY <1>1, HeadType DEF HeadBy, ListedHead, IdentityKey

LEMMA InvInit == TranscriptInit => TranscriptInv
<1> SUFFICES ASSUME TranscriptInit PROVE TranscriptInv
  OBVIOUS
<1>1. signed = <<>> /\ bundle = Absent /\ damage = 0
  BY DEF TranscriptInit
<1>2. <<>> \in Seq(Envelope) /\ DOMAIN <<>> = {}
  OBVIOUS
<1> QED
  BY <1>1, <1>2 DEF TranscriptInv, SignedOK, BundleOK, WholeOK

LEMMA SignStep ==
    ASSUME TranscriptInv, NEW p \in Signer, NEW e \in SealEpoch, NEW ref \in 0..MaxMessage,
           NEW t \in Type, NEW behind \in 0..1, SignMessage(p, e, t, ref, behind)
    PROVE  TranscriptInv'
<1> DEFINE n == Len(signed)
           m == [sender |-> p, epoch |-> e, type |-> t, ref |-> ref,
                 prev |-> HeadOf(n - behind), nonce |-> n + 1]
<1>1. /\ signed \in Seq(Envelope)
      /\ \A k \in DOMAIN signed : /\ signed[k].nonce = k
                                 /\ signed[k].ref < k
                                 /\ \E h \in Nat : signed[k].prev = HeadOf(h)
  BY DEF TranscriptInv, SignedOK
<1>2. n \in Nat /\ DOMAIN signed = 1..n
  BY <1>1
<1>3. /\ signed' = Append(signed, m)
      /\ bundle = Absent /\ bundle' = bundle /\ damage' = damage
      /\ ref <= n - behind /\ behind <= n
  BY DEF SignMessage
<1>4. n - behind \in Nat /\ n + 1 \in Nat /\ ref \in Nat /\ ref < n + 1
  BY <1>2, <1>3, TranscriptAssumption DEF TranscriptAssumption
<1>5. HeadOf(n - behind) \in Seq(Nat)
  BY <1>4, HeadType
<1>6. m \in Envelope /\ m.nonce = n + 1 /\ m.ref = ref /\ m.prev = HeadOf(n - behind)
  BY <1>4, <1>5 DEF Envelope
<1> HIDE DEF m
<1>7. /\ signed' \in Seq(Envelope)
      /\ DOMAIN signed' = 1..(n + 1)
      /\ signed'[n + 1] = m
      /\ \A k \in 1..n : signed'[k] = signed[k]
  BY <1>1, <1>3, <1>6
<1> HIDE DEF n
<1>8. ASSUME NEW k \in 1..(n + 1)
      PROVE  /\ signed'[k].nonce = k
             /\ signed'[k].ref < k
             /\ \E h \in Nat : signed'[k].prev = HeadOf(h)
  <2>1. CASE k = n + 1
    BY <1>4, <1>6, <1>7, <2>1
  <2>2. CASE k \in 1..n
    BY <1>1, <1>2, <1>7, <2>2
  <2> QED
    BY <1>2, <2>1, <2>2
<1>9. SignedOK'
  BY <1>7, <1>8 DEF SignedOK, HeadOf
<1> QED
  BY <1>3, <1>9 DEF TranscriptInv, BundleOK, WholeOK

LEMMA ExportStep ==
    ASSUME TranscriptInv, NEW p \in Signer, Export(p)
    PROVE  TranscriptInv'
<1> DEFINE s == [k \in DOMAIN signed |-> [seq |-> k, env |-> signed[k],
                                         signature |-> Signature(signed[k].sender, signed[k]),
                                         decodable |-> TRUE]]
           members == [q \in Signer |-> [identityPub |-> q, did |-> q]]
           keys == {e \in SealEpoch : e >= JoinedAt[p]}
           head == HeadBy(p, Len(signed))
<1>1. signed \in Seq(Envelope)
  BY DEF TranscriptInv, SignedOK
<1>2. s \in Seq(Entry)
  <2>1. \A k \in DOMAIN signed : k \in Nat /\ signed[k] \in Envelope
    BY <1>1
  <2>2. DOMAIN s = 1..Len(signed) /\ Len(signed) \in Nat
    BY <1>1
  <2>3. \A k \in DOMAIN signed : s[k] \in Entry
    <3> TAKE k \in DOMAIN signed
    <3>1. signed[k] \in Envelope /\ signed[k].sender \in Signer
      BY <2>1 DEF Envelope
    <3>2. Signature(signed[k].sender, signed[k]) \in Signatures
      BY <3>1 DEF Signature, Signatures, IdentityKey
    <3> QED
      BY <2>1, <3>1, <3>2 DEF Entry
  <2>4. s \in [1..Len(signed) -> Entry]
    BY <2>2, <2>3
  <2> QED
    BY <2>2, <2>4
<1>3. DOMAIN s = DOMAIN signed
      /\ \A k \in DOMAIN s : s[k].signature = Signature(signed[k].sender, signed[k])
  OBVIOUS
<1>4. head \in Heads /\ head \in ListedHead
  <2>1. Len(signed) \in 0..Len(signed)
    BY <1>1
  <2> QED
    BY <2>1, HeadsTyped DEF Heads, TranscriptInv
<1>5. /\ exporter' = p /\ signed' = signed /\ damage' = damage
      /\ bundle' = [members |-> members, keys |-> keys, messages |-> s, head |-> head]
  BY DEF Export
<1>6. keys \in SUBSET SealEpoch /\ members \in MemberEntries
  <2>1. members \in [Signer -> MemberEntry]
    BY DEF MemberEntry, IdentityKey
  <2> QED
    BY <2>1 DEF MemberEntries
<1>7. WholeOK'
  BY <1>5 DEF WholeOK
<1> HIDE DEF s, keys, head, members
<1>8. bundle' \in Bundle /\ bundle'.messages = s /\ bundle'.head = head
  BY <1>2, <1>4, <1>5, <1>6 DEF Bundle
<1>9. Heads' = Heads
  BY <1>5 DEF Heads
<1>10. Genuine(bundle)'
  <2>1. \A k \in DOMAIN bundle'.messages : \E j \in DOMAIN signed' :
          bundle'.messages[k].signature = Signature(signed'[j].sender, signed'[j])
    BY <1>3, <1>5, <1>8
  <2> QED
    BY <1>4, <1>8, <1>9, <2>1 DEF Genuine, Made
<1>11. BundleOK'
  BY <1>5, <1>8, <1>10 DEF BundleOK
<1>12. SignedOK'
  BY <1>5 DEF TranscriptInv, SignedOK
<1> QED
  BY <1>5, <1>7, <1>11, <1>12 DEF TranscriptInv

(* A damage after which member keys have signed no more than before. *)
LEMMA DamagedStep ==
    ASSUME TranscriptInv, NEW b, Damaged(b), b \in Bundle, Genuine(b)
    PROVE  TranscriptInv'
<1>1. /\ signed' = signed /\ exporter' = exporter /\ bundle' = b
      /\ bundle # Absent /\ damage' = damage + 1
  BY DEF Damaged
<1>2. damage' \in Nat /\ damage' # 0
  BY <1>1 DEF TranscriptInv
<1>3. WholeOK'
  BY <1>2 DEF WholeOK
<1>4. Heads' = Heads
  BY <1>1 DEF Heads
<1>5. Genuine(bundle)'
  BY <1>1, <1>4 DEF Genuine, Made
<1>6. BundleOK'
  BY <1>1, <1>5 DEF BundleOK, TranscriptInv
<1> QED
  BY <1>1, <1>2, <1>3, <1>6 DEF TranscriptInv, SignedOK

(* New messages, each with a signature of the session or of a foreign key. *)
LEMMA MessagesStep ==
    ASSUME TranscriptInv, bundle # Absent, NEW t \in Seq(Entry), \A i \in DOMAIN t : Made(t[i]),
           Damaged(Messages(t))
    PROVE  TranscriptInv'
<1>1. bundle \in Bundle /\ Genuine(bundle)
  BY DEF TranscriptInv, BundleOK
<1>2. Messages(t) \in Bundle /\ Messages(t).messages = t /\ Messages(t).head = bundle.head
  BY <1>1 DEF Messages, Bundle
<1>3. Genuine(Messages(t))
  BY <1>1, <1>2 DEF Genuine
<1> QED
  BY <1>2, <1>3, DamagedStep

LEMMA ChangedStep ==
    ASSUME TranscriptInv, bundle # Absent, NEW i \in DOMAIN bundle.messages, NEW e \in Entry,
           e.signature = bundle.messages[i].signature \/ e.signature.by = Foreign,
           Damaged(Changed(i, e))
    PROVE  TranscriptInv'
<1> DEFINE s == bundle.messages
           t == [s EXCEPT ![i] = e]
<1>1. s \in Seq(Entry) /\ \A j \in DOMAIN s : Made(s[j])
  BY DEF TranscriptInv, BundleOK, Bundle, Genuine
<1>2. Damaged(Messages(t))
  BY DEF Changed
<1> HIDE DEF s
<1>3. t \in Seq(Entry) /\ DOMAIN t = DOMAIN s /\ t[i] = e /\ \A j \in DOMAIN s : j # i => t[j] = s[j]
  BY <1>1 DEF s
<1>4. \A j \in DOMAIN t : Made(t[j])
  BY <1>1, <1>3 DEF s, Made
<1> HIDE DEF t
<1> QED
  BY <1>2, <1>3, <1>4, MessagesStep

LEMMA LoseMessageStep ==
    ASSUME TranscriptInv, bundle # Absent, NEW i \in DOMAIN bundle.messages, LoseMessage(i)
    PROVE  TranscriptInv'
<1> DEFINE s == bundle.messages
           t == SubSeq(s, 1, i - 1) \o SubSeq(s, i + 1, Len(s))
<1>1. s \in Seq(Entry) /\ \A j \in DOMAIN s : Made(s[j])
  BY DEF TranscriptInv, BundleOK, Bundle, Genuine
<1>2. Damaged(Messages(t))
  BY DEF LoseMessage
<1>3. i \in 1..Len(s)
  BY <1>1
<1> HIDE DEF s
<1>4. /\ t \in Seq(Entry)
      /\ \A j \in DOMAIN t : \E k \in DOMAIN s : t[j] = s[k]
  <2> DEFINE a == SubSeq(s, 1, i - 1)
             b == SubSeq(s, i + 1, Len(s))
  <2>1. /\ a \in Seq(Entry) /\ Len(a) = i - 1
        /\ \A j \in 1..(i - 1) : a[j] = s[j]
    BY <1>1, <1>3
  <2>2. /\ b \in Seq(Entry) /\ Len(b) = Len(s) - i
        /\ \A j \in 1..(Len(s) - i) : b[j] = s[j + i]
    BY <1>1, <1>3
  <2>3. t = a \o b
    OBVIOUS
  <2> HIDE DEF a, b, t
  <2>4. /\ t \in Seq(Entry) /\ DOMAIN t = 1..(Len(a) + Len(b))
        /\ \A j \in 1..(Len(a) + Len(b)) : t[j] = IF j <= Len(a) THEN a[j] ELSE b[j - Len(a)]
    BY <2>1, <2>2, <2>3
  <2>5. ASSUME NEW j \in DOMAIN t PROVE \E k \in DOMAIN s : t[j] = s[k]
    <3>1. Len(s) \in Nat /\ DOMAIN s = 1..Len(s)
      BY <1>1
    <3>2. CASE j <= i - 1
      BY <1>3, <2>1, <2>4, <3>1, <3>2
    <3>3. CASE j > i - 1
      <4>1. j - (i - 1) \in 1..(Len(s) - i) /\ j + 1 \in DOMAIN s /\ j - (i - 1) + i = j + 1
        BY <1>3, <2>1, <2>2, <2>4, <3>1, <3>3
      <4>2. t[j] = b[j - (i - 1)]
        BY <1>3, <2>1, <2>4, <3>3
      <4> QED
        BY <2>2, <4>1, <4>2
    <3> QED
      BY <1>3, <2>1, <2>2, <2>4, <3>2, <3>3
  <2> QED
    BY <2>4, <2>5
<1> HIDE DEF t
<1>5. \A j \in DOMAIN t : Made(t[j])
  BY <1>1, <1>4
<1> QED
  BY <1>2, <1>4, <1>5, MessagesStep

LEMMA RepeatStep ==
    ASSUME TranscriptInv, bundle # Absent, NEW i \in DOMAIN bundle.messages, Repeat(i)
    PROVE  TranscriptInv'
<1> DEFINE s == bundle.messages
           t == Append(s, s[i])
<1>1. s \in Seq(Entry) /\ \A j \in DOMAIN s : Made(s[j])
  BY DEF TranscriptInv, BundleOK, Bundle, Genuine
<1>2. Damaged(Messages(t))
  BY DEF Repeat
<1> HIDE DEF s
<1>3. t \in Seq(Entry) /\ \A j \in DOMAIN t : \E k \in DOMAIN s : t[j] = s[k]
  BY <1>1 DEF s
<1> HIDE DEF t
<1>4. \A j \in DOMAIN t : Made(t[j])
  BY <1>1, <1>3
<1> QED
  BY <1>2, <1>3, <1>4, MessagesStep

LEMMA EntryStep ==
    ASSUME TranscriptInv, bundle # Absent, NEW i \in DOMAIN bundle.messages,
           \/ \E n \in 1..MaxMessage : Renumber(i, n)
           \/ \E env \in Altered(i) : ChangeEnvelope(i, env) \/ SignAnew(i, env)
           \/ Garble(i)
    PROVE  TranscriptInv'
<1> DEFINE m == bundle.messages[i]
<1>1. bundle.messages \in Seq(Entry)
  BY DEF TranscriptInv, BundleOK, Bundle
<1>2. m \in Entry
  BY <1>1
<1> HIDE DEF m
<1>3. m.env \in Envelope /\ m.seq \in Nat /\ m.signature \in Signatures /\ m.decodable \in BOOLEAN
  BY <1>2 DEF Entry
<1>4. ASSUME NEW n \in 1..MaxMessage, Renumber(i, n) PROVE TranscriptInv'
  <2> DEFINE e == [m EXCEPT !.seq = n]
  <2>1. e \in Entry /\ e.signature = m.signature
    BY <1>2 DEF Entry
  <2>2. Damaged(Changed(i, e))
    BY <1>4 DEF Renumber, m
  <2> HIDE DEF e
  <2> QED
    BY <2>1, <2>2, ChangedStep DEF m
<1>5. \A env \in Altered(i) : env \in Envelope
  <2>1. \A ref \in 0..Len(signed) : ref \in Nat
    BY DEF TranscriptInv, SignedOK
  <2>2. \A ref \in Nat : [m.env EXCEPT !.ref = ref] \in Envelope
    BY <1>3 DEF Envelope
  <2>3. \A t \in Type : [m.env EXCEPT !.type = t] \in Envelope
    BY <1>3 DEF Envelope
  <2>4. \A p \in Signer : [m.env EXCEPT !.sender = p] \in Envelope
    BY <1>3 DEF Envelope
  <2> QED
    BY <2>1, <2>2, <2>3, <2>4 DEF Altered, m
<1>6. ASSUME NEW env \in Envelope, ChangeEnvelope(i, env) PROVE TranscriptInv'
  <2> DEFINE e == [m EXCEPT !.env = env]
  <2>1. e \in Entry /\ e.signature = m.signature
    BY <1>2 DEF Entry
  <2>2. Damaged(Changed(i, e))
    BY <1>6 DEF ChangeEnvelope, m
  <2> HIDE DEF e
  <2> QED
    BY <2>1, <2>2, ChangedStep DEF m
<1>7. ASSUME NEW env \in Envelope, SignAnew(i, env) PROVE TranscriptInv'
  <2> DEFINE e == [m EXCEPT !.env = env, !.signature = Signature(Foreign, env)]
  <2>1. Signature(Foreign, env) \in Signatures /\ Signature(Foreign, env).by = Foreign
    BY DEF Signature, Signatures, IdentityKey
  <2>2. e \in Entry /\ e.signature.by = Foreign
    BY <1>2, <2>1 DEF Entry
  <2>3. Damaged(Changed(i, e))
    BY <1>7 DEF SignAnew, m
  <2> HIDE DEF e
  <2> QED
    BY <2>2, <2>3, ChangedStep DEF m
<1>8. ASSUME Garble(i) PROVE TranscriptInv'
  <2> DEFINE e == [m EXCEPT !.decodable = FALSE]
  <2>1. e \in Entry /\ e.signature = m.signature
    BY <1>2 DEF Entry
  <2>2. Damaged(Changed(i, e))
    BY <1>8 DEF Garble, m
  <2> HIDE DEF e
  <2> QED
    BY <2>1, <2>2, ChangedStep DEF m
<1> QED
  BY <1>4, <1>5, <1>6, <1>7, <1>8

(* The ordered messages of a bundle have the positions 1..Len. *)
LEMMA OrderedPositions ==
    ASSUME TranscriptInv, bundle # Absent
    PROVE  LET n == Len(bundle.messages) IN
           /\ n \in Nat /\ DOMAIN bundle.messages = 1..n
           /\ DOMAIN Ordered(bundle.messages) = 1..n
           /\ Len(Ordered(bundle.messages)) = n
           /\ \A r \in 1..n : \E i \in 1..n : Ordered(bundle.messages)[r] = bundle.messages[i]
<1> DEFINE s == bundle.messages
<1>1. s \in Seq(Entry)
  BY DEF TranscriptInv, BundleOK, Bundle
<1>2. \A i \in DOMAIN s : s[i].seq \in Nat
  <2>1. \A i \in DOMAIN s : s[i] \in Entry
    BY <1>1
  <2> HIDE DEF s
  <2> QED
    BY <2>1 DEF Entry
<1>3. Len(s) \in Nat /\ DOMAIN s = 1..Len(s)
  BY <1>1
<1> HIDE DEF s
<1>4. /\ DOMAIN Ordered(s) = 1..Len(s)
      /\ Len(Ordered(s)) = Len(s)
      /\ \A r \in DOMAIN s : \E i \in DOMAIN s : Ordered(s)[r] = s[i]
  BY <1>1, <1>2, OrderedEntries
<1> QED
  BY <1>3, <1>4 DEF s

(* What the bundle presents are numbers. *)
LEMMA ForeignHeadTyped ==
    ASSUME TranscriptInv, bundle # Absent, NEW p \in Signer
    PROVE  ForeignHead(p) \in ListedHead /\ ForeignHead(p).by = Foreign
<1> DEFINE s == bundle.messages
           n == Len(s)
<1>1. /\ n \in Nat /\ DOMAIN s = 1..n
      /\ DOMAIN Ordered(s) = 1..n
      /\ \A r \in 1..n : \E i \in 1..n : Ordered(s)[r] = s[i]
  BY OrderedPositions
<1>2. \A i \in 1..n : s[i] \in Entry
  BY <1>1 DEF TranscriptInv, BundleOK, Bundle
<1> HIDE DEF s, n
<1>3. \A r \in 1..n : Ordered(s)[r] \in Entry
  BY <1>1, <1>2
<1>4. \A r \in 1..n : Digest(Ordered(s)[r].env) \in Nat
  BY <1>3 DEF Entry, Envelope, Digest
<1>5. Presented = [r \in 1..n |-> Digest(Ordered(s)[r].env)]
  BY <1>1 DEF Presented, s
<1>6. Presented \in [1..n -> Nat]
  BY <1>4, <1>5
<1>7. Presented \in Seq(Nat)
  BY <1>1, <1>6
<1> QED
  BY <1>1, <1>7 DEF ForeignHead, ListedHead, IdentityKey, s, n

LEMMA DamageStep ==
    ASSUME TranscriptInv, Damage
    PROVE  TranscriptInv'
<1>1. bundle # Absent /\ bundle \in Bundle /\ Genuine(bundle)
  BY DEF Damage, TranscriptInv, BundleOK
<1>2. ASSUME NEW i \in DOMAIN bundle.messages, LoseMessage(i) PROVE TranscriptInv'
  BY <1>1, <1>2, LoseMessageStep
<1>3. ASSUME NEW i \in DOMAIN bundle.messages,
             \/ Repeat(i)
             \/ \E n \in 1..MaxMessage : Renumber(i, n)
             \/ \E env \in Altered(i) : ChangeEnvelope(i, env) \/ SignAnew(i, env)
             \/ Garble(i)
      PROVE  TranscriptInv'
  BY <1>1, <1>3, RepeatStep, EntryStep
<1>4. ASSUME NEW b \in Bundle, b.messages = bundle.messages,
             b.head = bundle.head \/ b.head \in Heads \cup {Absent} \/ b.head.by = Foreign,
             Damaged(b)
      PROVE  TranscriptInv'
  BY <1>1, <1>4, DamagedStep DEF Genuine
<1>5. ASSUME NEW e \in bundle.keys, LoseKey(e) PROVE TranscriptInv'
  <2> DEFINE b == [bundle EXCEPT !.keys = @ \ {e}]
  <2>1. b \in Bundle /\ b.messages = bundle.messages /\ b.head = bundle.head
    BY <1>1 DEF Bundle
  <2>2. Damaged(b)
    BY <1>5 DEF LoseKey
  <2> HIDE DEF b
  <2> QED
    BY <1>4, <2>1, <2>2
<1>6. PICK S \in SUBSET Signer : bundle.members \in [S -> MemberEntry]
  BY <1>1 DEF Bundle, MemberEntries
<1>7. ASSUME NEW M \in MemberEntries, Damaged([bundle EXCEPT !.members = M]) PROVE TranscriptInv'
  <2> DEFINE b == [bundle EXCEPT !.members = M]
  <2>1. b \in Bundle /\ b.messages = bundle.messages /\ b.head = bundle.head
    BY <1>1 DEF Bundle
  <2>2. Damaged(b)
    BY <1>7
  <2> HIDE DEF b
  <2> QED
    BY <1>4, <2>1, <2>2
<1>8. ASSUME NEW p \in DOMAIN bundle.members, LoseMember(p) PROVE TranscriptInv'
  <2> DEFINE M == [q \in (DOMAIN bundle.members) \ {p} |-> bundle.members[q]]
  <2>1. M \in [S \ {p} -> MemberEntry] /\ S \ {p} \in SUBSET Signer
    BY <1>6
  <2>2. M \in MemberEntries
    BY <2>1 DEF MemberEntries
  <2>3. Damaged([bundle EXCEPT !.members = M])
    BY <1>8 DEF LoseMember
  <2> QED
    BY <1>7, <2>2, <2>3
<1>9. ASSUME NEW p \in DOMAIN bundle.members, NEW entry \in MemberEntry, ChangeMember(p, entry)
      PROVE  TranscriptInv'
  <2> DEFINE M == [bundle.members EXCEPT ![p] = entry]
  <2>1. M \in [S -> MemberEntry]
    BY <1>6
  <2>2. M \in MemberEntries
    BY <2>1 DEF MemberEntries
  <2>3. Damaged([bundle EXCEPT !.members = M])
    <3>1. [bundle EXCEPT !.members = M] = [bundle EXCEPT !.members[p] = entry]
      BY <1>1 DEF Bundle
    <3> QED
      BY <1>9, <3>1 DEF ChangeMember
  <2> QED
    BY <1>7, <2>2, <2>3
<1>10. ASSUME NEW h \in Heads \cup {ForeignHead(p) : p \in Signer} \cup {Absent}, ReplaceHead(h)
       PROVE  TranscriptInv'
  <2> DEFINE b == [bundle EXCEPT !.head = h]
  <2>1. /\ h \in ListedHead \cup {Absent}
        /\ h \in Heads \cup {Absent} \/ h.by = Foreign
    BY <1>1, HeadsTyped, ForeignHeadTyped DEF TranscriptInv
  <2>2. b \in Bundle /\ b.messages = bundle.messages /\ b.head = h
    BY <1>1, <2>1 DEF Bundle
  <2>3. Damaged(b)
    BY <1>10 DEF ReplaceHead
  <2> HIDE DEF b
  <2> QED
    BY <1>4, <2>1, <2>2, <2>3
<1> QED
  BY <1>2, <1>3, <1>5, <1>8, <1>9, <1>10 DEF Damage

LEMMA InvStep == TranscriptInv /\ [TranscriptNext]_transcriptVars => TranscriptInv'
<1> SUFFICES ASSUME TranscriptInv, [TranscriptNext]_transcriptVars PROVE TranscriptInv'
  OBVIOUS
<1>1. CASE UNCHANGED transcriptVars
  <2>1. signed' = signed /\ exporter' = exporter /\ bundle' = bundle /\ damage' = damage
    BY <1>1 DEF transcriptVars
  <2>2. Heads' = Heads /\ SignedOK'
    BY <2>1 DEF Heads, SignedOK, TranscriptInv
  <2>3. BundleOK'
    BY <2>1, <2>2 DEF BundleOK, Genuine, Made, TranscriptInv
  <2> QED
    BY <2>1, <2>2, <2>3 DEF TranscriptInv, WholeOK
<1> QED
  BY <1>1, SignStep, ExportStep, DamageStep DEF TranscriptNext

LEMMA AlwaysGenuine == TranscriptSpec => []TranscriptInv
BY InvInit, InvStep, PTL DEF TranscriptSpec

-----------------------------------------------------------------------------
(* What verification shows.                                                  *)

(* The ordered messages are the bundle's. *)
LEMMA OrderedMade ==
    ASSUME TranscriptInv, bundle # Absent, NEW r \in DOMAIN bundle.messages
    PROVE  Ordered(bundle.messages)[r] \in Entry /\ Made(Ordered(bundle.messages)[r])
<1>1. /\ bundle.messages \in Seq(Entry)
      /\ \A i \in DOMAIN bundle.messages : Made(bundle.messages[i])
  BY DEF TranscriptInv, BundleOK, Bundle, Genuine
<1>2. PICK i \in DOMAIN bundle.messages : Ordered(bundle.messages)[r] = bundle.messages[i]
  BY OrderedPositions
<1>3. bundle.messages[i] \in Entry
  BY <1>1
<1> QED
  BY <1>1, <1>2, <1>3

(* An envelope with a digest is the message of the session with that number. *)
LEMMA DigestOf ==
    ASSUME TranscriptInv, NEW env \in Envelope
    PROVE  /\ \A k \in DOMAIN signed : env = signed[k] => Digest(env) = k
           /\ Digest(env) # 0 => Digest(env) \in DOMAIN signed /\ env = signed[Digest(env)]
<1>1. \A k \in DOMAIN signed : signed[k].nonce = k
  BY DEF TranscriptInv, SignedOK
<1> QED
  BY <1>1 DEF Digest

(* A signature that is valid with the key of the member it names is on a message of the session,
   whose digest is its number. *)
LEMMA SignedEntry ==
    ASSUME TranscriptInv, bundle # Absent, NEW r \in DOMAIN bundle.messages,
           SignatureValid(bundle, Ordered(bundle.messages)[r]),
           LET p == Ordered(bundle.messages)[r].env.sender IN bundle.members[p].identityPub = p
    PROVE  \E k \in DOMAIN signed : /\ Ordered(bundle.messages)[r].env = signed[k]
                                   /\ Digest(Ordered(bundle.messages)[r].env) = k
<1> DEFINE m == Ordered(bundle.messages)[r]
<1>1. m \in Entry /\ Made(m)
  BY OrderedMade
<1>2. SignatureValid(bundle, m) /\ bundle.members[m.env.sender].identityPub = m.env.sender
  OBVIOUS
<1> HIDE DEF m
<1>3. m.env \in Envelope /\ m.env.sender \in Signer
  BY <1>1 DEF Entry, Envelope
<1>4. m.signature.by = m.env.sender /\ m.signature.of = m.env
  BY <1>2 DEF SignatureValid, Signature
<1>5. PICK k \in DOMAIN signed : m.signature = Signature(signed[k].sender, signed[k])
  BY <1>1, <1>3, <1>4, TranscriptAssumption DEF Made
<1>6. m.env = signed[k]
  BY <1>4, <1>5 DEF Signature
<1> QED
  BY <1>3, <1>6, DigestOf DEF m

(* A bundle with valid members lists each under the name of its key. *)
LEMMA ListedKeys ==
    ASSUME MembersValid(bundle), NEW p \in DOMAIN bundle.members
    PROVE  bundle.members[p].identityPub = p
<1>1. bundle.members[p] = [identityPub |-> p, did |-> p]
  BY DEF MembersValid
<1> QED
  BY <1>1

(* So it is for every message of a bundle that verifies. *)
LEMMA ValidEntries ==
    ASSUME TranscriptInv, bundle # Absent, Valid(bundle)
    PROVE  \A r \in DOMAIN Ordered(bundle.messages) :
             \E k \in DOMAIN signed : /\ Ordered(bundle.messages)[r].env = signed[k]
                                     /\ Digest(Ordered(bundle.messages)[r].env) = k
<1> TAKE r \in DOMAIN Ordered(bundle.messages)
<1>1. r \in DOMAIN bundle.messages
  BY OrderedPositions
<1>2. SignatureValid(bundle, Ordered(bundle.messages)[r]) /\ MembersValid(bundle)
  BY DEF Valid
<1>3. Ordered(bundle.messages)[r].env.sender \in DOMAIN bundle.members
  BY <1>2 DEF SignatureValid
<1>4. LET p == Ordered(bundle.messages)[r].env.sender IN bundle.members[p].identityPub = p
  BY <1>2, <1>3, ListedKeys
<1> QED
  BY <1>1, <1>2, <1>4, SignedEntry

(* A bundle that verifies and has a head presents exactly the messages its signer had exported:
   nothing was lost at its end, nothing left out, altered or put in another order. *)
THEOREM HeadsCommit == TranscriptSpec => []HeadCommits
<1>1. TranscriptInv => HeadCommits
  <2> SUFFICES ASSUME TranscriptInv, bundle # Absent, Valid(bundle), bundle.head # Absent
               PROVE  Presented = HeadOf(bundle.head.lastSeq)
    BY DEF HeadCommits, Exported
  <2> DEFINE o == Ordered(bundle.messages)
             n == Len(bundle.messages)
  <2>1. n \in Nat /\ DOMAIN o = 1..n /\ Len(o) = n
    BY OrderedPositions
  <2>2. (\A i \in DOMAIN o : SignatureValid(bundle, o[i])) /\ HeadValid(bundle, o)
    BY DEF Valid
  <2> HIDE DEF o, n
  <2>3. \A j \in 1..n : o[j].decodable
    BY <2>1, <2>2 DEF SignatureValid
  <2>4. ChainHead(o, n) = [j \in 1..n |-> Digest(o[j].env)]
    BY <2>1, <2>3, HeadOfDecodable
  <2>5. Presented = ChainHead(o, n)
    BY <2>1, <2>4 DEF Presented, o
  <2>6. PICK p \in Signer, k \in 0..Len(signed) : bundle.head = HeadBy(p, k)
    <3>1. MembersValid(bundle) /\ bundle.head \in ListedHead
      BY DEF Valid, TranscriptInv, BundleOK, Bundle
    <3>2. bundle.head.by = bundle.head.signer /\ bundle.head.signer \in Signer
      BY <2>2, <3>1, ListedKeys DEF HeadValid, ListedHead
    <3>3. bundle.head \in Heads
      BY <3>2, TranscriptAssumption DEF TranscriptInv, BundleOK, Genuine
    <3> QED
      BY <3>3 DEF Heads
  <2>7. bundle.head.hash = ChainHead(o, n)
    BY <2>1, <2>2 DEF HeadValid
  <2> QED
    BY <2>5, <2>6, <2>7 DEF HeadBy
<1> QED
  BY <1>1, AlwaysGenuine, PTL

(* When nobody signed on an old head, what verifies is a beginning of the session, in order and
   with nothing left out, even without a head. *)
THEOREM ChainsCommit == TranscriptSpec => []ChainCommits
<1>1. TranscriptInv => ChainCommits
  <2> SUFFICES ASSUME TranscriptInv, bundle # Absent, Valid(bundle), ~Forked
               PROVE  Presented = HeadOf(Len(Presented))
    BY DEF ChainCommits, Exported
  <2> DEFINE o == Ordered(bundle.messages)
             n == Len(bundle.messages)
  <2>1. n \in Nat /\ DOMAIN o = 1..n /\ Len(o) = n /\ DOMAIN bundle.messages = 1..n
    BY OrderedPositions
  <2>2. \A i \in DOMAIN o : SignatureValid(bundle, o[i]) /\ ChainValid(o, i)
    BY DEF Valid
  <2>3. \A i \in 1..n : \E k \in DOMAIN signed : o[i].env = signed[k] /\ Digest(o[i].env) = k
    BY <2>1, ValidEntries
  <2> HIDE DEF o, n
  <2>4. ASSUME NEW i \in 1..n PROVE Digest(o[i].env) = i
    <3>1. PICK k \in DOMAIN signed : o[i].env = signed[k] /\ Digest(o[i].env) = k
      BY <2>3
    <3>2. k \in Nat /\ k - 1 \in Nat /\ i - 1 \in Nat
      BY <2>1 DEF TranscriptInv, SignedOK
    <3>3. signed[k].prev = HeadOf(k - 1)
      BY DEF Forked
    <3>4. signed[k].prev = ChainHead(o, i - 1)
      BY <2>1, <2>2, <3>1 DEF ChainValid
    <3>5. \A j \in 1..(i - 1) : o[j].decodable
      BY <2>1, <2>2 DEF SignatureValid
    <3>6. ChainHead(o, i - 1) = [j \in 1..(i - 1) |-> Digest(o[j].env)]
      BY <3>2, <3>5, HeadOfDecodable
    <3>7. Len(HeadOf(k - 1)) = k - 1 /\ Len(ChainHead(o, i - 1)) = i - 1
      BY <3>2, <3>6, HeadType
    <3>8. k - 1 = i - 1
      BY <3>3, <3>4, <3>7
    <3> QED
      BY <3>1, <3>2, <3>8
  <2>5. Presented = [i \in 1..n |-> Digest(o[i].env)]
    BY <2>1 DEF Presented, o
  <2>6. Presented = HeadOf(n)
    BY <2>4, <2>5 DEF HeadOf
  <2> QED
    BY <2>1, <2>6, HeadType
<1> QED
  BY <1>1, AlwaysGenuine, PTL

(* What was exported and came through whole verifies exactly when no two messages were signed on
   one head and its exporter joined before every message of it was sealed. *)
THEOREM WholesVerify == TranscriptSpec => []WholeVerifies
<1>1. TranscriptInv => WholeVerifies
  <2> SUFFICES ASSUME TranscriptInv, bundle # Absent, damage = 0
               PROVE  Valid(bundle) <=>
                        \A i \in DOMAIN bundle.messages :
                            /\ signed[i].prev = HeadOf(i - 1)
                            /\ signed[i].epoch >= JoinedAt[exporter]
    BY DEF WholeVerifies, Exported
  <2> DEFINE s == bundle.messages
             o == Ordered(s)
             n == Len(signed)
             Fits(i) == signed[i].prev = HeadOf(i - 1) /\ signed[i].epoch >= JoinedAt[exporter]
  <2>1. /\ bundle.members = [q \in Signer |-> [identityPub |-> q, did |-> q]]
        /\ bundle.keys = {e \in SealEpoch : e >= JoinedAt[exporter]}
        /\ s = [k \in DOMAIN signed |-> [seq |-> k, env |-> signed[k],
                                        signature |-> Signature(signed[k].sender, signed[k]),
                                        decodable |-> TRUE]]
        /\ bundle.head = HeadBy(exporter, Len(signed))
    BY DEF TranscriptInv, WholeOK
  <2>2. exporter \in Signer
    BY DEF TranscriptInv, BundleOK
  <2>3. signed \in Seq(Envelope) /\ \A k \in DOMAIN signed : signed[k].nonce = k
    BY DEF TranscriptInv, SignedOK
  <2>4. n \in Nat /\ DOMAIN signed = 1..n
    BY <2>3
  <2>5. /\ DOMAIN s = 1..n
        /\ \A i \in 1..n : /\ s[i].seq = i /\ s[i].env = signed[i]
                           /\ s[i].signature = Signature(signed[i].sender, signed[i])
                           /\ s[i].decodable
    BY <2>1, <2>4
  <2> HIDE DEF s, n
  <2>6. DOMAIN o = 1..n /\ \A i \in 1..n : o[i] = s[i]
    BY <2>4, <2>5, OrderedInOrder
  <2>7. Len(o) = n
    BY <2>4, <2>6 DEF Ordered
  <2> HIDE DEF o
  <2>8. \A i \in 1..n : o[i].decodable /\ Digest(o[i].env) = i
    BY <2>3, <2>4, <2>5, <2>6 DEF Digest
  <2>9. \A i \in 0..n : ChainHead(o, i) = HeadOf(i)
    <3> TAKE i \in 0..n
    <3>1. i \in Nat /\ \A j \in 1..i : o[j].decodable /\ Digest(o[j].env) = j
      BY <2>4, <2>8
    <3>2. ChainHead(o, i) = [j \in 1..i |-> Digest(o[j].env)]
      BY <3>1, HeadOfDecodable
    <3> QED
      BY <3>1, <3>2 DEF HeadOf
  <2>10. HeadValid(bundle, o)
    <3>1. /\ bundle.head.lastSeq = n /\ bundle.head.hash = HeadOf(n)
          /\ bundle.head.signer = exporter /\ bundle.head.by = exporter
      BY <2>1 DEF HeadBy, n
    <3>2. n = IF o = <<>> THEN 0 ELSE o[Len(o)].seq
      <4>1. CASE n = 0
        BY <2>6, <4>1 DEF Ordered, o
      <4>2. CASE n # 0
        <5>1. n \in 1..n
          BY <2>4, <4>2
        <5>2. o # <<>>
          BY <2>6, <5>1
        <5> QED
          BY <2>5, <2>6, <2>7, <5>1, <5>2
      <4> QED
        BY <4>1, <4>2
    <3> QED
      BY <2>1, <2>2, <2>4, <2>7, <2>9, <3>1, <3>2 DEF HeadValid
  <2>11. ASSUME NEW i \in 1..n
         PROVE  SignatureValid(bundle, o[i]) /\ ChainValid(o, i) /\ Decrypts(bundle, o[i]) <=> Fits(i)
    <3>1. signed[i] \in Envelope
      BY <2>3, <2>4
    <3>2. SignatureValid(bundle, o[i])
      BY <2>1, <2>5, <2>6, <3>1 DEF SignatureValid, Envelope
    <3>3. ChainValid(o, i) <=> signed[i].prev = HeadOf(i - 1)
      <4>1. i - 1 \in 0..n
        BY <2>4
      <4> QED
        BY <2>5, <2>6, <2>9, <4>1 DEF ChainValid
    <3>4. Decrypts(bundle, o[i]) <=> signed[i].epoch >= JoinedAt[exporter]
      BY <2>1, <2>5, <2>6, <3>1, <3>2 DEF Decrypts, Envelope
    <3> QED
      BY <3>2, <3>3, <3>4
  <2>12. MembersValid(bundle)
    BY <2>1, <2>2 DEF MembersValid
  <2>13. Valid(bundle) <=> \A i \in 1..n : Fits(i)
    BY <2>6, <2>10, <2>11, <2>12 DEF Valid, o, s
  <2> QED
    BY <2>5, <2>13 DEF s
<1> QED
  BY <1>1, AlwaysGenuine, PTL

(* An agreement that is reported was signed by its accepter, as an accept of an earlier message,
   and the sender and terms shown with it are that message's, whatever else the bundle lost:
   unless the bundle lists another key under the accepter's name. *)
THEOREM AgreementsHold == TranscriptSpec => []AgreementsAreSigned
<1>1. TranscriptInv => AgreementsAreSigned
  <2> SUFFICES ASSUME TranscriptInv, bundle # Absent, NEW a \in Agreements(bundle),
                      bundle.members[a.accepter].identityPub = a.accepter
               PROVE  /\ \E k \in DOMAIN signed :
                           /\ signed[k].sender = a.accepter /\ signed[k].type = "accept"
                           /\ signed[k].ref = a.acceptsId /\ a.acceptsId < k
                      /\ a.acceptedSenderId # Absent =>
                           a.acceptedSenderId = signed[a.acceptsId].sender
                      /\ a.acceptedBody # 0 => a.acceptedBody = a.acceptsId
    BY DEF AgreementsAreSigned, Exported
  <2> DEFINE s == bundle.messages
             o == Ordered(s)
             n == Len(s)
  <2>1. n \in Nat /\ DOMAIN o = 1..n /\ DOMAIN s = 1..n
    BY OrderedPositions
  <2>2. \A k \in DOMAIN signed : signed[k].nonce = k /\ signed[k].ref < k
    BY DEF TranscriptInv, SignedOK
  <2> DEFINE A(i, ref, named, m) ==
               [accepter |-> o[i].env.sender, acceptsId |-> ref,
                acceptedSenderId |-> IF named = {} THEN Absent ELSE m.env.sender,
                acceptedBody |-> IF named # {} /\ Decrypts(bundle, m) THEN m.env.nonce ELSE 0]
  <2>3. PICK i \in Accepts(bundle, o) :
          a = A(i, o[i].env.ref, Named(o, o[i].env.ref), o[LastOf(Named(o, o[i].env.ref))])
    BY DEF Agreements
  <2> DEFINE ref == o[i].env.ref
             named == Named(o, ref)
             m == o[LastOf(named)]
  <2>4. /\ a.accepter = o[i].env.sender /\ a.acceptsId = ref
        /\ a.acceptedSenderId = IF named = {} THEN Absent ELSE m.env.sender
        /\ a.acceptedBody = IF named # {} /\ Decrypts(bundle, m) THEN m.env.nonce ELSE 0
    BY <2>3
  <2>5. i \in 1..n /\ SignatureValid(bundle, o[i]) /\ o[i].env.type = "accept" /\ ref # 0
    BY <2>1 DEF Accepts
  <2>6. \E k \in DOMAIN signed : o[i].env = signed[k]
    BY <2>1, <2>4, <2>5, SignedEntry
  <2>7. \A r \in 1..n : o[r].env \in Envelope
    <3> TAKE r \in 1..n
    <3>1. o[r] \in Entry
      BY <2>1, OrderedMade
    <3> QED
      BY <3>1 DEF Entry
  <2> HIDE DEF o, n, ref
  <2>8. \E k \in DOMAIN signed : /\ signed[k].sender = a.accepter /\ signed[k].type = "accept"
                                 /\ signed[k].ref = a.acceptsId /\ a.acceptsId < k
    BY <2>2, <2>4, <2>5, <2>6 DEF ref
  <2>9. ASSUME named # {}
        PROVE  m.env = signed[ref] /\ m.env.nonce = ref
    <3>1. named \in SUBSET (1..n) /\ \A j \in named : Digest(o[j].env) = ref
      BY <2>1 DEF Named
    <3>2. LastOf(named) \in named
      <4> HIDE DEF named
      <4> QED
        BY <2>1, <2>9, <3>1, LastOfPositions
    <3>3. m.env \in Envelope /\ Digest(m.env) = ref
      BY <2>7, <3>1, <3>2
    <3>4. ref \in DOMAIN signed /\ m.env = signed[ref]
      BY <2>5, <3>3, DigestOf
    <3> QED
      BY <2>2, <3>4
  <2> HIDE DEF named, m
  <2>10. a.acceptedSenderId # Absent => a.acceptedSenderId = signed[ref].sender
    BY <2>4, <2>9
  <2>11. a.acceptedBody # 0 => a.acceptedBody = ref
    BY <2>4, <2>9
  <2> QED
    BY <2>4, <2>8, <2>10, <2>11
<1> QED
  BY <1>1, AlwaysGenuine, PTL
=============================================================================

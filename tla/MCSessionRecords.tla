-------------------------- MODULE MCSessionRecords --------------------------
(* The relay on three identities: a session of two that a third also wants to enter,
   and a session of three; and on two of them, one of which joins a log that already
   holds messages.  The transcript of two members, one of whom joined at the second
   epoch. *)
EXTENDS SessionRecords, TLC

CONSTANTS fp1, fp2, fp3, k1, k2

MCFingerprint == {fp1, fp2, fp3}
MCTwo == {fp1, fp2}
MCKeys == {k1, k2}
MCEpochs == 0..2
MCSizes == {1, 2, 3}
MCSealEpochs == {0, 1}
MCJoinedAt == [p \in MCTwo |-> IF p = fp1 THEN 0 ELSE 1]

(* Keys and messages are explored apart: with messages only two identities take
   part and no key is posted, without messages all three and every key. *)
Apart ==
    \/ seq = 0
    \/ /\ Members \subseteq MCTwo
       /\ tornKeys = {}
       /\ handler.at # "postWraps"
       /\ \A w \in DOMAIN gkey : gkey[w] = NoKey
=============================================================================

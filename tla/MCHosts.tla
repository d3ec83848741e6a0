------------------------------ MODULE MCHosts ------------------------------
(* Two long polls racing over three messages; a session of two on the Node relay;
   processes on two ids with one keystore. *)
EXTENDS Hosts

CONSTANTS r1, r2, fp1, fp2, k1, p1, p2

MCReader == {r1, r2}
MCFingerprint == {fp1, fp2}
MCKeys == {k1}
MCSizes == {1, 2}
MCEpochs == 0..1
MCProcess == {p1, p2}

(* The three share no variable: each is explored while the others have done nothing.
   It does not matter which identity opens the session. *)
Polled == \/ lastSeq + posting > 0
          \/ \E r \in Reader : pc[r] # "idle" \/ answer[r] # {} \/ after[r] # 0 \/ expired[r]
Apart ==
    /\ requests # <<>> => ~Polled /\ requests[1].by = fp1
    /\ starts > 0 => ~Polled /\ requests = <<>>
=============================================================================

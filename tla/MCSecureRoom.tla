---------------------------- MODULE MCSecureRoom ----------------------------
(* SecureRoom with one joiner and with two; agents that make one tool call at
   a time, and an agent that makes two. *)
EXTENDS SecureRoom, TLC

CONSTANTS creator, j1, j2, s1, s2

MCOneJoiner == {j1}
MCTwoJoiners == {j1, j2}
MCOneCall == {s1}
MCTwoCalls == {s1, s2}
MCAllTools == {"send", "receive", "getStatus", "getSAS", "export"}
MCTalk == {"send", "receive"}
MCWaiting == {"sendAndWait", "waitForMessage"}
MCWaitingAndLooking == MCWaiting \cup {"getStatus", "getSAS", "export"}

MCAllCalls ==
    {"joinSession", "status", "postKeys", "getKey", "getMessages", "postMessage", "wait"}
(* All but the call a lost answer of which leaves two keys for one epoch. *)
MCSafeCalls == MCAllCalls \ {"postKeys"}

Talk ==
    \A p \in Member, s \in Slot : call[p][s].at = "idle" \/ call[p][s].op \in MCTalk \cup {"join"}

Busy == {p \in Member : \E s \in Slot : call[p][s] # Idle}

(* With one joiner, two sends and a lost call are tried with send and receive, one send with
   all tools; two joiners send once and receive, two of the three at a time, and nothing is
   lost.  Two calls of a client overlap where one joiner and the creator send once and receive;
   the other client makes one call at a time, for of two that overlapped nothing is claimed. *)
InBounds ==
    IF overlapped = {}
      THEN \/ Cardinality(connected) <= 2 /\ (Talk \/ (losses = 0 /\ sends <= 1))
           \/ sends <= 1 /\ losses = 0 /\ Talk /\ Cardinality(Busy) <= 2
      ELSE /\ Cardinality(overlapped) = 1 /\ Cardinality(connected) <= 2
           /\ sends <= 1 /\ losses = 0 /\ lastKey <= 2 /\ Talk

(* Slots are alike: the second is taken only beside the first. *)
SecondSlotLast == \A p \in Member : call[p][s2] = Idle /\ call'[p][s2] # Idle => call[p][s1] # Idle

BoundedSpec == Init /\ [][Next /\ SecondSlotLast /\ InBounds']_vars

(* Where agents wait, one of them looks (getStatus, getSAS, exportTranscript) before anything
   was sent or lost, and while no other call runs; calls may begin while it looks. *)
Looks(p, s) == call[p][s] # Idle /\ call[p][s].op \notin MCWaiting \cup {"join"}
LooksFirst ==
    \A p \in Member, s \in Slot :
        ~Looks(p, s) /\ Looks(p, s)' => Busy = {} /\ sends = 0 /\ losses = 0

Symmetry == Permutations(MCTwoJoiners)
=============================================================================

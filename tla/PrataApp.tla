------------------------------ MODULE PrataApp ------------------------------
(***************************************************************************)
(* The macOS app on one saved room: the session that follows it and the      *)
(* queue of instructions.  They meet where the room is forgotten and where     *)
(* the app starts again.                                                      *)
(***************************************************************************)
EXTENDS PrataSession, PrataQueue

vars == <<sessionVars, queueVars>>

Init == SessionInit /\ QueueInit

(* forgetRoom: the room leaves savedRooms, syncSessions stops its session, and the
   stored queue is removed. *)
Forget == Stop /\ ForgetQueue

(* A new process: its session starts afresh on the stored endpoint, its queue with
   what was stored. *)
Relaunch ==
    /\ loop # 0
    /\ restarts < MaxRestart
    /\ restarts' = restarts + 1
    /\ loop' = restarts + 2
    /\ task' = [i \in Task |-> IF i = loop' THEN Ready ELSE Gone]
    /\ messages' = {}
    /\ cursor' = 0
    /\ didLoadHistory' = FALSE
    /\ unreadCount' = 0
    /\ connection' = "idle"
    /\ isVisible' = FALSE
    /\ mixed' = FALSE
    /\ ReloadQueue
    /\ UNCHANGED <<room, endpoint, posts, fails>>

Next ==
    \/ SessionNext /\ UNCHANGED queueVars
    \/ QueueNext /\ UNCHANGED sessionVars
    \/ Forget
    \/ Relaunch

Spec == Init /\ [][Next]_vars
FairSpec == Spec /\ SessionFairness

-----------------------------------------------------------------------------
(* Every variable has its type; what is shown has one message for a number, and what is
   stored of the queue stays within its cap (RoomSession.swift:186). *)
TypeOK == SessionTypeOK /\ QueueTypeOK

=============================================================================

--------------------------- MODULE SessionRecords ---------------------------
(***************************************************************************)
(* The two records of a session: the log that the relay keeps and hands out,  *)
(* and the bundle that a member exports and anybody verifies.  They share no   *)
(* state, so that it is enough to let one run while the other has done nothing. *)
(***************************************************************************)
EXTENDS RelaySession, Transcript

recordsVars == <<vars, transcriptVars>>

RecordsInit == Init /\ TranscriptInit

RecordsNext ==
    \/ TranscriptInit /\ Next /\ UNCHANGED transcriptVars
    \/ Init /\ TranscriptNext /\ UNCHANGED vars

RecordsSpec == RecordsInit /\ [][RecordsNext]_recordsVars

=============================================================================

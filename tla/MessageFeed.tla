---------------------------- MODULE MessageFeed ----------------------------
(***************************************************************************)
(* What the relay promises about messages, and nothing of how: one         *)
(* append-only log per session.  An entry is a pair <<n, a>> of the number *)
(* the relay gave it and its author.  A new entry gets a number above every *)
(* entry published before; an entry never changes and never goes away; a   *)
(* reader that polls is brought to the whole log, so that what it has seen *)
(* is always a prefix: nothing missed, nothing twice, nothing out of order. *)
(***************************************************************************)
EXTENDS Naturals

CONSTANTS
    Author,   \* who may publish
    Reader,   \* who may poll
    Number    \* the numbers an entry may get

VARIABLES
    log,      \* the entries published so far
    seen,     \* seen[r]: the entries handed to reader r so far
    batch     \* batch[r]: the entries its last poll handed it

vars == <<log, seen, batch>>

Init ==
    /\ log = {}
    /\ seen = [r \in Reader |-> {}]
    /\ batch = [r \in Reader |-> {}]

Publish(n, a) ==
    /\ \A e \in log : e[1] < n
    /\ log' = log \cup {<<n, a>>}
    /\ UNCHANGED <<seen, batch>>

Deliver(r) ==
    /\ batch' = [batch EXCEPT ![r] = log \ seen[r]]
    /\ seen' = [seen EXCEPT ![r] = log]
    /\ UNCHANGED log

Next ==
    \/ \E n \in Number, a \in Author : Publish(n, a)
    \/ \E r \in Reader : Deliver(r)

Spec == Init /\ [][Next]_vars

-----------------------------------------------------------------------------
(* What a reader has seen is a prefix of the log: an entry numbered below one
   it has seen has been seen too. *)
SeenIsPrefix ==
    \A r \in Reader : \A e \in seen[r], f \in log : f[1] <= e[1] => f \in seen[r]

=============================================================================

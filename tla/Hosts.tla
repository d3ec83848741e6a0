------------------------------- MODULE Hosts -------------------------------
(***************************************************************************)
(* What the session engine and the local servers stand on: the waiters of     *)
(* the Durable Object, the chain of the Node relay, the keystore of a machine. *)
(* They share no state, and run side by side.                                *)
(***************************************************************************)
EXTENDS LongPoll, NodeRelay, Keystore

hostsVars == <<vars, nodeVars, keystoreVars>>

HostsInit == Init /\ NodeInit /\ KeystoreInit

HostsNext ==
    \/ Next /\ UNCHANGED <<nodeVars, keystoreVars>>
    \/ NodeNext /\ UNCHANGED <<vars, keystoreVars>>
    \/ KeystoreNext /\ UNCHANGED <<vars, nodeVars>>

HostsSpec == HostsInit /\ [][HostsNext]_hostsVars /\ Fairness /\ NodeFairness

=============================================================================

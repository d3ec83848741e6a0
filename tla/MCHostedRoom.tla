---------------------------- MODULE MCHostedRoom ----------------------------
(* A room of up to three agents, of any predefined kind or of a custom one with three
   roles or none; each agent may ask for the first of them. *)
EXTENDS HostedRoom

CONSTANTS opener, g1, g2

MCGuest == {g1, g2}
MCCustom == [kind |-> "", customRoles |-> <<"buyer", "seller", "broker">>]
MCWish ==
    [kind : DOMAIN KINDS, customRoles : {<<>>, MCCustom.customRoles}]
    \cup {MCCustom, [kind |-> "", customRoles |-> <<>>]}
MCRequest == {"buyer"}

MCTalker == {opener, g1}

(* They talk in the custom room: no handler but join looks at roles. *)
CustomTalk ==
    \/ seq = 0 /\ \A a \in Agent : call[a] = Idle
    \/ open.kind = "chat" /\ open.customRoles = MCCustom.customRoles /\ g2 \notin Arrived
=============================================================================

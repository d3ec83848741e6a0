------------------------------- MODULE Kinds -------------------------------
(***************************************************************************)
(* Room kinds and their roles (packages/core/src/kinds.ts), and how each tier *)
(* picks a role with them: the hosted rooms, and the rooms of the key-holding   *)
(* clients, where a client does not know how many came before it.  Texts are     *)
(* left out but for whose guidance is shown.                                   *)
(***************************************************************************)
EXTENDS Integers, Sequences

(* Mutant: a kind with a role for a third party. *)
KINDSThree ==
    [negotiation |-> <<"buyer", "seller", "mediator">>, scheduling |-> <<"organizer", "guest">>,
     drafting |-> <<"author", "reviewer">>, brainstorm |-> <<"peer">>,
     interview |-> <<"interviewer", "candidate">>, intro |-> <<"peer">>]

(* The predefined kinds, each with its roles in order. *)
KINDS ==
    [negotiation |-> <<"buyer", "seller">>, scheduling |-> <<"organizer", "guest">>,
     drafting |-> <<"author", "reviewer">>, brainstorm |-> <<"peer">>,
     interview |-> <<"interviewer", "candidate">>, intro |-> <<"peer">>]

(* A kind is one of the predefined, or a name the opener made up.  Not followed: a name that
   every JavaScript object inherits, which the look-up would find as well. *)
RolesForKind(kind) == IF kind \in DOMAIN KINDS THEN KINDS[kind] ELSE <<>>

(* The role of the member at a position counted from 0. *)
AssignRole(roleKeys, order) ==
    IF roleKeys = <<>> THEN "participant"
    ELSE roleKeys[IF order < Len(roleKeys) THEN order + 1 ELSE Len(roleKeys)]

RoleByOrder(kind, order) == AssignRole(RolesForKind(kind), order)

(* Whose guidance a role has: the kind's, or none. *)
NoGuidance == <<>>
KindGuidance(kind, role) ==
    IF \E i \in DOMAIN RolesForKind(kind) : RolesForKind(kind)[i] = role
    THEN <<kind, role>> ELSE NoGuidance

RoomContext(kind, role, roleGuidance) ==
    [kind |-> kind, role |-> role,
     guidance |-> IF roleGuidance # NoGuidance THEN roleGuidance ELSE KindGuidance(kind, role)]

-----------------------------------------------------------------------------
(* RandevuLocal: openRoom takes the first role, joinRoom the second, whoever joins. *)
OpenRoomRole(kind) == IF kind = "" THEN "" ELSE RoleByOrder(kind, 0)
JoinRoomRole(kind) == IF kind = "" THEN "" ELSE RoleByOrder(kind, 1)

(* Room.join: a custom kind has the roles its opener gave it. *)
HostedRoleKeys(kind, customRoles) ==
    IF kind \in DOMAIN KINDS THEN KINDS[kind] ELSE customRoles
HostedGuidance(kind, role, customRoles) ==
    IF KindGuidance(kind, role) # NoGuidance THEN KindGuidance(kind, role)
    ELSE IF \E i \in DOMAIN customRoles : customRoles[i] = role THEN <<"custom", role>>
    ELSE NoGuidance
=============================================================================

------------------------------- MODULE People -------------------------------
(***************************************************************************)
(* An account, its sessions and its memberships: accepting an invitation   *)
(* signs in, and both sides write the account's role and shop.             *)
(***************************************************************************)
EXTENDS Membership

vars == <<authVars, shopVars>>

Init == SessionInit /\ MembershipInit

Next ==
    \/ SessionStep /\ UNCHANGED shopVars
    \/ MembershipStep

Spec == Init /\ [][Next]_vars

TypeOK ==
    /\ account \in Account
    /\ tokens \in Seq(Token)
    /\ links \in [sent : Nat, usable : SUBSET Nat]
    /\ wipes \in [begun : Nat, ended : SUBSET Nat]
    /\ req \in [Clients -> SessionReq \cup MembershipReq]
    /\ served \in Nat
    /\ staff \in [Shops -> {"none", "active", "inactive"}]
    /\ staffInvite \in [Shops -> Invite]
    /\ mechanic \in [Shops -> Mechanic]
    /\ mechanicInvite \in [Shops -> Invite]
=============================================================================

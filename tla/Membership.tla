----------------------------- MODULE Membership -----------------------------
(***************************************************************************)
(* Where the account of Sessions works: invitations and rows of staff      *)
(* (routes/staff.js) and of mechanics (routes/mechanic/auth.js and         *)
(* shop-admin.js), and what an administrator makes of the account          *)
(* (routes/admin.js).                                                      *)
(***************************************************************************)
EXTENDS Sessions

VARIABLES
    staff,           \* shop_users of the account: none, active or inactive
    staffInvite,     \* staff_invites to its e-mail
    mechanic,        \* shop_mechanics of the account: approval_status, is_active
    mechanicInvite   \* mechanic_invites to its e-mail

shopVars == <<staff, staffInvite, mechanic, mechanicInvite>>
staffVars == <<staff, staffInvite>>
mechanicVars == <<mechanic, mechanicInvite>>
sessionVars == <<tokens, links, wipes>>

Invite == {"none", "PENDING", "VERIFIED", "CANCELLED"}
Mechanic == [approval : {"none", "PENDING", "ACTIVE", "REJECTED"}, isActive : BOOLEAN]
NoMechanic == [approval |-> "none", isActive |-> FALSE]
Approved == [approval |-> "ACTIVE", isActive |-> TRUE]

-----------------------------------------------------------------------------
(* POST /shop/staff/invite: not somebody of another shop.                  *)
InviteStaff(c) ==
    \E s \in Shops :
        /\ account.shop \in {NoShop, s}
        /\ staff[s] # "active"
        /\ AtOnce(c)
        /\ staffInvite' = [staffInvite EXCEPT ![s] = "PENDING"]
        /\ UNCHANGED <<account, sessionVars, staff, mechanicVars>>

CancelStaffInvite(c) ==
    \E s \in Shops :
        /\ staffInvite[s] = "PENDING"
        /\ AtOnce(c)
        /\ staffInvite' = [staffInvite EXCEPT ![s] = "CANCELLED"]
        /\ UNCHANGED <<account, sessionVars, staff, mechanicVars>>

(* POST /staff-invite/accept: the invitation is read and the code checked; *)
(* the transaction reads the account, and then writes it, the membership   *)
(* and the invitation.  A session follows.                                 *)
BeginAcceptStaff(c) ==
    \E s \in Shops :
        /\ staffInvite[s] = "PENDING"
        /\ account.named
        /\ Begin(c, [op |-> "staffAccept", shop |-> s])
        /\ UNCHANGED <<account, sessionVars, shopVars>>

CheckAcceptStaff(c) ==
    LET s == req[c].shop IN
    /\ req[c].op = "staffAccept"
    /\ IF account.shop \in {NoShop, s}
       THEN Continue(c, [op |-> "staffChecked", shop |-> s, known |-> Exists])
       ELSE End(c)
    /\ UNCHANGED <<account, sessionVars, shopVars>>

(* The account of the transaction: one that was read is updated, one that  *)
(* was not there is created, which fails if another request created it.    *)
Writable(c) == req[c].known \/ ~Exists

CommitAcceptStaff(c) ==
    LET s == req[c].shop IN
    /\ req[c].op = "staffChecked"
    /\ Writable(c)
    /\ account' = [account EXCEPT !.role = "SHOP_STAFF", !.shop = s]
    /\ staff' = [staff EXCEPT ![s] = "active"]
    /\ staffInvite' = [staffInvite EXCEPT ![s] = "VERIFIED"]
    /\ Continue(c, SignInAndWelcome)
    /\ UNCHANGED <<sessionVars, mechanicVars>>

(* PATCH /:id/deactivate, PATCH /:id/reactivate, DELETE /:id.              *)
ChangeStaff(c) ==
    \E s \in Shops, to \in {"active", "inactive", "none"} :
        /\ staff[s] # "none"
        /\ AtOnce(c)
        /\ staff' = [staff EXCEPT ![s] = to]
        /\ UNCHANGED <<account, sessionVars, staffInvite, mechanicVars>>

-----------------------------------------------------------------------------
(* POST /shop/mechanics/invite.                                            *)
InviteMechanic(c) ==
    \E s \in Shops :
        /\ ~mechanic[s].isActive
        /\ AtOnce(c)
        /\ mechanicInvite' = [mechanicInvite EXCEPT ![s] = "PENDING"]
        /\ UNCHANGED <<account, sessionVars, staffVars, mechanic>>

(* POST /mechanic/team/invite: a head mechanic looks at no membership.     *)
InviteToTeam(c) ==
    \E s \in Shops :
        /\ AtOnce(c)
        /\ mechanicInvite' = [mechanicInvite EXCEPT ![s] = "PENDING"]
        /\ UNCHANGED <<account, sessionVars, staffVars, mechanic>>

CancelMechanicInvite(c) ==
    \E s \in Shops :
        /\ mechanicInvite[s] = "PENDING"
        /\ AtOnce(c)
        /\ mechanicInvite' = [mechanicInvite EXCEPT ![s] = "CANCELLED"]
        /\ UNCHANGED <<account, sessionVars, staffVars, mechanic>>

(* POST /mechanic-auth/accept: whatever shop the account belonged to.      *)
BeginAcceptMechanic(c) ==
    \E s \in Shops :
        /\ mechanicInvite[s] = "PENDING"
        /\ account.named
        /\ Begin(c, [op |-> "mechanicAccept", shop |-> s])
        /\ UNCHANGED <<account, sessionVars, shopVars>>

CommitAcceptMechanic(c) ==
    LET s == req[c].shop IN
    /\ req[c].op = "mechanicAccept"
    /\ account' = [account EXCEPT !.role = "MECHANIC", !.shop = s]
    /\ mechanic' = [mechanic EXCEPT ![s] = Approved]
    /\ mechanicInvite' = [mechanicInvite EXCEPT ![s] = "VERIFIED"]
    /\ Continue(c, SignInAndWelcome)
    /\ UNCHANGED <<sessionVars, staffVars>>

(* POST /mechanic-auth/register with a shop's join code: the memberships   *)
(* are read, then one transaction creates the account if there was none    *)
(* and puts the membership back to PENDING.                                *)
BeginRegister(c) ==
    \E s \in Shops :
        /\ mechanic[s] # Approved
        /\ mechanic[s].approval # "PENDING"
        /\ account.named
        /\ Begin(c, [op |-> "register", shop |-> s, known |-> Exists])
        /\ UNCHANGED <<account, sessionVars, shopVars>>

Awaiting_StillActive(m) == [m EXCEPT !.approval = "PENDING"]
Awaiting(m) == [approval |-> "PENDING", isActive |-> FALSE]

CommitRegister(c) ==
    LET s == req[c].shop IN
    /\ req[c].op = "register"
    /\ Writable(c)
    /\ account' = IF req[c].known THEN account
                  ELSE [NoAccount EXCEPT !.role = "MECHANIC", !.shop = s]
    /\ mechanic' = [mechanic EXCEPT ![s] = Awaiting(@)]
    /\ End(c)
    /\ UNCHANGED <<sessionVars, staffVars, mechanicInvite>>

(* Another request created the account first: the unique e-mail refuses.   *)
Refused(c) ==
    /\ req[c].op \in {"register", "staffChecked"}
    /\ ~Writable(c)
    /\ End(c)
    /\ UNCHANGED <<account, sessionVars, shopVars>>

(* PATCH /:id/approve reads the row and updates it where it is PENDING;    *)
(* PATCH /:id/reject is that update alone.                                 *)
BeginApprove(c) ==
    \E s \in Shops :
        /\ mechanic[s].approval = "PENDING"
        /\ Begin(c, [op |-> "approve", shop |-> s])
        /\ UNCHANGED <<account, sessionVars, shopVars>>

CommitApprove(c) ==
    LET s == req[c].shop IN
    /\ req[c].op = "approve"
    /\ mechanic' = [mechanic EXCEPT ![s] = IF @.approval = "PENDING" THEN Approved ELSE @]
    /\ Continue(c, Welcome)
    /\ UNCHANGED <<account, sessionVars, staffVars, mechanicInvite>>

Reject(c) ==
    \E s \in Shops :
        /\ mechanic[s].approval = "PENDING"
        /\ AtOnce(c)
        /\ mechanic' = [mechanic EXCEPT ![s] = [approval |-> "REJECTED", isActive |-> FALSE]]
        /\ UNCHANGED <<account, sessionVars, staffVars, mechanicInvite>>

(* PATCH /:id/deactivate keeps the approval; PATCH /:id/reactivate gives   *)
(* it.                                                                     *)
ActivateMechanic(c) ==
    \E s \in Shops, to \in BOOLEAN :
        /\ mechanic[s].approval # "none"
        /\ AtOnce(c)
        /\ mechanic' = [mechanic EXCEPT ![s] =
                          IF to THEN Approved ELSE [@ EXCEPT !.isActive = FALSE]]
        /\ UNCHANGED <<account, sessionVars, staffVars, mechanicInvite>>

(* POST /mechanic-auth/register-independent: a mechanic without a shop.    *)
RegisterIndependent(c) ==
    /\ ~Exists
    /\ account' = [NoAccount EXCEPT !.role = "MECHANIC", !.password = TRUE]
    /\ Begin(c, SignIn)
    /\ UNCHANGED <<sessionVars, shopVars>>

(* POST /convert-to-mechanic.                                              *)
BeginConvert(c) ==
    /\ Authenticated
    /\ account.role # "MECHANIC"
    /\ Begin(c, [op |-> "convert"])
    /\ UNCHANGED <<account, sessionVars, shopVars>>

FinishConvert(c) ==
    /\ req[c].op = "convert"
    /\ account' = [account EXCEPT !.role = "MECHANIC", !.shop = NoShop]
    /\ End(c)
    /\ UNCHANGED <<sessionVars, shopVars>>

-----------------------------------------------------------------------------
(* The administrator's POST /users/create and PATCH /users/:userId/        *)
(* usertype: a mechanic of a shop gets the row of that shop alone, in two  *)
(* statements, and no shopId.                                              *)
UserTypes == {"CUSTOMER", "SHOP_OWNER", "MECHANIC"}
ThenUpsert(c, role, s) ==
    IF role = "MECHANIC" /\ s # NoShop
    THEN Begin(c, [op |-> "upsert", shop |-> s])
    ELSE s = NoShop /\ AtOnce(c)

AdminCreates(c) ==
    \E role \in UserTypes, s \in Shops \cup {NoShop} :
        /\ ~Exists
        /\ account' = [NoAccount EXCEPT !.role = role, !.password = TRUE,
                         !.verification = IF role = "SHOP_OWNER" THEN "APPROVED" ELSE @]
        /\ ThenUpsert(c, role, s)
        /\ UNCHANGED <<sessionVars, shopVars>>

SetUserType(c) ==
    \E role \in UserTypes, s \in Shops \cup {NoShop} :
        /\ Exists
        /\ account' = [account EXCEPT !.role = role]
        /\ ThenUpsert(c, role, s)
        /\ UNCHANGED <<sessionVars, shopVars>>

ClearMechanics(c) ==
    /\ req[c].op = "upsert"
    /\ mechanic' = [s \in Shops |-> NoMechanic]
    /\ Continue(c, [op |-> "insert", shop |-> req[c].shop])
    /\ UNCHANGED <<account, sessionVars, staffVars, mechanicInvite>>

InsertMechanic(c) ==
    LET s == req[c].shop IN
    /\ req[c].op = "insert"
    /\ mechanic' = [mechanic EXCEPT ![s] = IF @ = NoMechanic THEN Approved ELSE @]
    /\ End(c)
    /\ UNCHANGED <<account, sessionVars, staffVars, mechanicInvite>>

-----------------------------------------------------------------------------
MembershipReq ==
    [op : {"staffAccept", "mechanicAccept", "approve", "upsert", "insert"}, shop : Shops]
    \cup [op : {"staffChecked", "register"}, shop : Shops, known : BOOLEAN]
    \cup [op : {"convert"}]

MembershipInit ==
    /\ staff = [s \in Shops |-> "none"]
    /\ staffInvite = [s \in Shops |-> "none"]
    /\ mechanic = [s \in Shops |-> NoMechanic]
    /\ mechanicInvite = [s \in Shops |-> "none"]

MembershipStep ==
    \E c \in Clients :
        \/ InviteStaff(c) \/ CancelStaffInvite(c)
        \/ BeginAcceptStaff(c) \/ CheckAcceptStaff(c) \/ CommitAcceptStaff(c)
        \/ ChangeStaff(c)
        \/ InviteMechanic(c) \/ InviteToTeam(c) \/ CancelMechanicInvite(c)
        \/ BeginAcceptMechanic(c) \/ CommitAcceptMechanic(c)
        \/ BeginRegister(c) \/ CommitRegister(c) \/ Refused(c)
        \/ BeginApprove(c) \/ CommitApprove(c) \/ Reject(c) \/ ActivateMechanic(c)
        \/ RegisterIndependent(c) \/ BeginConvert(c) \/ FinishConvert(c)
        \/ AdminCreates(c) \/ SetUserType(c) \/ ClearMechanics(c) \/ InsertMechanic(c)

(* Whoever works in a workshop was approved by it: no interleaving of      *)
(* invitations, registrations, approvals and an administrator's upsert     *)
(* leaves a row active without its approval, or approved and active        *)
(* without an account.                                                     *)
ActiveMeansApproved ==
    \A s \in Shops : mechanic[s].isActive => mechanic[s].approval = "ACTIVE" /\ Exists
=============================================================================

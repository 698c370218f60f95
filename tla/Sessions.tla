------------------------------ MODULE Sessions ------------------------------
(***************************************************************************)
(* One account and its refresh tokens (routes/auth): signing in, rotating  *)
(* a token, ending sessions, resetting the password, setting up a shop and *)
(* an administrator's verdict on it (routes/admin.js).                     *)
(*                                                                         *)
(* The rows of different accounts never meet in these handlers, so one     *)
(* account is enough.  A token's hash is its index: a row that was deleted *)
(* stays in the sequence, since its index is never given again.            *)
(***************************************************************************)
EXTENDS Naturals, Sequences, FiniteSets

CONSTANTS
    Clients,       \* requests being served at once
    Shops,         \* shops that hire
    NoShop,        \* a null shopId
    OwnShop,       \* the shop that the account opens itself
    KeptSessions,  \* sessions that a sign-in leaves beside its own: 4 in the code
    MaxTokens,     \* bound on the tokens ever issued
    MaxRequests    \* bound on the requests ever served

ASSUME SessionsAssumption ==
    /\ NoShop \notin Shops /\ OwnShop \notin Shops /\ NoShop # OwnShop
    /\ KeptSessions \in Nat
    /\ MaxTokens \in Nat
    /\ MaxRequests \in Nat

VARIABLES
    account,   \* role, shop, isActive and verificationStatus of the user row
    tokens,    \* refresh_tokens, in the order of their creation
    links,     \* password_reset_tokens: how many were sent, and which may be used
    wipes,     \* statements that delete all tokens: how many began, which ended
    req,       \* the requests being served
    served     \* how many requests were begun

authVars == <<account, tokens, links, wipes, req, served>>

Roles == {"none", "CUSTOMER", "SHOP_OWNER", "SHOP_STAFF", "MECHANIC"}
(* named: the row has an e-mail or a phone by which it can be found.       *)
Account == [role : Roles, shop : Shops \cup {NoShop, OwnShop}, isActive : BOOLEAN,
            named : BOOLEAN, password : BOOLEAN,
            verification : {"NOT_REQUIRED", "PENDING", "APPROVED", "REJECTED"}]
NoAccount == [role |-> "none", shop |-> NoShop, isActive |-> TRUE,
              named |-> TRUE, password |-> FALSE, verification |-> "NOT_REQUIRED"]

(* revokedAt is null; set within the grace of a minute; set before it; the *)
(* row is gone.  since counts the wipes begun when its sign-in was         *)
(* admitted; spared are the wipes that its rows were put in too late for.  *)
Token == [status : {"live", "grace", "stale", "deleted"}, since : Nat, spared : SUBSET Nat]

Idle == [op |-> "idle"]
Welcome == [op |-> "welcome"]
Exists == account.role # "none"
(* authenticate: the row is read again for every request of a signed-in    *)
(* user, who need not hold a live refresh token.                           *)
Authenticated == Exists /\ account.isActive
Barred(a) == a.role = "SHOP_OWNER" /\ a.verification \in {"PENDING", "REJECTED"}

-----------------------------------------------------------------------------
Begin(c, q) ==
    /\ req[c] = Idle
    /\ served < MaxRequests
    /\ served' = served + 1
    /\ req' = [req EXCEPT ![c] = q]

Continue(c, q) == req' = [req EXCEPT ![c] = q] /\ UNCHANGED served
End(c) == Continue(c, Idle)

(* A request of one statement.                                             *)
AtOnce(c) == req[c] = Idle /\ served < MaxRequests /\ served' = served + 1 /\ UNCHANGED req

Deleted(ts, ids) == [i \in DOMAIN ts |-> IF i \in ids THEN [ts[i] EXCEPT !.status = "deleted"]
                                         ELSE ts[i]]

(* The transaction of a rotation holds the lock of the row it revoked.     *)
Locked(i) == \E c \in Clients : req[c].op = "rotating" /\ req[c].token = i

(* A statement that deletes all tokens (READ COMMITTED): it goes by the    *)
(* rows that are there as it begins, waits for those that are locked, and  *)
(* takes effect as it ends.                                                *)
Wipe(next) == [op |-> "wiping", no |-> wipes.begun + 1, next |-> next,
               ids |-> {i \in DOMAIN tokens : tokens[i].status # "deleted"}]
BeginWipe == wipes' = [wipes EXCEPT !.begun = @ + 1] /\ UNCHANGED tokens
EndWipe(c) ==
    /\ req[c].op = "wiping"
    /\ \A i \in req[c].ids : ~Locked(i)
    /\ tokens' = Deleted(tokens, req[c].ids)
    /\ wipes' = [wipes EXCEPT !.ended = @ \cup {req[c].no}]
UnderWay == {req[c].no : c \in {d \in Clients : req[d].op = "wiping"}}

(* createSession: the sessions beyond the newest few.                      *)
Excess ==
    LET Live == {i \in DOMAIN tokens : tokens[i].status = "live"} IN
    {i \in Live : Cardinality({j \in Live : j > i}) >= KeptSessions}
SignIn == [op |-> "signIn", excess |-> Excess, since |-> wipes.begun, next |-> Idle]
SignInAndWelcome == [SignIn EXCEPT !.next = Welcome]

CreateSession(c) ==
    /\ req[c].op = "signIn"
    /\ Len(tokens) < MaxTokens
    /\ \A i \in req[c].excess : ~Locked(i)
    /\ tokens' = Append(Deleted(tokens, req[c].excess),
                        [status |-> "live", since |-> req[c].since, spared |-> 1 .. wipes.begun])
    /\ Continue(c, req[c].next)
    /\ UNCHANGED <<account, links, wipes>>

-----------------------------------------------------------------------------
SelfRoles == {"CUSTOMER", "SHOP_OWNER"}
NewAccount(roles) == ~Exists /\ \E role \in roles : account' = [NoAccount EXCEPT !.role = role]

(* POST /register: an owner without a shop is signed in too, so that shop  *)
(* setup can be called.                                                    *)
Register(c) ==
    \E role \in SelfRoles :
        /\ ~Exists
        /\ account' = [NoAccount EXCEPT !.role = role, !.password = TRUE]
        /\ Begin(c, SignIn)
        /\ UNCHANGED <<tokens, links, wipes>>

(* POST /login.                                                            *)
Login(c) ==
    /\ Exists /\ account.named /\ account.password
    /\ account.isActive
    /\ ~Barred(account)
    /\ Begin(c, SignIn)
    /\ UNCHANGED <<account, tokens, links, wipes>>

(* POST /verify-otp asks nobody whether the account is active.             *)
VerifyOtp(c) ==
    /\ \/ NewAccount(SelfRoles)
       \/ Exists /\ account.named /\ ~Barred(account) /\ UNCHANGED account
    /\ Begin(c, SignIn)
    /\ UNCHANGED <<tokens, links, wipes>>

(* POST /firebase, /google: the account is found by the provider's id even *)
(* when it was deleted, and gets the e-mail before it is refused.          *)
ByProvider(c, roles) ==
    /\ \/ NewAccount(roles)
       \/ Exists /\ \E mail \in BOOLEAN : account' = [account EXCEPT !.named = @ \/ mail]
    /\ IF account'.isActive /\ ~Barred(account') THEN Begin(c, SignIn) ELSE AtOnce(c)
    /\ UNCHANGED <<tokens, links, wipes>>
Firebase(c) == ByProvider(c, SelfRoles)
Google(c) == ByProvider(c, SelfRoles \cup {"MECHANIC"})

(* POST /refresh of a token that is live or was revoked a moment ago.      *)
Refreshable(i) == tokens[i].status \in {"live", "grace"}
BeginRefresh(c) ==
    \E i \in DOMAIN tokens :
        /\ Refreshable(i)
        /\ account.isActive
        /\ ~Barred(account)
        /\ Begin(c, [op |-> "refresh", token |-> i])
        /\ UNCHANGED <<account, tokens, links, wipes>>

RefuseRefresh(c) ==
    \E i \in DOMAIN tokens :
        /\ Refreshable(i)
        /\ ~Locked(i)
        /\ ~account.isActive \/ Barred(account)
        /\ AtOnce(c)
        /\ tokens' = [tokens EXCEPT ![i].status = "grace"]
        /\ UNCHANGED <<account, links, wipes>>

(* refreshToken.update by id: it fails when the row is gone.               *)
RowExists_UpdateMany(i) == TRUE
RowExists(i) == tokens[i].status # "deleted"

(* The transaction of a rotation revokes the row, whose lock it then       *)
(* holds, and puts in the row that follows it: nobody sees either before   *)
(* it commits.                                                             *)
Revoke(c) ==
    /\ req[c].op = "refresh"
    /\ RowExists(req[c].token)
    /\ ~Locked(req[c].token)
    /\ Continue(c, [op |-> "rotating", token |-> req[c].token])
    /\ UNCHANGED <<account, tokens, links, wipes>>

Rotate(c) ==
    LET i == req[c].token IN
    /\ req[c].op = "rotating"
    /\ Len(tokens) < MaxTokens
    /\ tokens' = Append([tokens EXCEPT ![i].status = IF @ = "deleted" THEN @ ELSE "grace"],
                        [tokens[i] EXCEPT !.status = "live", !.spared = @ \cup UnderWay])
    /\ End(c)
    /\ UNCHANGED <<account, links, wipes>>

FailRotation(c) ==
    /\ req[c].op = "refresh"
    /\ ~RowExists(req[c].token)
    /\ End(c)
    /\ UNCHANGED <<account, tokens, links, wipes>>

(* A minute after a token was revoked.                                     *)
GraceEnds ==
    \E i \in DOMAIN tokens :
        /\ tokens[i].status = "grace"
        /\ tokens' = [tokens EXCEPT ![i].status = "stale"]
        /\ UNCHANGED <<account, links, wipes, req, served>>

(* POST /logout, DELETE /sessions/:id.                                     *)
Logout(c) ==
    \E i \in DOMAIN tokens :
        /\ tokens[i].status = "live"
        /\ ~Locked(i)
        /\ AtOnce(c)
        /\ tokens' = [tokens EXCEPT ![i].status = "grace"]
        /\ UNCHANGED <<account, links, wipes>>

(* POST /logout-all.                                                       *)
LogoutAll(c) ==
    /\ Authenticated
    /\ Begin(c, Wipe(Idle))
    /\ BeginWipe
    /\ UNCHANGED <<account, links>>

(* The end of the statement, but for the one of a password reset.          *)
FinishWipe(c) ==
    /\ EndWipe(c)
    /\ req[c].next.op # "reset"
    /\ Continue(c, req[c].next)
    /\ UNCHANGED <<account, links>>

-----------------------------------------------------------------------------
(* DELETE /me: the tokens first, the account in a second statement.        *)
BeginDelete(c) ==
    /\ Authenticated
    /\ Begin(c, Wipe([op |-> "delete"]))
    /\ BeginWipe
    /\ UNCHANGED <<account, links>>

FinishDelete(c) ==
    /\ req[c].op = "delete"
    /\ account' = [account EXCEPT !.isActive = FALSE, !.named = FALSE,
                     !.password = FALSE]
    /\ End(c)
    /\ UNCHANGED <<tokens, links, wipes>>

(* A link to set a password: the older ones are spent, then one is sent.   *)
(* POST /forgot-password does this, and every welcome by e-mail.           *)
ForgotPassword(c) ==
    /\ Exists /\ account.named
    /\ Begin(c, [op |-> "newLink"])
    /\ links' = [links EXCEPT !.usable = {}]
    /\ UNCHANGED <<account, tokens, wipes>>

BeginWelcome(c) ==
    /\ req[c] = Welcome
    /\ links' = [links EXCEPT !.usable = {}]
    /\ Continue(c, [op |-> "newLink"])
    /\ UNCHANGED <<account, tokens, wipes>>

SendLink(c) ==
    /\ req[c].op = "newLink"
    /\ links' = [sent |-> links.sent + 1, usable |-> links.usable \cup {links.sent + 1}]
    /\ End(c)
    /\ UNCHANGED <<account, tokens, wipes>>

(* POST /reset-password: the link is read, the password hashed, and then   *)
(* one transaction sets it, spends the link and deletes all tokens.        *)
BeginReset(c) ==
    \E i \in links.usable :
        /\ Begin(c, [op |-> "reset", link |-> i])
        /\ UNCHANGED <<account, tokens, links, wipes>>

WipeForReset(c) ==
    /\ req[c].op = "reset"
    /\ Continue(c, Wipe(req[c]))
    /\ BeginWipe
    /\ UNCHANGED <<account, links>>

CommitReset(c) ==
    /\ EndWipe(c)
    /\ req[c].next.op = "reset"
    /\ account' = [account EXCEPT !.password = TRUE]
    /\ links' = [links EXCEPT !.usable = @ \ {req[c].next.link}]
    /\ End(c)

(* POST /set-password, for an account that has none.                       *)
BeginSetPassword(c) ==
    /\ Exists /\ account.named /\ ~account.password
    /\ Begin(c, [op |-> "setPassword"])
    /\ UNCHANGED <<account, tokens, links, wipes>>

(* POST /change-password keeps the sessions; it writes what it hashed even *)
(* if the account was deleted meanwhile.                                   *)
BeginChangePassword(c) ==
    /\ Authenticated /\ account.password
    /\ Begin(c, [op |-> "setPassword"])
    /\ UNCHANGED <<account, tokens, links, wipes>>

CommitSetPassword(c) ==
    /\ req[c].op = "setPassword"
    /\ account' = [account EXCEPT !.password = TRUE]
    /\ End(c)
    /\ UNCHANGED <<tokens, links, wipes>>

(* PATCH /me with an e-mail that nobody else has.                          *)
BeginRename(c) ==
    /\ Authenticated
    /\ Begin(c, [op |-> "rename"])
    /\ UNCHANGED <<account, tokens, links, wipes>>

(* POST /me/providers/link: the e-mail of Google, for an account that had  *)
(* none when it was read.                                                  *)
BeginLink(c) ==
    /\ Authenticated
    /\ Begin(c, [op |-> "rename"])
    /\ UNCHANGED <<account, tokens, links, wipes>>

CommitRename(c) ==
    /\ req[c].op = "rename"
    /\ account' = [account EXCEPT !.named = TRUE]
    /\ End(c)
    /\ UNCHANGED <<tokens, links, wipes>>

-----------------------------------------------------------------------------
(* POST /shop-setup: the owner's row is read; one transaction creates the  *)
(* shop and makes the owner PENDING; the link to the shop and the end of   *)
(* all sessions are two statements after it.                               *)
BeginSetup(c) ==
    /\ Authenticated /\ account.role = "SHOP_OWNER"
    /\ account.verification \notin {"PENDING", "APPROVED"}
    /\ Begin(c, [op |-> "setup"])
    /\ UNCHANGED <<account, tokens, links, wipes>>

SubmitShop(c) ==
    /\ req[c].op = "setup"
    /\ account' = [account EXCEPT !.verification = "PENDING"]
    /\ Continue(c, [op |-> "submitted"])
    /\ UNCHANGED <<tokens, links, wipes>>

LinkShop(c) ==
    /\ req[c].op = "submitted"
    /\ account' = [account EXCEPT !.shop = OwnShop]
    /\ Continue(c, [op |-> "linked"])
    /\ UNCHANGED <<tokens, links, wipes>>

EndSetupSessions(c) ==
    /\ req[c].op = "linked"
    /\ Continue(c, Wipe(Idle))
    /\ BeginWipe
    /\ UNCHANGED <<account, links>>

(* POST /register-shop: any account without a shop becomes an owner.       *)
BeginRegisterShop(c) ==
    /\ Authenticated
    /\ account.shop = NoShop
    /\ Begin(c, [op |-> "registerShop"])
    /\ UNCHANGED <<account, tokens, links, wipes>>

FinishRegisterShop(c) ==
    /\ req[c].op = "registerShop"
    /\ account' = [account EXCEPT !.role = "SHOP_OWNER", !.shop = OwnShop]
    /\ End(c)
    /\ UNCHANGED <<tokens, links, wipes>>

(* POST /users/:userId/verify: a rejection writes back what was read.      *)
BeginVerify(c) ==
    \E verdict \in {"APPROVED", "REJECTED"} :
        /\ account.role = "SHOP_OWNER"
        /\ Begin(c, [op |-> "verify", verdict |-> verdict, seen |-> account.isActive])
        /\ UNCHANGED <<account, tokens, links, wipes>>

FinishVerify(c) ==
    /\ req[c].op = "verify"
    /\ account' = [account EXCEPT !.verification = req[c].verdict,
                     !.isActive = req[c].verdict = "APPROVED" \/ req[c].seen]
    /\ Continue(c, IF req[c].verdict = "APPROVED" THEN Welcome ELSE Idle)
    /\ UNCHANGED <<tokens, links, wipes>>

(* PATCH /users/:userId/toggle-active.                                     *)
BeginToggle(c) ==
    /\ Exists
    /\ Begin(c, [op |-> "toggle", seen |-> account.isActive])
    /\ UNCHANGED <<account, tokens, links, wipes>>

FinishToggle(c) ==
    /\ req[c].op = "toggle"
    /\ account' = [account EXCEPT !.isActive = ~req[c].seen]
    /\ End(c)
    /\ UNCHANGED <<tokens, links, wipes>>

(* The process dies with the request, or its answer is lost.               *)
Die(c) ==
    /\ req[c] # Idle
    /\ End(c)
    /\ UNCHANGED <<account, tokens, links, wipes>>

-----------------------------------------------------------------------------
ResetReq == [op : {"reset"}, link : Nat]
SessionReq ==
    [op : {"idle", "delete", "setup", "submitted", "linked", "registerShop",
           "setPassword", "rename", "welcome", "newLink"}]
    \cup [op : {"signIn"}, excess : SUBSET (1 .. MaxTokens), since : Nat, next : {Idle, Welcome}]
    \cup ResetReq
    \cup [op : {"wiping"}, no : Nat, ids : SUBSET (1 .. MaxTokens),
          next : {Idle, [op |-> "delete"]} \cup ResetReq]
    \cup [op : {"refresh", "rotating"}, token : 1 .. MaxTokens]
    \cup [op : {"verify"}, verdict : {"APPROVED", "REJECTED"}, seen : BOOLEAN]
    \cup [op : {"toggle"}, seen : BOOLEAN]

SessionInit ==
    /\ account = NoAccount
    /\ tokens = <<>>
    /\ links = [sent |-> 0, usable |-> {}]
    /\ wipes = [begun |-> 0, ended |-> {}]
    /\ req = [c \in Clients |-> Idle]
    /\ served = 0

SessionStep ==
    \/ GraceEnds
    \/ \E c \in Clients :
        \/ Register(c) \/ Login(c) \/ VerifyOtp(c) \/ Firebase(c) \/ Google(c)
        \/ CreateSession(c)
        \/ BeginRefresh(c) \/ RefuseRefresh(c) \/ Revoke(c) \/ Rotate(c) \/ FailRotation(c)
        \/ Logout(c) \/ LogoutAll(c) \/ FinishWipe(c)
        \/ BeginDelete(c) \/ FinishDelete(c)
        \/ ForgotPassword(c) \/ BeginWelcome(c) \/ SendLink(c)
        \/ BeginReset(c) \/ WipeForReset(c) \/ CommitReset(c)
        \/ BeginSetPassword(c) \/ BeginChangePassword(c) \/ CommitSetPassword(c)
        \/ BeginRename(c) \/ BeginLink(c) \/ CommitRename(c)
        \/ BeginSetup(c) \/ SubmitShop(c) \/ LinkShop(c) \/ EndSetupSessions(c)
        \/ BeginRegisterShop(c) \/ FinishRegisterShop(c)
        \/ BeginVerify(c) \/ FinishVerify(c) \/ BeginToggle(c) \/ FinishToggle(c)
        \/ Die(c)

(* A session outlives a wipe (a password reset, a logout from all devices, *)
(* shop setup, a deleted account) only in a race with it: its sign-in or   *)
(* one of its rotations put a row in while the wipe was at work.  Once a   *)
(* wipe has ended, no rotation that comes to its row after it, and no      *)
(* other request, brings a session back.                                   *)
OnlyRacesOutliveWipes ==
    \A i \in DOMAIN tokens : tokens[i].status # "deleted" => wipes.ended \subseteq tokens[i].spared

(* "Revoke all refresh tokens (force re-login on all devices)" does not    *)
(* hold (password.js line 164): a DELETE misses the row of a rotation that *)
(* commits after its snapshot, and of a sign-in admitted before it.        *)
NoSessionOutlivesWipe ==
    \A i \in DOMAIN tokens :
        tokens[i].status # "deleted" => \A n \in wipes.ended : n <= tokens[i].since
=============================================================================

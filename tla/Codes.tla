------------------------------- MODULE Codes -------------------------------
(***************************************************************************)
(* One-time codes (services/otp.js, services/email.js): a code is sent to  *)
(* the phone or the e-mail of one account, verified and spent.             *)
(*                                                                         *)
(* Codes are looked up by address and type, so one account is enough.  A   *)
(* code is its index in otp_codes; a row that was deleted stays, since its *)
(* id is never given again.  A code that does not arrive is one that       *)
(* nobody verifies.  The counter of failed attempts is left out: verifyOtp *)
(* returns no record when the code is wrong, so nothing ever raises it.    *)
(***************************************************************************)
EXTENDS Naturals, Sequences, FiniteSets

CONSTANTS
    Requests,  \* requests about codes being served at once
    MaxEvents  \* bound on what comes from outside: requests, e-mails, crashes

ASSUME CodesAssumption ==
    /\ IsFiniteSet(Requests)
    /\ MaxEvents \in Nat

VARIABLES
    codes,     \* otp_codes, in the order of their creation
    verified,  \* emailVerified of the account
    asking,    \* the requests being served
    events     \* what came from outside so far

codeVars == <<codes, verified, asking, events>>

Kinds == {"PHONE_OTP", "EMAIL_VERIFY", "STAFF_INVITE", "MECHANIC_INVITE"}

(* A row that has expired is of no use whether it was used or not.         *)
(* accepted: a request went on because of the code.                        *)
Code == [kind : Kinds, status : {"unused", "used", "expired", "deleted"}, accepted : BOOLEAN]
NewCode(k) == [kind |-> k, status |-> "unused", accepted |-> FALSE]
Usable(k) == {i \in DOMAIN codes : codes[i].kind = k /\ codes[i].status = "unused"}

Quiet == [op |-> "quiet"]
Event == events < MaxEvents /\ events' = events + 1
ContinueAsking(r, q) == asking' = [asking EXCEPT ![r] = q] /\ UNCHANGED events
BeginAsking(r, q) == asking[r] = Quiet /\ Event /\ asking' = [asking EXCEPT ![r] = q]

-----------------------------------------------------------------------------
(* A code is sent: the older ones are spent, then one is stored, then it   *)
(* goes out.                                                               *)
Spent_Nothing(k) == codes
Spent(k) == [i \in DOMAIN codes |->
                IF i \in Usable(k) THEN [codes[i] EXCEPT !.status = "used"] ELSE codes[i]]

Send(r, k) ==
    /\ BeginAsking(r, [op |-> "create", kind |-> k])
    /\ codes' = Spent(k)
    /\ UNCHANGED verified

(* POST /request-otp; POST /resend-verification, for an e-mail that is not *)
(* verified; an invitation of staff or of a mechanic, or its renewal.      *)
SendOtp(r) == Send(r, "PHONE_OTP")
SendEmailOtp(r) == ~verified /\ Send(r, "EMAIL_VERIFY")
SendStaffInviteOtp(r) == Send(r, "STAFF_INVITE")
SendMechanicInviteOtp(r) == Send(r, "MECHANIC_INVITE")

(* POST /mechanic-auth/send-otp: a verified e-mail is verified anew.       *)
BeginVerifyAnew(r) ==
    /\ BeginAsking(r, [op |-> "resend"])
    /\ verified' = FALSE
    /\ UNCHANGED codes

Resend(r) ==
    /\ asking[r].op = "resend"
    /\ codes' = Spent("EMAIL_VERIFY")
    /\ ContinueAsking(r, [op |-> "create", kind |-> "EMAIL_VERIFY"])
    /\ UNCHANGED verified

CreateCode(r) ==
    /\ asking[r].op = "create"
    /\ codes' = Append(codes, NewCode(asking[r].kind))
    /\ ContinueAsking(r, Quiet)
    /\ UNCHANGED verified

-----------------------------------------------------------------------------
(* A code is checked: the row is found, then marked.  POST /verify-otp,    *)
(* POST /verify-email, and the acceptance of an invitation.                *)
Check(r, k) ==
    \E i \in Usable(k) :
        /\ BeginAsking(r, [op |-> "mark", code |-> i])
        /\ UNCHANGED <<codes, verified>>

VerifyOtp(r) == Check(r, "PHONE_OTP")
VerifyEmailOtp(r) == Check(r, "EMAIL_VERIFY")
VerifyStaffInviteOtp(r) == Check(r, "STAFF_INVITE")
VerifyMechanicInviteOtp(r) == Check(r, "MECHANIC_INVITE")

Mark(code) == [code EXCEPT !.status = IF @ = "unused" THEN "used" ELSE @]
Accept(code) == [code EXCEPT !.accepted = TRUE]

(* What follows an accepted code: only /verify-email writes to the account *)
(* as it is modelled here.                                                 *)
Proceed(r) ==
    ContinueAsking(r, IF codes[asking[r].code].kind = "EMAIL_VERIFY" THEN [op |-> "confirm"] ELSE Quiet)

MarkUsed(r) ==
    LET i == asking[r].code IN
    /\ asking[r].op = "mark"
    /\ codes[i].status # "deleted"
    /\ codes' = [codes EXCEPT ![i] = Accept(Mark(@))]
    /\ Proceed(r)
    /\ UNCHANGED verified

(* The row is gone or the database refuses: the request fails, except that *)
(* POST /verify-otp goes on as if the code were marked.                    *)
Swallows_Always(k) == TRUE
Swallows(k) == k = "PHONE_OTP"

MarkFails(r) ==
    LET i == asking[r].code IN
    /\ asking[r].op = "mark"
    /\ IF Swallows(codes[i].kind)
       THEN codes' = [codes EXCEPT ![i] = Accept(@)] /\ Proceed(r)
       ELSE ContinueAsking(r, Quiet) /\ UNCHANGED codes
    /\ UNCHANGED verified

Confirm(r) ==
    /\ asking[r].op = "confirm"
    /\ verified' = TRUE
    /\ ContinueAsking(r, Quiet)
    /\ UNCHANGED codes

ExpireCode ==
    \E i \in DOMAIN codes :
        /\ codes[i].status \in {"unused", "used"}
        /\ codes' = [codes EXCEPT ![i].status = "expired"]
        /\ UNCHANGED <<verified, asking, events>>

(* otpCode.deleteMany where expiresAt has passed.                          *)
Expired(i) == i \in DOMAIN codes /\ codes[i].status = "expired"
WithoutExpired ==
    [i \in DOMAIN codes |->
        IF Expired(i) THEN [codes[i] EXCEPT !.status = "deleted"] ELSE codes[i]]

-----------------------------------------------------------------------------
CodesInit ==
    /\ codes = <<>>
    /\ verified \in BOOLEAN
    /\ asking = [r \in Requests |-> Quiet]
    /\ events = 0

CodesStep ==
    \/ ExpireCode
    \/ \E r \in Requests :
        \/ SendOtp(r) \/ SendEmailOtp(r)
        \/ SendStaffInviteOtp(r) \/ SendMechanicInviteOtp(r)
        \/ BeginVerifyAnew(r) \/ Resend(r) \/ CreateCode(r)
        \/ VerifyOtp(r) \/ VerifyEmailOtp(r)
        \/ VerifyStaffInviteOtp(r) \/ VerifyMechanicInviteOtp(r)
        \/ MarkUsed(r) \/ MarkFails(r) \/ Confirm(r)

(* A new code makes the older ones useless: however requests for codes     *)
(* overlap, no more codes of one type can be used at once than requests    *)
(* overlapped (otp.js 17-21, email.js 322-326).                            *)
LiveCodesBounded ==
    \A k \in Kinds : Cardinality(Usable(k)) <= Cardinality(Requests)

(* The code of an e-mail that let a request go on can be used by no later  *)
(* one, although the update that marks it may fail, or find that the       *)
(* housekeeping deleted the row, and a request may die in between          *)
(* (email.js 350-370).                                                     *)
AcceptedIsSpent ==
    \A i \in DOMAIN codes :
        codes[i].kind # "PHONE_OTP" /\ codes[i].accepted => codes[i].status # "unused"
=============================================================================

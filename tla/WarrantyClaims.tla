---------------------------- MODULE WarrantyClaims ----------------------------
(***************************************************************************)
(* routes/warrantyClaims.js: a claim on a sold part and its way to the     *)
(* supplier and back.  Stock moves only when the replacement arrives and   *)
(* when it is handed over.                                                 *)
(***************************************************************************)
EXTENDS Stockroom

CONSTANTS
    ClaimQtys,   \* quantities a claim may name
    MaxClaims    \* bound on the number of claims

ASSUME WarrantyAssumption ==
    /\ ClaimQtys \subseteq Nat \ {0}
    /\ MaxClaims \in Nat

ClaimStatuses == {"SENT_TO_SUPPLIER", "APPROVED", "REJECTED",
                  "REPLACEMENT_RECEIVED", "RETURNED_TO_CUSTOMER"}

ClaimTransitions ==
    [s \in ClaimStatuses |->
        CASE s = "SENT_TO_SUPPLIER" -> {"APPROVED", "REJECTED"}
          [] s = "APPROVED" -> {"REPLACEMENT_RECEIVED"}
          [] s = "REPLACEMENT_RECEIVED" -> {"RETURNED_TO_CUSTOMER"}
          [] OTHER -> {}]

Claim ==
    [part : Parts, qty : ClaimQtys, status : ClaimStatuses, version : Nat,
     in : Nat, out : Nat]   \* history: WARRANTY_IN and WARRANTY_OUT movements

ClaimReq ==
    [op : {"claim"}, claim : Nat, to : ClaimStatuses, version : Nat]

(* POST /: a claim names a line of an earlier invoice, whose part has a    *)
(* row; the number it takes from its own series is left out.               *)
OpenClaim(p, n) ==
    /\ Len(claims) < MaxClaims
    /\ Exists(p)
    /\ claims' = Append(claims, [part |-> p, qty |-> n, status |-> "SENT_TO_SUPPLIER",
                                 version |-> 0, in |-> 0, out |-> 0])
    /\ UNCHANGED <<row, moved, orders, disturbed, req>>

(* PATCH /:id/status: the transition is checked on the claim read here;    *)
(* the version is one the client was shown, now or earlier.                *)
BeginClaim(c) ==
    \E n \in 1..Len(claims) : \E v \in 0..claims[n].version, to \in ClaimStatuses :
        /\ req[c].op = "idle"
        /\ to \in ClaimTransitions[claims[n].status]
        /\ req' = [req EXCEPT ![c] = [op |-> "claim", claim |-> n, to |-> to, version |-> v]]
        /\ UNCHANGED tables

ClaimCurrent_Ignored(q) == TRUE

(* updateMany ... WHERE version = version: no row, and the transaction     *)
(* with the stock it moved is rolled back.                                 *)
ClaimCurrent(q) == claims[q.claim].version = q.version

Advanced(claim, to) ==
    [claim EXCEPT !.status = to,
                  !.version = @ + 1,
                  !.in = IF to = "REPLACEMENT_RECEIVED" THEN @ + 1 ELSE @,
                  !.out = IF to = "RETURNED_TO_CUSTOMER" THEN @ + 1 ELSE @]

CommitClaim(c) ==
    LET q == req[c]
        claim == claims[q.claim]
    IN
    /\ q.op = "claim"
    /\ ClaimCurrent(q)
    /\ CASE q.to = "REPLACEMENT_RECEIVED" ->
              Shift(claim.part, claim.qty) /\ Record("WARRANTY_IN", claim.part, claim.qty)
         [] q.to = "RETURNED_TO_CUSTOMER" ->
              Shift(claim.part, -claim.qty) /\ Record("WARRANTY_OUT", claim.part, claim.qty)
         [] OTHER -> UNCHANGED <<row, moved>>
    /\ claims' = [claims EXCEPT ![q.claim] = Advanced(@, q.to)]
    /\ Done(c)
    /\ UNCHANGED <<orders, disturbed>>

WarrantyNext ==
    \/ \E p \in Parts, n \in ClaimQtys : OpenClaim(p, n)
    \/ \E c \in Clients : BeginClaim(c) \/ CommitClaim(c)
=============================================================================

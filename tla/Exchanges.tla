----------------------------- MODULE Exchanges -----------------------------
(***************************************************************************)
(* routes/exchanges.js: an exchange is a return for store credit and a     *)
(* sale that redeems its credit note, each in the transaction it always    *)
(* runs in, and then a row that links the two.  Between the three the      *)
(* note is a note like any other, and the request may fail or die.         *)
(***************************************************************************)
EXTENDS Store

CONSTANT NoChain

VARIABLES
    chain,      \* how far each request is with its exchange
    exchanges   \* exchange_orders: the credit note and the invoice linked

exchangeVars == <<chain, exchanges>>
allVars == <<vars, exchangeVars>>

Chain ==
    [stage : {"return"}] \cup [stage : {"returned", "sale"}, note : Nat]
    \cup [stage : {"sold"}, note : Nat, invoice : Nat]

Enters(r, state) == chain' = [chain EXCEPT ![r] = state] /\ UNCHANGED exchanges

ASSUME ExchangesAssumption ==
    /\ "EXCHANGE" \in RefundModes
    /\ NoChain \notin Chain

-----------------------------------------------------------------------------
(* Leg 1, of an invoice or walk-in.                                        *)
BeginExchange(r) ==
    /\ chain[r] = NoChain
    /\ BeginReturn(r)
    /\ req'[r].mode = "EXCHANGE"
    /\ Enters(r, [stage |-> "return"])

Returned(r) == Enters(r, [stage |-> "returned", note |-> Len(notes) + 1])

CommitLegOne(r) ==
    /\ chain[r] # NoChain /\ chain[r].stage = "return"
    /\ \/ CommitReturn(r) /\ Returned(r)
       \/ RetryReturn(r) /\ UNCHANGED exchangeVars

WalkInExchange(r) ==
    /\ chain[r] = NoChain /\ req[r] = Idle
    /\ \E f \in WalkInForms, party \in Customers : WalkInReturn(f, "EXCHANGE", party)
    /\ Returned(r)

(* Leg 2 redeems what the new goods cost before their invoice is rounded,  *)
(* at most the whole note, and sells to the customer of the return.        *)
AppliedCredit(note, cart) ==
    IF note.total <= CartTotal[cart] THEN note.total ELSE CartTotal[cart]

SubmitLegTwo(r) ==
    LET n == chain[r].note IN
    /\ chain[r] # NoChain /\ chain[r].stage = "returned"
    /\ SubmitInvoice(r)
    /\ req'[r].kind = "SALE"
    /\ req'[r].note = n
    /\ req'[r].linked = notes[n].party
    /\ req'[r].applied = AppliedCredit(notes[n], req'[r].cart)
    /\ Enters(r, [stage |-> "sale", note |-> n])

CommitLegTwo(r) ==
    /\ chain[r] # NoChain /\ chain[r].stage = "sale"
    /\ CommitInvoice(r)
    /\ Enters(r, [stage |-> "sold", note |-> chain[r].note, invoice |-> Len(invoices) + 1])

(* The row that links the legs, numbered after the return.                 *)
RecordExchange_LatestSale(r) ==
    /\ chain[r] # NoChain /\ chain[r].stage = "sold"
    /\ exchanges' = Append(exchanges, [note |-> chain[r].note, invoice |-> Len(invoices)])
    /\ chain' = [chain EXCEPT ![r] = NoChain]
    /\ UNCHANGED vars
RecordExchange(r) ==
    /\ chain[r] # NoChain /\ chain[r].stage = "sold"
    /\ exchanges' = Append(exchanges, [note |-> chain[r].note, invoice |-> chain[r].invoice])
    /\ chain' = [chain EXCEPT ![r] = NoChain]
    /\ UNCHANGED vars

(* A leg is refused or rolls back, or the process dies between the legs:   *)
(* what was committed stays.                                               *)
DropExchange_VoidsNote(r) ==
    /\ chain[r] # NoChain /\ chain[r].stage = "returned"
    /\ notes' = [notes EXCEPT ![chain[r].note].remaining = 0]
    /\ UNCHANGED <<stockQty, damagedQty, moved, counters, invoices, outstanding, req>>
    /\ Enters(r, NoChain)
DropExchange(r) ==
    /\ chain[r] # NoChain
    /\ IF req[r] = Idle THEN UNCHANGED vars ELSE Rollback(r)
    /\ Enters(r, NoChain)

-----------------------------------------------------------------------------
(* Requests that are no exchange do what they do in the store.             *)
PlainStep ==
    /\ \/ \E r \in Reqs :
            /\ chain[r] = NoChain
            /\ \/ SubmitInvoice(r) \/ CommitInvoice(r)
               \/ BeginReturn(r) /\ req'[r].mode # "EXCHANGE"
               \/ CommitReturn(r) \/ RetryReturn(r) \/ Rollback(r)
       \/ \E i \in 1..Len(invoices) : ConvertEstimate(i)
       \/ \E f \in WalkInForms, m \in RefundModes \ {"EXCHANGE"}, party \in Customers :
            WalkInReturn(f, m, party)
    /\ UNCHANGED exchangeVars

ExchangeInit ==
    /\ Init
    /\ chain = [r \in Reqs |-> NoChain]
    /\ exchanges = <<>>

ExchangeNext ==
    \/ PlainStep
    \/ \E r \in Reqs :
        \/ BeginExchange(r) \/ CommitLegOne(r) \/ WalkInExchange(r)
        \/ SubmitLegTwo(r) \/ CommitLegTwo(r) \/ RecordExchange(r)
        \/ DropExchange(r)

ExchangeSpec == ExchangeInit /\ [][ExchangeNext]_allVars

(* Every recorded exchange links a return and a sale of its own: the sale  *)
(* redeemed the note of that return, for what the new goods cost and no    *)
(* more (their price, which the invoice then rounds by up to half a        *)
(* rupee), though the note was anybody's to spend between the two legs,    *)
(* and both legs name the same customer where the return has one           *)
(* (exchanges.js lines 83-104).                                            *)
LegsMatch(x) ==
    LET sale == invoices[x.invoice]
        note == notes[x.note] IN
    /\ sale.note = x.note
    /\ sale.applied > 0
    /\ sale.applied + note.remaining <= note.total
    /\ sale.applied <= CartTotal[sale.cart]
    /\ note.party # NoParty => sale.party = note.party
ExchangesLinkTheirLegs ==
    /\ \A i \in DOMAIN exchanges : LegsMatch(exchanges[i])
    /\ \A i, j \in DOMAIN exchanges :
        exchanges[i].note = exchanges[j].note \/ exchanges[i].invoice = exchanges[j].invoice
            => i = j
=============================================================================

------------------------------ MODULE Invoices ------------------------------
(***************************************************************************)
(* FinanceService: the invoices of one buyer, the payments recorded        *)
(* against them and their registration (IRN) at the NIC e-invoice portal.  *)
(* No operation opens a transaction: each await is a statement of its own, *)
(* so every step below commits at once and any other request, or the end   *)
(* of the process, may come between two of them.  A row is updated without *)
(* a condition on what was read before.                                    *)
(* Amounts are DECIMAL(14,2); integers stand for them, so that the rounding*)
(* Math.round(x * 100) / 100 of a sum of such amounts is the sum.          *)
(***************************************************************************)
EXTENDS Integers, FiniteSetsExt

CONSTANTS
    InvoiceIds,     \* invoices that may be created
    Requests,       \* HTTP requests; each is served at most once
    Kinds,          \* the operations the requests may ask for
    MaxInFlight,    \* bound on the requests in progress at one time
    MayFail,        \* whether a request may die between two of its steps
    Subtotals,      \* sums of qty * rate of the lines of an invoice
    GstRates,       \* percentages the lines may resolve to
    Amounts,        \* amounts of one payment
    PatchStatuses,  \* statuses a PATCH of an invoice may ask for
    TypedIrns,      \* IRNs a PATCH of an invoice may carry
    CreditLimit,    \* of the buyer; 0 stands for none
    None            \* absent reference (SQL NULL)

Statuses == {"DRAFT", "SENT", "PARTIAL", "PAID", "OVERDUE", "CANCELLED"}

ASSUME InvoicesAssumption ==
    /\ Subtotals \subseteq Nat
    /\ GstRates \subseteq Nat
    /\ Amounts \subseteq Nat \ {0}
    /\ PatchStatuses \subseteq Statuses
    /\ MaxInFlight \in Nat \ {0}
    /\ CreditLimit \in Nat
    /\ MayFail \in BOOLEAN
    /\ None \notin InvoiceIds \cup Requests \cup TypedIrns \cup Statuses
    /\ TypedIrns \cap Requests = {}

VARIABLES
    invoice,        \* the row of each invoice; status None before its creation
    received,       \* SUM(amount) over the payments of each invoice
    registered,     \* IRNs active at NIC, named by the request that got them
    req             \* what each request is doing

vars == <<invoice, received, registered, req>>

-----------------------------------------------------------------------------
InvoiceRow == [status : Statuses \cup {None}, total : Nat, paid : Nat,
               irn : Requests \cup TypedIrns \cup {None}]

\* patch: the status an update will write, or None; was: the invoice as the
\* request first read it; amount: of the payment; newTotal: currentPaid + amount.
Request == [pc : {"idle", "insert", "patch", "sumCancel", "cancel", "sumPay", "pay",
                  "settle", "register", "store", "send", "revoke", "clear",
                  "done", "rejected", "failed"},
            inv : InvoiceIds \cup {None}, was : InvoiceRow,
            patch : Statuses \cup {None}, irn : TypedIrns \cup {None},
            subtotal : Nat, gst : Nat, amount : Nat, newTotal : Nat]

NoInvoice == [status |-> None, total |-> 0, paid |-> 0, irn |-> None]

Idle == [pc |-> "idle", inv |-> None, was |-> NoInvoice, patch |-> None, irn |-> None,
         subtotal |-> 0, gst |-> 0, amount |-> 0, newTotal |-> 0]

InProgress(r) == req[r].pc \notin {"idle", "done", "rejected", "failed"}

MayStart(r, kind) ==
    /\ kind \in Kinds
    /\ req[r].pc = "idle"
    /\ Cardinality({s \in Requests : InProgress(s)}) < MaxInFlight

Goto(r, label) == req' = [req EXCEPT ![r].pc = label]

\* The first step of an operation: it reads invoice i and goes on or refuses.
Start(r, i, goesOn, next) ==
    /\ invoice[i].status # None
    /\ req' = [req EXCEPT ![r] =
                  IF goesOn THEN [next EXCEPT !.inv = i, !.was = invoice[i]]
                            ELSE [Idle EXCEPT !.pc = "rejected", !.inv = i]]
    /\ UNCHANGED <<invoice, received, registered>>

Update(r, row) == invoice' = [invoice EXCEPT ![req[r].inv] = row]

Init ==
    /\ invoice = [i \in InvoiceIds |-> NoInvoice]
    /\ received = [i \in InvoiceIds |-> 0]
    /\ registered = {}
    /\ req = [r \in Requests |-> Idle]

-----------------------------------------------------------------------------
(* createInvoice().                                                        *)

WithGst(subtotal, pct) == subtotal + (subtotal * pct) \div 100

\* The estimate of the credit check assumes 12% whatever the lines carry.
Estimate(subtotal) == WithGst(subtotal, 12)

Open == {i \in InvoiceIds : invoice[i].status \notin {None, "CANCELLED", "PAID"}}

\* getBuyerOutstanding(): drafts count, what is marked PAID does not.
Outstanding == MapThenSumSet(LAMBDA i : invoice[i].total - invoice[i].paid, Open)

WithinCredit(subtotal) ==
    CreditLimit > 0 => Outstanding + Estimate(subtotal) <= CreditLimit

CheckCredit(r, i) ==
    /\ MayStart(r, "create")
    /\ invoice[i].status = None
    /\ \A s \in Requests : req[s].inv = i => req[s].pc \in {"rejected", "failed"}
    /\ \E subtotal \in Subtotals, gst \in GstRates :
         req' = [req EXCEPT ![r] =
                    [Idle EXCEPT !.pc = IF WithinCredit(subtotal) THEN "insert" ELSE "rejected",
                                 !.inv = i, !.subtotal = subtotal, !.gst = gst]]
    /\ UNCHANGED <<invoice, received, registered>>

InsertInvoice(r) ==
    /\ req[r].pc = "insert"
    /\ Update(r, [NoInvoice EXCEPT !.status = "DRAFT",
                                   !.total = WithGst(req[r].subtotal, req[r].gst)])
    /\ Goto(r, "done")
    /\ UNCHANGED <<received, registered>>

-----------------------------------------------------------------------------
(* updateInvoice(): a PATCH with a status asks for a transition, one       *)
(* without may only edit a draft.                                          *)

Transitions(status) ==
    CASE status = "DRAFT"   -> {"SENT", "CANCELLED"}
      [] status = "SENT"    -> {"PARTIAL", "PAID", "OVERDUE", "CANCELLED"}
      [] status = "PARTIAL" -> {"PAID", "OVERDUE", "CANCELLED"}
      [] status = "OVERDUE" -> {"PARTIAL", "PAID", "CANCELLED"}
      [] OTHER              -> {}

ReadForPatch(r, i) ==
    /\ MayStart(r, "patch")
    /\ \E status \in PatchStatuses \cup {None}, irn \in TypedIrns \cup {None} :
         Start(r, i, IF status = None THEN invoice[i].status = "DRAFT"
                                      ELSE status \in Transitions(invoice[i].status),
               [Idle EXCEPT !.pc = "patch", !.patch = status, !.irn = irn])

PatchInvoice(r) ==
    LET row == invoice[req[r].inv]
    IN  /\ req[r].pc = "patch"
        /\ Update(r, [row EXCEPT !.status = IF req[r].patch = None THEN @ ELSE req[r].patch,
                                 !.irn = IF req[r].irn = None THEN @ ELSE req[r].irn])
        /\ Goto(r, "done")
        /\ UNCHANGED <<received, registered>>

-----------------------------------------------------------------------------
(* cancelInvoice(): read the invoice, sum its payments, write CANCELLED.   *)

ReadForCancel(r, i) ==
    /\ MayStart(r, "cancel")
    /\ Start(r, i, invoice[i].status \notin {"CANCELLED", "PAID"},
             [Idle EXCEPT !.pc = "sumCancel"])

SumForCancel(r) ==
    /\ req[r].pc = "sumCancel"
    /\ Goto(r, IF received[req[r].inv] > 0 THEN "rejected" ELSE "cancel")
    /\ UNCHANGED <<invoice, received, registered>>

CancelInvoice(r) ==
    /\ req[r].pc = "cancel"
    /\ Update(r, [invoice[req[r].inv] EXCEPT !.status = "CANCELLED"])
    /\ Goto(r, "done")
    /\ UNCHANGED <<received, registered>>

-----------------------------------------------------------------------------
(* recordPayment(): read the invoice, sum its payments, insert the         *)
(* payment, then write the new sum and the status derived from it.         *)

\* Mutant: a draft is taken for payable.
BugReadForPayment(r, i) ==
    /\ MayStart(r, "pay")
    /\ \E amount \in Amounts :
         Start(r, i, invoice[i].status # "CANCELLED",
               [Idle EXCEPT !.pc = "sumPay", !.amount = amount])

ReadForPayment(r, i) ==
    /\ MayStart(r, "pay")
    /\ \E amount \in Amounts :
         Start(r, i, invoice[i].status \notin {"CANCELLED", "DRAFT"},
               [Idle EXCEPT !.pc = "sumPay", !.amount = amount])

\* Mutant: the paid amount comes from the invoice read first, not from the payments.
BugSumForPayment(r) ==
    LET newTotal == req[r].was.paid + req[r].amount
    IN  /\ req[r].pc = "sumPay"
        /\ req' = [req EXCEPT ![r].pc = IF newTotal > req[r].was.total THEN "rejected" ELSE "pay",
                              ![r].newTotal = newTotal]
        /\ UNCHANGED <<invoice, received, registered>>

\* Mutant: the comparison with the total forgotten.
BugNoOverpaymentCheck(r) ==
    /\ req[r].pc = "sumPay"
    /\ req' = [req EXCEPT ![r].pc = "pay",
                          ![r].newTotal = received[req[r].inv] + req[r].amount]
    /\ UNCHANGED <<invoice, received, registered>>

SumForPayment(r) ==
    LET newTotal == received[req[r].inv] + req[r].amount
    IN  /\ req[r].pc = "sumPay"
        /\ req' = [req EXCEPT ![r].pc = IF newTotal > req[r].was.total THEN "rejected" ELSE "pay",
                              ![r].newTotal = newTotal]
        /\ UNCHANGED <<invoice, received, registered>>

\* Mutant: the invoice is given its paid amount and the payment is never inserted.
BugSettleFirst(r) ==
    /\ req[r].pc = "pay"
    /\ Update(r, [invoice[req[r].inv] EXCEPT !.paid = req[r].newTotal])
    /\ Goto(r, "settle")
    /\ UNCHANGED <<received, registered>>

InsertPayment(r) ==
    /\ req[r].pc = "pay"
    /\ received' = [received EXCEPT ![req[r].inv] = @ + req[r].amount]
    /\ Goto(r, "settle")
    /\ UNCHANGED <<invoice, registered>>

\* Mutant: the status is derived from this payment alone.
BugSettle(r) ==
    /\ req[r].pc = "settle"
    /\ Update(r, [invoice[req[r].inv] EXCEPT
                     !.paid = req[r].newTotal,
                     !.status = IF req[r].amount >= req[r].was.total THEN "PAID" ELSE "PARTIAL"])
    /\ Goto(r, "done")
    /\ UNCHANGED <<received, registered>>

Settle(r) ==
    /\ req[r].pc = "settle"
    /\ Update(r, [invoice[req[r].inv] EXCEPT
                     !.paid = req[r].newTotal,
                     !.status = IF req[r].newTotal >= req[r].was.total THEN "PAID" ELSE "PARTIAL"])
    /\ Goto(r, "done")
    /\ UNCHANGED <<received, registered>>

-----------------------------------------------------------------------------
(* generateEInvoice() and cancelEInvoice().  NIC keeps at most one active  *)
(* IRN for a document, refuses a second one, and may refuse anything.      *)

ReadForIrn(r, i) ==
    /\ MayStart(r, "generate")
    /\ Start(r, i, invoice[i].irn = None /\ invoice[i].status # "CANCELLED",
             [Idle EXCEPT !.pc = "register"])

RegisterIrn(r) ==
    /\ req[r].pc = "register"
    /\ \A s \in registered : req[s].inv # req[r].inv
    /\ registered' = registered \cup {r}
    /\ Goto(r, "store")
    /\ UNCHANGED <<invoice, received>>

\* NIC answers with ErrorDetails: BadRequestException, nothing was written.
RefuseByNic(r) ==
    /\ req[r].pc \in {"register", "revoke"}
    /\ Goto(r, "rejected")
    /\ UNCHANGED <<invoice, received, registered>>

\* Mutant: the IRN of the answer is dropped.
BugStoreIrn(r) ==
    /\ req[r].pc = "store"
    /\ Goto(r, IF req[r].was.status = "DRAFT" THEN "send" ELSE "done")
    /\ UNCHANGED <<invoice, received, registered>>

StoreIrn(r) ==
    /\ req[r].pc = "store"
    /\ Update(r, [invoice[req[r].inv] EXCEPT !.irn = r])
    /\ Goto(r, IF req[r].was.status = "DRAFT" THEN "send" ELSE "done")
    /\ UNCHANGED <<received, registered>>

\* 'If invoice is still DRAFT': as it was read before NIC was called.
MarkSent(r) ==
    /\ req[r].pc = "send"
    /\ Update(r, [invoice[req[r].inv] EXCEPT !.status = "SENT"])
    /\ Goto(r, "done")
    /\ UNCHANGED <<received, registered>>

ReadForIrnCancel(r, i) ==
    /\ MayStart(r, "revoke")
    /\ Start(r, i, invoice[i].irn # None, [Idle EXCEPT !.pc = "revoke"])

RevokeIrn(r) ==
    /\ req[r].pc = "revoke"
    /\ req[r].was.irn \in registered
    /\ registered' = registered \ {req[r].was.irn}
    /\ Goto(r, "clear")
    /\ UNCHANGED <<invoice, received>>

ClearIrn(r) ==
    /\ req[r].pc = "clear"
    /\ Update(r, [invoice[req[r].inv] EXCEPT !.irn = None])
    /\ Goto(r, "done")
    /\ UNCHANGED <<received, registered>>

-----------------------------------------------------------------------------
\* The process dies, the database or NIC does not answer: the steps already
\* taken stay, the rest never happens.  NIC may have registered the invoice
\* of which it never told.
Fail(r) ==
    /\ MayFail
    /\ InProgress(r)
    /\ Goto(r, "failed")
    /\ \/ UNCHANGED registered
       \/ /\ req[r].pc = "register"
          /\ \A s \in registered : req[s].inv # req[r].inv
          /\ registered' = registered \cup {r}
       \/ /\ req[r].pc = "revoke"
          /\ registered' = registered \ {req[r].was.irn}
    /\ UNCHANGED <<invoice, received>>

Arrive(r, i) ==
    \/ CheckCredit(r, i)
    \/ ReadForPatch(r, i)
    \/ ReadForCancel(r, i)
    \/ ReadForPayment(r, i)
    \/ ReadForIrn(r, i)
    \/ ReadForIrnCancel(r, i)

Continue(r) ==
    \/ InsertInvoice(r)
    \/ PatchInvoice(r)
    \/ SumForCancel(r)
    \/ CancelInvoice(r)
    \/ SumForPayment(r)
    \/ InsertPayment(r)
    \/ Settle(r)
    \/ RegisterIrn(r)
    \/ RefuseByNic(r)
    \/ StoreIrn(r)
    \/ MarkSent(r)
    \/ RevokeIrn(r)
    \/ ClearIrn(r)

Next == \E r \in Requests : (\E i \in InvoiceIds : Arrive(r, i)) \/ Continue(r) \/ Fail(r)

Spec == Init /\ [][Next]_vars

-----------------------------------------------------------------------------
(* Properties.                                                             *)

\* Rows and requests have the shapes the schema and the service give them; no
\* sum of payments is ever negative.
TypeOK ==
    /\ invoice \in [InvoiceIds -> InvoiceRow]
    /\ received \in [InvoiceIds -> Nat]
    /\ registered \subseteq Requests
    /\ req \in [Requests -> Request]

\* paidAmount never says more than the payments that were recorded, nor more
\* than the invoice's total, whatever interleaves with recordPayment and
\* wherever it stops.
PaidNeverAhead ==
    \A i \in InvoiceIds :
        invoice[i].paid <= received[i] /\ invoice[i].paid <= invoice[i].total

\* No payment is recorded for an invoice that was not issued.
PaymentsOnIssuedOnly ==
    \A i \in InvoiceIds : received[i] > 0 => invoice[i].status \notin {None, "DRAFT"}

\* The status derived from the payments agrees with the paid amount beside it,
\* as long as no PATCH sets PAID or PARTIAL by hand.
StatusMatchesPaid ==
    \A i \in InvoiceIds :
        /\ invoice[i].status = "PAID" => invoice[i].paid = invoice[i].total
        /\ invoice[i].status = "PARTIAL" => 0 < invoice[i].paid /\ invoice[i].paid < invoice[i].total

\* 'Payment of ... would exceed invoice total'.
NoOverpayment == \A i \in InvoiceIds : received[i] <= invoice[i].total

\* No request is at work on invoice i, or died at work on it.
Quiet(i) == \A r \in Requests : req[r].inv = i => req[r].pc \in {"done", "rejected"}

\* The paid amount is the sum of the payments whenever nobody is at work on the
\* invoice ("auto-reconciles paid amount + status").
PaidIsReceived ==
    \A i \in InvoiceIds : Quiet(i) => invoice[i].paid = received[i]

\* Whenever nobody is at work on an invoice, the IRN on it is the one that is
\* active at NIC, if there is any.
IrnsAgree ==
    \A i \in InvoiceIds : Quiet(i) =>
        {r \in registered : req[r].inv = i} = {invoice[i].irn} \ {None}

-----------------------------------------------------------------------------

=============================================================================

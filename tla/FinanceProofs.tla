---------------------------- MODULE FinanceProofs ----------------------------
(***************************************************************************)
(* What the payment code guarantees although nothing of it is atomic: for  *)
(* every number of invoices and concurrent requests, and wherever one of   *)
(* them stops.  Then what it guarantees when requests do not overlap       *)
(* (MaxInFlight = 1), though any of them may still stop between two        *)
(* statements: no overpayment, and agreement with the payments and NIC.    *)
(* Then the token every call to NIC carries, whichever calls overlap, and  *)
(* the amounts of an invoice, from its lines to what NIC is told of them.  *)
(***************************************************************************)
EXTENDS Invoices, Gst, NicToken, FoldLemmas, SequenceTheorems

Issued(i) == invoice[i].status \notin {None, "DRAFT"}

\* An invoice that does not exist yet carries nothing.
RowSound(i) ==
    /\ invoice[i].status = None => invoice[i].paid = 0 /\ received[i] = 0
    /\ received[i] > 0 => Issued(i)
    /\ invoice[i].paid <= received[i] /\ invoice[i].paid <= invoice[i].total

\* What a request in progress still knows to be true of its invoice.
KnowsInvoice(r) ==
    /\ InProgress(r) => req[r].inv \in InvoiceIds
    /\ req[r].pc = "insert" => invoice[req[r].inv].status = None
    /\ InProgress(r) /\ req[r].pc # "insert" => invoice[req[r].inv].status # None
    /\ req[r].pc = "patch" => req[r].patch \in (PatchStatuses \cup {None}) \ {"DRAFT"}
    /\ req[r].pc \in {"sumPay", "pay", "settle"} =>
         /\ Issued(req[r].inv)
         /\ req[r].was.total = invoice[req[r].inv].total
         /\ req[r].amount > 0

\* newTotal is what the payments come to once this one is inserted, or less.
KnowsTotal(r) ==
    /\ req[r].pc = "pay" => req[r].newTotal <= received[req[r].inv] + req[r].amount
    /\ req[r].pc = "settle" => req[r].newTotal <= received[req[r].inv]
    /\ req[r].pc \in {"pay", "settle"} =>
         0 < req[r].newTotal /\ req[r].newTotal <= req[r].was.total

\* An invoice is created by one request.
CreatedOnce ==
    \A r, s \in Requests :
        req[r].pc = "insert" /\ req[s].pc = "insert" /\ req[r].inv = req[s].inv => r = s

IInv ==
    /\ TypeOK
    /\ \A i \in InvoiceIds : RowSound(i)
    /\ \A r \in Requests : KnowsInvoice(r) /\ KnowsTotal(r)
    /\ CreatedOnce

\* How any step may change an invoice that r did not just create.
Evolves(i) ==
    /\ received'[i] >= received[i]
    /\ invoice'[i].total = invoice[i].total
    /\ invoice[i].status # None => invoice'[i].status # None
    /\ invoice[i].status = None => invoice'[i].status = None
    /\ Issued(i) => Issued(i)'

-----------------------------------------------------------------------------
LEMMA GstType ==
    ASSUME NEW n \in Nat, NEW pct \in Nat
    PROVE  WithGst(n, pct) \in Nat
  BY DEF WithGst

LEMMA InitSound == Init => IInv
  <1> SUFFICES ASSUME Init PROVE IInv
    OBVIOUS
  <1>1. NoInvoice \in InvoiceRow
    BY DEF NoInvoice, InvoiceRow
  <1>2. Idle \in Request /\ Idle.pc = "idle"
    BY <1>1 DEF Idle, Request
  <1>3. TypeOK
    BY <1>1, <1>2 DEF Init, TypeOK
  <1>4. \A i \in InvoiceIds : RowSound(i)
    BY DEF Init, RowSound, NoInvoice
  <1>5. \A r \in Requests : req[r].pc = "idle"
    BY <1>2 DEF Init
  <1> QED
    BY <1>3, <1>4, <1>5 DEF IInv, KnowsInvoice, KnowsTotal, CreatedOnce, InProgress

\* A request that does not move keeps its knowledge while invoices evolve.
LEMMA OtherKnows ==
    ASSUME IInv, NEW s \in Requests, req'[s] = req[s],
           InProgress(s) => Evolves(req[s].inv), TypeOK'
    PROVE  KnowsInvoice(s)' /\ KnowsTotal(s)'
  <1>1. KnowsInvoice(s) /\ KnowsTotal(s) /\ req[s] \in Request
    BY DEF IInv, TypeOK
  <1>2. CASE ~InProgress(s)
    BY <1>1, <1>2 DEF InProgress, KnowsInvoice, KnowsTotal
  <1>3. CASE InProgress(s)
    <2>1. PICK i \in InvoiceIds : i = req[s].inv
      BY <1>1, <1>3 DEF KnowsInvoice
    <2>2. Evolves(i) /\ received[i] \in Nat /\ received'[i] \in Nat
      BY <1>3, <2>1 DEF IInv, TypeOK
    <2>3. req[s].newTotal \in Nat /\ req[s].amount \in Nat
      BY <1>1 DEF Request
    <2>4. KnowsInvoice(s)'
      BY <1>1, <2>1, <2>2 DEF KnowsInvoice, InProgress, Evolves, Issued
    <2>5. KnowsTotal(s)'
      BY <1>1, <2>1, <2>2, <2>3 DEF KnowsTotal, Evolves
    <2> QED
      BY <2>4, <2>5
  <1> QED
    BY <1>2, <1>3

\* A step of r that only moves r, and leaves the invoices alone.
LEMMA MoveKeeps ==
    ASSUME IInv, NEW r \in Requests, NEW q \in Request,
           req' = [req EXCEPT ![r] = q], UNCHANGED <<invoice, received>>,
           registered' \subseteq Requests,
           KnowsInvoice(r)', KnowsTotal(r)',
           q.pc = "insert" => \A s \in Requests \ {r} : req[s].inv = q.inv => req[s].pc # "insert"
    PROVE  IInv'
  <1>1. TypeOK'
    BY DEF IInv, TypeOK
  <1>2. req'[r] = q /\ \A s \in Requests \ {r} : req'[s] = req[s]
    BY DEF IInv, TypeOK
  <1>3. \A i \in InvoiceIds : RowSound(i)'
    BY DEF IInv, RowSound, Issued
  <1>4. \A i \in InvoiceIds : Evolves(i)
    BY DEF Evolves, IInv, TypeOK, Issued
  <1>5. \A s \in Requests \ {r} : KnowsInvoice(s)' /\ KnowsTotal(s)'
    BY <1>1, <1>2, <1>4, OtherKnows DEF IInv, KnowsInvoice
  <1>6. CreatedOnce'
    BY <1>2 DEF IInv, CreatedOnce
  <1> QED
    BY <1>1, <1>3, <1>5, <1>6 DEF IInv

\* A step of r that rewrites its invoice, keeping its total.
LEMMA WriteKeeps ==
    ASSUME IInv, NEW r \in Requests, NEW q \in Request, NEW i \in InvoiceIds,
           NEW row \in InvoiceRow,
           req' = [req EXCEPT ![r] = q], invoice' = [invoice EXCEPT ![i] = row],
           UNCHANGED <<received, registered>>,
           q.pc \in {"done", "send"}, q.inv = i,
           invoice[i].status # None, row.total = invoice[i].total, row.status # None,
           row.paid <= received[i], row.paid <= row.total,
           Issued(i) => row.status # "DRAFT"
    PROVE  IInv'
  <1>1. TypeOK'
    BY DEF IInv, TypeOK
  <1>2. req'[r] = q /\ \A s \in Requests \ {r} : req'[s] = req[s]
    BY DEF IInv, TypeOK
  <1>3. invoice'[i] = row /\ \A j \in InvoiceIds \ {i} : invoice'[j] = invoice[j]
    BY DEF IInv, TypeOK
  <1>4. Issued(i) => Issued(i)'
    BY <1>3 DEF Issued
  <1>5. \A j \in InvoiceIds : RowSound(j)'
    <2>1. RowSound(i)'
      BY <1>3, <1>4 DEF IInv, RowSound
    <2>2. \A j \in InvoiceIds \ {i} : RowSound(j)'
      BY <1>3 DEF IInv, RowSound, Issued
    <2> QED
      BY <2>1, <2>2
  <1>6. \A j \in InvoiceIds : Evolves(j)
    <2>1. Evolves(i)
      BY <1>3, <1>4 DEF Evolves, IInv, TypeOK
    <2>2. \A j \in InvoiceIds \ {i} : Evolves(j)
      BY <1>3 DEF Evolves, IInv, TypeOK, Issued
    <2> QED
      BY <2>1, <2>2
  <1>7. \A s \in Requests \ {r} : KnowsInvoice(s)' /\ KnowsTotal(s)'
    BY <1>1, <1>2, <1>6, OtherKnows DEF IInv, KnowsInvoice
  <1>8. KnowsInvoice(r)' /\ KnowsTotal(r)'
    BY <1>2, <1>3 DEF KnowsInvoice, KnowsTotal, InProgress
  <1>9. CreatedOnce'
    BY <1>2 DEF IInv, CreatedOnce
  <1> QED
    BY <1>1, <1>5, <1>7, <1>8, <1>9 DEF IInv

-----------------------------------------------------------------------------
\* The first step of an operation.
LEMMA StartKeeps ==
    ASSUME IInv, NEW r \in Requests, NEW i \in InvoiceIds, NEW goesOn \in BOOLEAN,
           NEW next \in Request, Start(r, i, goesOn, next),
           next.pc \in {"patch", "sumCancel", "sumPay", "register", "revoke"},
           goesOn /\ next.pc = "patch" => next.patch \in (PatchStatuses \cup {None}) \ {"DRAFT"},
           goesOn /\ next.pc = "sumPay" => Issued(i) /\ next.amount > 0
    PROVE  IInv'
  <1>1. invoice[i] \in InvoiceRow /\ invoice[i].status # None
    BY DEF IInv, TypeOK, Start
  <1>2. UNCHANGED <<invoice, received, registered>>
    BY DEF Start
  <1>3. CASE goesOn
    <2> DEFINE q == [next EXCEPT !.inv = i, !.was = invoice[i]]
    <2>1. /\ q \in Request /\ q.pc = next.pc /\ q.inv = i /\ q.was = invoice[i]
          /\ q.patch = next.patch /\ q.amount = next.amount
      BY <1>1 DEF Request
    <2>2. req' = [req EXCEPT ![r] = q]
      BY <1>3 DEF Start
    <2> HIDE DEF q
    <2>3. req'[r] = q
      BY <2>2 DEF IInv, TypeOK
    <2>4. KnowsInvoice(r)' /\ KnowsTotal(r)'
      BY <1>1, <1>2, <1>3, <2>1, <2>3 DEF KnowsInvoice, KnowsTotal, InProgress, Issued
    <2> QED
      BY <1>2, <2>1, <2>2, <2>4, MoveKeeps DEF IInv, TypeOK
  <1>4. CASE ~goesOn
    <2> DEFINE q == [Idle EXCEPT !.pc = "rejected", !.inv = i]
    <2>1. NoInvoice \in InvoiceRow
      BY DEF NoInvoice, InvoiceRow
    <2>2. q \in Request /\ q.pc = "rejected"
      BY <2>1 DEF Request, Idle
    <2>3. req' = [req EXCEPT ![r] = q]
      BY <1>4 DEF Start
    <2> HIDE DEF q
    <2>4. req'[r] = q
      BY <2>3 DEF IInv, TypeOK
    <2>5. KnowsInvoice(r)' /\ KnowsTotal(r)'
      BY <2>2, <2>4 DEF KnowsInvoice, KnowsTotal, InProgress
    <2> QED
      BY <1>2, <2>2, <2>3, <2>5, MoveKeeps DEF IInv, TypeOK
  <1> QED
    BY <1>3, <1>4

LEMMA IdleType ==
    /\ NoInvoice \in InvoiceRow
    /\ Idle \in Request
  BY DEF NoInvoice, InvoiceRow, Idle, Request

LEMMA ArriveKeeps ==
    ASSUME IInv, NEW r \in Requests, NEW i \in InvoiceIds, Arrive(r, i)
    PROVE  IInv'
  <1>1. CASE CheckCredit(r, i)
    <2>1. PICK subtotal \in Subtotals, gst \in GstRates, p \in {"insert", "rejected"} :
             req' = [req EXCEPT ![r] = [Idle EXCEPT !.pc = p, !.inv = i,
                                                    !.subtotal = subtotal, !.gst = gst]]
      BY <1>1 DEF CheckCredit
    <2> DEFINE q == [Idle EXCEPT !.pc = p, !.inv = i, !.subtotal = subtotal, !.gst = gst]
    <2>2. q \in Request /\ q.pc = p /\ q.inv = i
      BY IdleType, InvoicesAssumption DEF Request
    <2> HIDE DEF q
    <2>3. req' = [req EXCEPT ![r] = q] /\ req'[r] = q
      BY <2>1 DEF q, IInv, TypeOK
    <2>4. /\ UNCHANGED <<invoice, received, registered>> /\ invoice[i].status = None
          /\ \A s \in Requests : req[s].inv = i => req[s].pc \in {"rejected", "failed"}
      BY <1>1 DEF CheckCredit
    <2>5. KnowsInvoice(r)' /\ KnowsTotal(r)'
      BY <2>2, <2>3, <2>4 DEF KnowsInvoice, KnowsTotal, InProgress
    <2>6. registered' \subseteq Requests
      BY <2>4 DEF IInv, TypeOK
    <2>7. \A s \in Requests \ {r} : req[s].inv = q.inv => req[s].pc # "insert"
      BY <2>2, <2>4
    <2> QED
      BY <2>2, <2>3, <2>4, <2>5, <2>6, <2>7, MoveKeeps
  <1>2. CASE ReadForPatch(r, i)
    <2>1. PICK status \in PatchStatuses \cup {None}, irn \in TypedIrns \cup {None} :
             Start(r, i, IF status = None THEN invoice[i].status = "DRAFT"
                                          ELSE status \in Transitions(invoice[i].status),
                   [Idle EXCEPT !.pc = "patch", !.patch = status, !.irn = irn])
      BY <1>2 DEF ReadForPatch
    <2> DEFINE q == [Idle EXCEPT !.pc = "patch", !.patch = status, !.irn = irn]
               goesOn == IF status = None THEN invoice[i].status = "DRAFT"
                                          ELSE status \in Transitions(invoice[i].status)
    <2>2. q \in Request /\ q.pc = "patch" /\ q.patch = status
      BY IdleType, InvoicesAssumption DEF Request
    <2>3. goesOn => status # "DRAFT"
      BY InvoicesAssumption DEF Transitions, Statuses
    <2>4. goesOn \in BOOLEAN
      <3>1. CASE status = None
        BY <3>1
      <3>2. CASE status # None
        BY <3>2
      <3> QED
        BY <3>1, <3>2
    <2> HIDE DEF q
    <2> QED
      BY <2>1, <2>2, <2>3, <2>4, StartKeeps DEF q
  <1>3. CASE ReadForCancel(r, i)
    <2> DEFINE q == [Idle EXCEPT !.pc = "sumCancel"]
    <2>1. q \in Request /\ q.pc = "sumCancel"
      BY IdleType DEF Request
    <2> QED
      BY <1>3, <2>1, StartKeeps DEF ReadForCancel
  <1>4. CASE ReadForPayment(r, i)
    <2>1. PICK amount \in Amounts :
             Start(r, i, invoice[i].status \notin {"CANCELLED", "DRAFT"},
                   [Idle EXCEPT !.pc = "sumPay", !.amount = amount])
      BY <1>4 DEF ReadForPayment
    <2> DEFINE q == [Idle EXCEPT !.pc = "sumPay", !.amount = amount]
    <2>0. amount \in Nat /\ amount > 0
      BY InvoicesAssumption
    <2>2. q \in Request /\ q.pc = "sumPay" /\ q.amount > 0
      BY <2>0, IdleType DEF Request
    <2>3. invoice[i].status # None
      BY <2>1 DEF Start
    <2> HIDE DEF q
    <2> QED
      BY <2>1, <2>2, <2>3, StartKeeps DEF q, Issued
  <1>5. CASE ReadForIrn(r, i)
    <2> DEFINE q == [Idle EXCEPT !.pc = "register"]
    <2>1. q \in Request /\ q.pc = "register"
      BY IdleType DEF Request
    <2> QED
      BY <1>5, <2>1, StartKeeps DEF ReadForIrn
  <1>6. CASE ReadForIrnCancel(r, i)
    <2> DEFINE q == [Idle EXCEPT !.pc = "revoke"]
    <2>1. q \in Request /\ q.pc = "revoke"
      BY IdleType DEF Request
    <2> QED
      BY <1>6, <2>1, StartKeeps DEF ReadForIrnCancel
  <1> QED
    BY <1>1, <1>2, <1>3, <1>4, <1>5, <1>6 DEF Arrive

\* Steps that change neither an invoice nor a payment.
LEMMA QuietKeeps ==
    ASSUME IInv, NEW r \in Requests,
           SumForCancel(r) \/ RegisterIrn(r) \/ RefuseByNic(r) \/ RevokeIrn(r) \/ Fail(r)
    PROVE  IInv'
  <1>1. /\ InProgress(r) /\ UNCHANGED <<invoice, received>>
        /\ registered' \subseteq Requests
    BY DEF SumForCancel, RegisterIrn, RefuseByNic, RevokeIrn, Fail, InProgress, IInv, TypeOK
  <1>2. PICK label \in {"cancel", "rejected", "store", "clear", "failed"} : Goto(r, label)
    BY DEF SumForCancel, RegisterIrn, RefuseByNic, RevokeIrn, Fail
  <1>3. req[r].pc = "insert" => label = "failed"
    <2>1. ASSUME req[r].pc = "insert" PROVE Goto(r, "failed")
      BY <2>1 DEF SumForCancel, RegisterIrn, RefuseByNic, RevokeIrn, Fail
    <2>2. ASSUME Goto(r, "failed") PROVE label = "failed"
      <3>1. req'[r].pc = "failed" /\ req'[r].pc = label
        BY <2>2, <1>2 DEF Goto, IInv, TypeOK, Request
      <3> QED
        BY <3>1
    <2> QED
      BY <2>1, <2>2
  <1> DEFINE q == [req[r] EXCEPT !.pc = label]
  <1>4. req[r] \in Request /\ KnowsInvoice(r)
    BY DEF IInv, TypeOK
  <1>5. q \in Request /\ q.pc = label /\ q.inv = req[r].inv
    BY <1>4 DEF Request
  <1>6. req' = [req EXCEPT ![r] = q]
    BY <1>2 DEF Goto
  <1> HIDE DEF q
  <1>7. req'[r] = q
    BY <1>6 DEF IInv, TypeOK
  <1>8. label \in {"cancel", "store", "clear"} => invoice[req[r].inv].status # None
    BY <1>1, <1>3, <1>4 DEF KnowsInvoice
  <1>9. KnowsInvoice(r)' /\ KnowsTotal(r)'
    BY <1>1, <1>4, <1>5, <1>7, <1>8 DEF KnowsInvoice, KnowsTotal, InProgress
  <1> QED
    BY <1>1, <1>5, <1>6, <1>9, MoveKeeps

\* The steps that rewrite the row of the invoice.
LEMMA RowKeeps ==
    ASSUME IInv, NEW r \in Requests,
           PatchInvoice(r) \/ CancelInvoice(r) \/ Settle(r)
             \/ StoreIrn(r) \/ MarkSent(r) \/ ClearIrn(r)
    PROVE  IInv'
  <1>1. /\ req[r] \in Request /\ KnowsInvoice(r) /\ KnowsTotal(r)
        /\ InProgress(r) /\ req[r].pc # "insert"
    BY DEF IInv, TypeOK, InProgress, PatchInvoice, CancelInvoice, Settle, StoreIrn, MarkSent, ClearIrn
  <1>2. PICK i \in InvoiceIds : i = req[r].inv
    BY <1>1 DEF KnowsInvoice
  <1> DEFINE old == invoice[i]
  <1>3. old \in InvoiceRow /\ old.status # None /\ old.paid <= received[i]
        /\ old.paid <= old.total
    BY <1>1, <1>2 DEF IInv, TypeOK, KnowsInvoice, RowSound
  <1>4. PICK row \in InvoiceRow, label \in {"done", "send"} :
           /\ invoice' = [invoice EXCEPT ![i] = row] /\ Goto(r, label)
           /\ row.total = old.total /\ row.status # None
           /\ row.paid <= received[i] /\ row.paid <= old.total
           /\ Issued(i) => row.status # "DRAFT"
    <2>1. CASE PatchInvoice(r)
      <3> DEFINE row == [old EXCEPT !.status = IF req[r].patch = None THEN @ ELSE req[r].patch,
                                    !.irn = IF req[r].irn = None THEN @ ELSE req[r].irn]
      <3>1. req[r].patch \in (Statuses \cup {None}) \ {"DRAFT"} /\ req[r].irn \in TypedIrns \cup {None}
        BY <2>1, <1>1, InvoicesAssumption DEF PatchInvoice, KnowsInvoice, Request
      <3>2. row \in InvoiceRow /\ row.total = old.total /\ row.paid = old.paid
            /\ row.status \in {old.status, req[r].patch}
            /\ (req[r].patch = None => row.status = old.status)
        BY <3>1, <1>3 DEF InvoiceRow
      <3>3. row.status # None /\ (Issued(i) => row.status # "DRAFT")
        BY <3>1, <3>2, <1>3 DEF Issued
      <3>4. invoice' = [invoice EXCEPT ![i] = row] /\ Goto(r, "done")
        BY <2>1, <1>2 DEF PatchInvoice, Update
      <3> QED
        BY <1>3, <3>2, <3>3, <3>4
    <2>2. CASE CancelInvoice(r)
      <3> DEFINE row == [old EXCEPT !.status = "CANCELLED"]
      <3>1. row \in InvoiceRow /\ row.total = old.total /\ row.paid = old.paid
            /\ row.status = "CANCELLED"
        BY <1>3 DEF InvoiceRow, Statuses
      <3>2. invoice' = [invoice EXCEPT ![i] = row] /\ Goto(r, "done")
        BY <2>2, <1>2 DEF CancelInvoice, Update
      <3>3. None # "CANCELLED"
        BY InvoicesAssumption DEF Statuses
      <3> QED
        BY <1>3, <3>1, <3>2, <3>3
    <2>3. CASE Settle(r)
      <3> DEFINE status == IF req[r].newTotal >= req[r].was.total THEN "PAID" ELSE "PARTIAL"
                 row == [old EXCEPT !.paid = req[r].newTotal, !.status = status]
      <3>1. /\ req[r].newTotal \in Nat /\ req[r].newTotal <= received[i]
            /\ req[r].newTotal <= old.total
        BY <2>3, <1>1, <1>2 DEF Settle, KnowsInvoice, KnowsTotal, Request
      <3>2. row \in InvoiceRow /\ row.total = old.total /\ row.paid = req[r].newTotal
            /\ row.status \in {"PAID", "PARTIAL"}
        BY <1>3, <3>1 DEF InvoiceRow, Statuses
      <3>3. invoice' = [invoice EXCEPT ![i] = row] /\ Goto(r, "done")
        BY <2>3, <1>2 DEF Settle, Update
      <3>4. None \notin {"PAID", "PARTIAL"}
        BY InvoicesAssumption DEF Statuses
      <3> QED
        BY <3>1, <3>2, <3>3, <3>4
    <2>4. CASE StoreIrn(r) \/ ClearIrn(r)
      <3>1. PICK irn \in Requests \cup {None}, label \in {"done", "send"} :
               invoice' = [invoice EXCEPT ![i] = [old EXCEPT !.irn = irn]] /\ Goto(r, label)
        BY <2>4, <1>2 DEF StoreIrn, ClearIrn, Update
      <3> DEFINE row == [old EXCEPT !.irn = irn]
      <3>2. row \in InvoiceRow /\ row.total = old.total /\ row.paid = old.paid
            /\ row.status = old.status
        BY <1>3 DEF InvoiceRow
      <3> QED
        BY <1>3, <3>1, <3>2 DEF Issued
    <2>5. CASE MarkSent(r)
      <3> DEFINE row == [old EXCEPT !.status = "SENT"]
      <3>1. row \in InvoiceRow /\ row.total = old.total /\ row.paid = old.paid
            /\ row.status = "SENT"
        BY <1>3 DEF InvoiceRow, Statuses
      <3>2. invoice' = [invoice EXCEPT ![i] = row] /\ Goto(r, "done")
        BY <2>5, <1>2 DEF MarkSent, Update
      <3>3. None # "SENT"
        BY InvoicesAssumption DEF Statuses
      <3> QED
        BY <1>3, <3>1, <3>2, <3>3
    <2> QED
      BY <2>1, <2>2, <2>3, <2>4, <2>5
  <1> DEFINE q == [req[r] EXCEPT !.pc = label]
  <1>5. q \in Request /\ q.pc = label /\ q.inv = i
    BY <1>1, <1>2, <1>4 DEF Request
  <1>6. req' = [req EXCEPT ![r] = q]
    BY <1>4 DEF Goto
  <1>7. UNCHANGED <<received, registered>>
    BY DEF PatchInvoice, CancelInvoice, Settle, StoreIrn, MarkSent, ClearIrn
  <1> HIDE DEF q
  <1> QED
    BY <1>3, <1>4, <1>5, <1>6, <1>7, WriteKeeps

LEMMA SumKeeps ==
    ASSUME IInv, NEW r \in Requests, SumForPayment(r)
    PROVE  IInv'
  <1>1. req[r] \in Request /\ KnowsInvoice(r) /\ req[r].pc = "sumPay"
    BY DEF IInv, TypeOK, SumForPayment
  <1>2. PICK i \in InvoiceIds : i = req[r].inv
    BY <1>1 DEF KnowsInvoice, InProgress
  <1>3. received[i] \in Nat /\ req[r].amount \in Nat /\ req[r].amount > 0
        /\ req[r].was.total \in Nat
    BY <1>1 DEF IInv, TypeOK, Request, KnowsInvoice, InvoiceRow
  <1> DEFINE newTotal == received[i] + req[r].amount
             label == IF newTotal > req[r].was.total THEN "rejected" ELSE "pay"
             q == [req[r] EXCEPT !.pc = label, !.newTotal = newTotal]
  <1>4. newTotal \in Nat /\ label \in {"rejected", "pay"} /\ newTotal > 0
        /\ (label = "pay" => newTotal <= req[r].was.total)
    BY <1>3
  <1> HIDE DEF newTotal, label
  <1>5. /\ q \in Request /\ q.pc = label /\ q.inv = i /\ q.newTotal = newTotal
        /\ q.amount = req[r].amount /\ q.was = req[r].was
    BY <1>1, <1>2, <1>4 DEF Request
  <1>6. req' = [req EXCEPT ![r] = q] /\ UNCHANGED <<invoice, received, registered>>
    BY <1>2 DEF SumForPayment, newTotal, label
  <1> HIDE DEF q
  <1>7. req'[r] = q
    BY <1>6 DEF IInv, TypeOK
  <1>8. Issued(i) /\ req[r].was.total = invoice[i].total
    BY <1>1, <1>2 DEF KnowsInvoice
  <1>9. KnowsInvoice(r)'
    BY <1>2, <1>3, <1>4, <1>5, <1>6, <1>7, <1>8 DEF KnowsInvoice, InProgress, Issued
  <1>10. KnowsTotal(r)'
    BY <1>4, <1>5, <1>6, <1>7 DEF KnowsTotal, newTotal
  <1> QED
    BY <1>4, <1>5, <1>6, <1>9, <1>10, MoveKeeps DEF IInv, TypeOK

\* The invoice appears: no other request knows of it.
LEMMA InsertKeeps ==
    ASSUME IInv, NEW r \in Requests, InsertInvoice(r)
    PROVE  IInv'
  <1>1. req[r] \in Request /\ KnowsInvoice(r) /\ req[r].pc = "insert"
    BY DEF IInv, TypeOK, InsertInvoice
  <1>2. PICK i \in InvoiceIds : i = req[r].inv /\ invoice[i].status = None
    BY <1>1 DEF KnowsInvoice, InProgress
  <1> DEFINE total == WithGst(req[r].subtotal, req[r].gst)
             row == [NoInvoice EXCEPT !.status = "DRAFT", !.total = total]
             q == [req[r] EXCEPT !.pc = "done"]
  <1>3. total \in Nat
    BY <1>1, GstType DEF Request
  <1> HIDE DEF total
  <1>4. row \in InvoiceRow /\ row.status = "DRAFT" /\ row.paid = 0 /\ row.total = total
    BY <1>3 DEF InvoiceRow, NoInvoice, Statuses
  <1>5. q \in Request /\ q.pc = "done"
    BY <1>1 DEF Request
  <1>6. /\ invoice' = [invoice EXCEPT ![i] = row] /\ req' = [req EXCEPT ![r] = q]
        /\ UNCHANGED <<received, registered>>
    BY <1>2 DEF InsertInvoice, Update, Goto, total
  <1> HIDE DEF row, q
  <1>7. TypeOK'
    BY <1>4, <1>5, <1>6 DEF IInv, TypeOK
  <1>8. /\ req'[r] = q /\ \A s \in Requests \ {r} : req'[s] = req[s]
        /\ invoice'[i] = row /\ \A j \in InvoiceIds \ {i} : invoice'[j] = invoice[j]
    BY <1>6 DEF IInv, TypeOK
  <1>9. received[i] = 0
    BY <1>2 DEF IInv, RowSound
  <1>10. \A j \in InvoiceIds : RowSound(j)'
    <2>1. RowSound(i)'
      BY <1>3, <1>4, <1>6, <1>8, <1>9, InvoicesAssumption DEF RowSound, Statuses
    <2>2. \A j \in InvoiceIds \ {i} : RowSound(j)'
      BY <1>6, <1>8 DEF IInv, RowSound, Issued
    <2> QED
      BY <2>1, <2>2
  <1>11. ASSUME NEW s \in Requests \ {r} PROVE KnowsInvoice(s)' /\ KnowsTotal(s)'
    <2>1. InProgress(s) => req[s].inv \in InvoiceIds \ {i}
      BY <1>1, <1>2 DEF IInv, KnowsInvoice, CreatedOnce
    <2>2. \A j \in InvoiceIds \ {i} : Evolves(j)
      BY <1>6, <1>8 DEF Evolves, IInv, TypeOK, Issued
    <2> QED
      BY <1>7, <1>8, <2>1, <2>2, OtherKnows
  <1>12. KnowsInvoice(r)' /\ KnowsTotal(r)'
    BY <1>5, <1>8 DEF KnowsInvoice, KnowsTotal, InProgress
  <1>13. CreatedOnce'
    BY <1>5, <1>8 DEF IInv, CreatedOnce
  <1> QED
    BY <1>7, <1>10, <1>11, <1>12, <1>13 DEF IInv

\* The payment joins the sum: what was promised of newTotal becomes true.
LEMMA PayKeeps ==
    ASSUME IInv, NEW r \in Requests, InsertPayment(r)
    PROVE  IInv'
  <1>1. req[r] \in Request /\ KnowsInvoice(r) /\ KnowsTotal(r) /\ req[r].pc = "pay"
    BY DEF IInv, TypeOK, InsertPayment
  <1>2. PICK i \in InvoiceIds : i = req[r].inv /\ Issued(i)
    BY <1>1 DEF KnowsInvoice, InProgress
  <1> DEFINE q == [req[r] EXCEPT !.pc = "settle"]
  <1>3. /\ received[i] \in Nat /\ req[r].amount \in Nat /\ req[r].newTotal \in Nat
        /\ req[r].newTotal <= received[i] + req[r].amount
    BY <1>1, <1>2 DEF IInv, TypeOK, Request, KnowsTotal
  <1>4. /\ q \in Request /\ q.pc = "settle" /\ q.inv = i /\ q.newTotal = req[r].newTotal
        /\ q.amount = req[r].amount /\ q.was = req[r].was
    BY <1>1, <1>2 DEF Request
  <1>5. /\ received' = [received EXCEPT ![i] = @ + req[r].amount]
        /\ req' = [req EXCEPT ![r] = q] /\ UNCHANGED <<invoice, registered>>
    BY <1>2 DEF InsertPayment, Goto
  <1> HIDE DEF q
  <1>6. TypeOK'
    BY <1>3, <1>4, <1>5 DEF IInv, TypeOK
  <1>7. /\ req'[r] = q /\ \A s \in Requests \ {r} : req'[s] = req[s]
        /\ received'[i] = received[i] + req[r].amount
        /\ \A j \in InvoiceIds \ {i} : received'[j] = received[j]
    BY <1>5 DEF IInv, TypeOK
  <1>8. \A j \in InvoiceIds : received'[j] >= received[j] /\ received[j] \in Nat
    BY <1>3, <1>7 DEF IInv, TypeOK
  <1>9. \A j \in InvoiceIds : RowSound(j)'
    <2>1. \A j \in InvoiceIds : invoice[j].paid \in Nat /\ RowSound(j)
      BY DEF IInv, TypeOK, InvoiceRow
    <2>2. RowSound(i)'
      <3>1. invoice'[i] = invoice[i] /\ invoice[i].status \notin {None, "DRAFT"}
        BY <1>2, <1>5 DEF Issued
      <3>2. /\ invoice[i].paid \in Nat /\ invoice[i].paid <= received[i]
            /\ invoice[i].paid <= invoice[i].total
        BY <2>1 DEF RowSound
      <3>3. received[i] \in Nat /\ received'[i] \in Nat /\ received'[i] >= received[i]
        BY <1>3, <1>7
      <3>4. invoice[i].paid <= received'[i]
        BY <3>2, <3>3
      <3> QED
        BY <3>1, <3>2, <3>4 DEF RowSound, Issued
    <2>3. \A j \in InvoiceIds \ {i} : RowSound(j)'
      BY <1>5, <1>7, <2>1 DEF RowSound, Issued
    <2> QED
      BY <2>2, <2>3
  <1>10. \A j \in InvoiceIds : Evolves(j)
    BY <1>5, <1>8 DEF Evolves, Issued
  <1>11. \A s \in Requests \ {r} : KnowsInvoice(s)' /\ KnowsTotal(s)'
    BY <1>6, <1>7, <1>10, OtherKnows DEF IInv, KnowsInvoice
  <1>12. KnowsInvoice(r)'
    BY <1>1, <1>2, <1>4, <1>5, <1>7 DEF KnowsInvoice, InProgress, Issued
  <1>13. KnowsTotal(r)'
    BY <1>1, <1>3, <1>4, <1>7 DEF KnowsTotal
  <1>14. CreatedOnce'
    BY <1>4, <1>7 DEF IInv, CreatedOnce
  <1> QED
    BY <1>6, <1>9, <1>11, <1>12, <1>13, <1>14 DEF IInv

LEMMA StepKeeps == IInv /\ [Next]_vars => IInv'
  <1> SUFFICES ASSUME IInv, [Next]_vars PROVE IInv'
    OBVIOUS
  <1>1. CASE UNCHANGED vars
    BY <1>1 DEF vars, IInv, TypeOK, RowSound, Issued, KnowsInvoice, KnowsTotal, InProgress,
                CreatedOnce
  <1>2. ASSUME NEW r \in Requests, (\E i \in InvoiceIds : Arrive(r, i)) \/ Continue(r) \/ Fail(r)
        PROVE  IInv'
    BY <1>2, ArriveKeeps, QuietKeeps, RowKeeps, SumKeeps, InsertKeeps, PayKeeps DEF Continue
  <1> QED
    BY <1>1, <1>2 DEF Next

\* The inductive invariant holds in every state of Invoices.
THEOREM InductiveInvariant == Spec => []IInv
  BY InitSound, StepKeeps, PTL DEF Spec

\* Rows and requests keep their types, sums of payments stay natural.
THEOREM TypeCorrect == Spec => []TypeOK
  BY InductiveInvariant, PTL DEF IInv

\* The paid amount of an invoice never exceeds the payments recorded for it
\* nor its total, for any number of concurrent payments and any failure.
THEOREM PaidAmountIsBacked == Spec => []PaidNeverAhead
  <1>1. IInv => PaidNeverAhead
    BY DEF IInv, RowSound, PaidNeverAhead
  <1> QED
    BY <1>1, InductiveInvariant, PTL

\* An invoice that took a payment was issued, and is never a draft again.
THEOREM PaymentsNeedIssue == Spec => []PaymentsOnIssuedOnly
  <1>1. IInv => PaymentsOnIssuedOnly
    BY DEF IInv, RowSound, Issued, PaymentsOnIssuedOnly
  <1> QED
    BY <1>1, InductiveInvariant, PTL

-----------------------------------------------------------------------------
(* The status beside the paid amount.                                      *)

StatusShows(i) ==
    /\ invoice[i].status = "PAID" => invoice[i].paid = invoice[i].total
    /\ invoice[i].status = "PARTIAL" => 0 < invoice[i].paid /\ invoice[i].paid < invoice[i].total

\* A step that rewrites one invoice.
LEMMA OneRowShows ==
    ASSUME IInv, \A i \in InvoiceIds : StatusShows(i),
           NEW j \in InvoiceIds, NEW row, invoice' = [invoice EXCEPT ![j] = row],
           row.status = "PAID" => row.paid = row.total,
           row.status = "PARTIAL" => 0 < row.paid /\ row.paid < row.total
    PROVE  \A i \in InvoiceIds : StatusShows(i)'
  BY DEF StatusShows, IInv, TypeOK

LEMMA StepShows ==
    ASSUME PatchStatuses \cap {"PAID", "PARTIAL"} = {},
           IInv, \A i \in InvoiceIds : StatusShows(i), [Next]_vars
    PROVE  \A i \in InvoiceIds : StatusShows(i)'
  <1>1. CASE invoice' = invoice
    BY <1>1 DEF StatusShows
  <1>2. ASSUME NEW r \in Requests,
               PatchInvoice(r) \/ CancelInvoice(r) \/ Settle(r) \/ StoreIrn(r)
                 \/ MarkSent(r) \/ ClearIrn(r)
        PROVE  \A i \in InvoiceIds : StatusShows(i)'
    <2>1. /\ req[r] \in Request /\ KnowsInvoice(r) /\ KnowsTotal(r)
          /\ InProgress(r) /\ req[r].pc # "insert"
      BY <1>2 DEF IInv, TypeOK, InProgress, PatchInvoice, CancelInvoice, Settle, StoreIrn,
                  MarkSent, ClearIrn
    <2>2. PICK j \in InvoiceIds : j = req[r].inv
      BY <2>1 DEF KnowsInvoice
    <2> DEFINE old == invoice[j]
    <2>3. old \in InvoiceRow /\ StatusShows(j)
      BY DEF IInv, TypeOK
    <2>4. CASE PatchInvoice(r)
      <3> DEFINE row == [old EXCEPT !.status = IF req[r].patch = None THEN @ ELSE req[r].patch,
                                    !.irn = IF req[r].irn = None THEN @ ELSE req[r].irn]
      <3>1. req[r].patch \in PatchStatuses \cup {None}
        BY <2>1, <2>4 DEF PatchInvoice, KnowsInvoice
      <3>2. /\ row.total = old.total /\ row.paid = old.paid
            /\ row.status = old.status \/ row.status \in PatchStatuses
        BY <3>1, <2>3 DEF InvoiceRow
      <3>3. invoice' = [invoice EXCEPT ![j] = row]
        BY <2>2, <2>4 DEF PatchInvoice, Update
      <3> HIDE DEF row
      <3>4. row.status = "PAID" => row.paid = row.total
        BY <2>3, <3>2 DEF StatusShows
      <3>5. row.status = "PARTIAL" => 0 < row.paid /\ row.paid < row.total
        BY <2>3, <3>2 DEF StatusShows
      <3> QED
        BY <3>3, <3>4, <3>5, OneRowShows
    <2>5. CASE CancelInvoice(r) \/ MarkSent(r)
      <3>1. PICK status \in {"CANCELLED", "SENT"} :
               invoice' = [invoice EXCEPT ![j] = [old EXCEPT !.status = status]]
        BY <2>2, <2>5 DEF CancelInvoice, MarkSent, Update
      <3>2. [old EXCEPT !.status = status].status = status
        BY <2>3 DEF InvoiceRow
      <3> QED
        BY <3>1, <3>2, OneRowShows
    <2>6. CASE StoreIrn(r) \/ ClearIrn(r)
      <3>1. PICK irn \in {r, None} : invoice' = [invoice EXCEPT ![j] = [old EXCEPT !.irn = irn]]
        BY <2>2, <2>6 DEF StoreIrn, ClearIrn, Update
      <3> DEFINE row == [old EXCEPT !.irn = irn]
      <3>2. row.status = old.status /\ row.paid = old.paid /\ row.total = old.total
        BY <2>3 DEF InvoiceRow
      <3> HIDE DEF row
      <3> QED
        BY <3>1, <3>2, <2>3, OneRowShows DEF StatusShows, row
    <2>7. CASE Settle(r)
      <3> DEFINE status == IF req[r].newTotal >= req[r].was.total THEN "PAID" ELSE "PARTIAL"
                 row == [old EXCEPT !.paid = req[r].newTotal, !.status = status]
      <3>1. /\ req[r].newTotal \in Nat /\ old.total \in Nat
            /\ 0 < req[r].newTotal /\ req[r].newTotal <= old.total
            /\ req[r].was.total = old.total
        BY <2>1, <2>2, <2>3, <2>7 DEF Settle, KnowsInvoice, KnowsTotal, Request, InvoiceRow
      <3>2. row.total = old.total /\ row.paid = req[r].newTotal /\ row.status = status
        BY <2>3 DEF InvoiceRow
      <3>3. invoice' = [invoice EXCEPT ![j] = row]
        BY <2>2, <2>7 DEF Settle, Update
      <3> HIDE DEF row
      <3>4. row.status = "PAID" => row.paid = row.total
        BY <3>1, <3>2
      <3>5. row.status = "PARTIAL" => 0 < row.paid /\ row.paid < row.total
        BY <3>1, <3>2
      <3> QED
        BY <3>3, <3>4, <3>5, OneRowShows
    <2> QED
      BY <1>2, <2>4, <2>5, <2>6, <2>7
  <1>3. ASSUME NEW r \in Requests, InsertInvoice(r)
        PROVE  \A i \in InvoiceIds : StatusShows(i)'
    <2>1. req[r].inv \in InvoiceIds
      BY <1>3 DEF IInv, KnowsInvoice, InProgress, InsertInvoice
    <2> DEFINE row == [NoInvoice EXCEPT !.status = "DRAFT",
                                        !.total = WithGst(req[r].subtotal, req[r].gst)]
    <2>2. row.status = "DRAFT"
      BY DEF NoInvoice
    <2>3. invoice' = [invoice EXCEPT ![req[r].inv] = row]
      BY <1>3 DEF InsertInvoice, Update
    <2> QED
      BY <2>1, <2>2, <2>3, OneRowShows
  <1>4. ASSUME NEW r \in Requests, (\E i \in InvoiceIds : Arrive(r, i)) \/ SumForCancel(r)
                 \/ SumForPayment(r) \/ InsertPayment(r) \/ RegisterIrn(r) \/ RefuseByNic(r)
                 \/ RevokeIrn(r) \/ Fail(r)
        PROVE  invoice' = invoice
    BY <1>4 DEF Arrive, CheckCredit, ReadForPatch, ReadForCancel, ReadForPayment, ReadForIrn,
                ReadForIrnCancel, Start, SumForCancel, SumForPayment, InsertPayment, RegisterIrn,
                RefuseByNic, RevokeIrn, Fail
  <1> QED
    BY <1>1, <1>2, <1>3, <1>4 DEF Next, Continue, vars

\* As long as no PATCH may set PAID or PARTIAL by hand, PAID means that the paid
\* amount is the total, and PARTIAL that it is between nothing and the total,
\* however payments, cancellations and IRN calls interleave and stop.
THEOREM StatusTellsPaid ==
    PatchStatuses \cap {"PAID", "PARTIAL"} = {} => (Spec => []StatusMatchesPaid)
  <1> SUFFICES ASSUME PatchStatuses \cap {"PAID", "PARTIAL"} = {}
               PROVE  Spec => []StatusMatchesPaid
    OBVIOUS
  <1> DEFINE Shows == \A i \in InvoiceIds : StatusShows(i)
  <1>1. Init => Shows
    BY InvoicesAssumption DEF Init, StatusShows, NoInvoice, Statuses
  <1>2. IInv /\ Shows /\ [Next]_vars => Shows'
    BY StepShows
  <1>3. Shows <=> StatusMatchesPaid
    BY DEF StatusShows, StatusMatchesPaid
  <1> HIDE DEF Shows
  <1> QED
    BY <1>1, <1>2, <1>3, InductiveInvariant, PTL DEF Spec

-----------------------------------------------------------------------------
(* One request at a time (MaxInFlight = 1), any of which may die halfway.  *)

OneInFlight == \A r, s \in Requests : InProgress(r) /\ InProgress(s) => r = s

\* Some request of invoice i stands, or stopped, at one of the labels.
At(i, labels) == \E r \in Requests : req[r].inv = i /\ req[r].pc \in labels

\* The paid amount lags behind the payments only between the insert of a
\* payment and the write that follows it, for ever if the request died there.
MoneyRow(i) ==
    /\ received[i] <= invoice[i].total
    /\ invoice[i].paid = received[i] \/ At(i, {"settle", "failed"})

MoneyKnows(r) ==
    /\ req[r].pc = "pay" => req[r].newTotal = received[req[r].inv] + req[r].amount
    /\ req[r].pc = "settle" => req[r].newTotal = received[req[r].inv]

MoneyInv ==
    /\ OneInFlight
    /\ \A i \in InvoiceIds : MoneyRow(i)
    /\ \A r \in Requests : MoneyKnows(r)

\* What an arriving request becomes.
LEMMA ArriveTarget ==
    ASSUME IInv, NEW r \in Requests, NEW i \in InvoiceIds, Arrive(r, i)
    PROVE  \E q \in Request :
              /\ req' = [req EXCEPT ![r] = q] /\ q.inv = i
              /\ q.pc \in {"insert", "rejected", "patch", "sumCancel", "sumPay", "register", "revoke"}
              /\ q.pc = "revoke" => q.was.irn = invoice[i].irn /\ invoice[i].irn # None
              /\ q.pc = "insert" => invoice[i].status = None
  <1>1. invoice[i] \in InvoiceRow
    BY DEF IInv, TypeOK
  <1>2. ASSUME NEW goesOn \in BOOLEAN, NEW next \in Request, Start(r, i, goesOn, next),
               next.pc \in {"patch", "sumCancel", "sumPay", "register", "revoke"},
               goesOn /\ next.pc = "revoke" => invoice[i].irn # None
        PROVE  \E q \in Request :
                  /\ req' = [req EXCEPT ![r] = q] /\ q.inv = i
                  /\ q.pc \in {"rejected", "patch", "sumCancel", "sumPay", "register", "revoke"}
                  /\ q.pc = "revoke" => q.was.irn = invoice[i].irn /\ invoice[i].irn # None
    <2>1. CASE goesOn
      <3> DEFINE q == [next EXCEPT !.inv = i, !.was = invoice[i]]
      <3>1. q \in Request /\ q.pc = next.pc /\ q.inv = i /\ q.was = invoice[i]
        BY <1>1 DEF Request
      <3>2. req' = [req EXCEPT ![r] = q]
        BY <1>2, <2>1 DEF Start
      <3> HIDE DEF q
      <3> QED
        BY <1>2, <2>1, <3>1, <3>2
    <2>2. CASE ~goesOn
      <3> DEFINE q == [Idle EXCEPT !.pc = "rejected", !.inv = i]
      <3>1. q \in Request /\ q.pc = "rejected" /\ q.inv = i
        BY IdleType DEF Request
      <3>2. req' = [req EXCEPT ![r] = q]
        BY <1>2, <2>2 DEF Start
      <3> HIDE DEF q
      <3> QED
        BY <3>1, <3>2
    <2> QED
      BY <2>1, <2>2
  <1>3. CASE CheckCredit(r, i)
    <2>1. PICK subtotal \in Subtotals, gst \in GstRates, p \in {"insert", "rejected"} :
             req' = [req EXCEPT ![r] = [Idle EXCEPT !.pc = p, !.inv = i,
                                                    !.subtotal = subtotal, !.gst = gst]]
      BY <1>3 DEF CheckCredit
    <2> DEFINE q == [Idle EXCEPT !.pc = p, !.inv = i, !.subtotal = subtotal, !.gst = gst]
    <2>2. q \in Request /\ q.pc = p /\ q.inv = i
      BY IdleType, InvoicesAssumption DEF Request
    <2>3. req' = [req EXCEPT ![r] = q] /\ invoice[i].status = None
      BY <2>1, <1>3 DEF CheckCredit
    <2> HIDE DEF q
    <2> QED
      BY <2>2, <2>3
  <1>4. CASE ReadForPatch(r, i)
    <2>1. PICK status \in PatchStatuses \cup {None}, irn \in TypedIrns \cup {None} :
             Start(r, i, IF status = None THEN invoice[i].status = "DRAFT"
                                          ELSE status \in Transitions(invoice[i].status),
                   [Idle EXCEPT !.pc = "patch", !.patch = status, !.irn = irn])
      BY <1>4 DEF ReadForPatch
    <2> DEFINE next == [Idle EXCEPT !.pc = "patch", !.patch = status, !.irn = irn]
               goesOn == IF status = None THEN invoice[i].status = "DRAFT"
                                          ELSE status \in Transitions(invoice[i].status)
    <2>2. next \in Request /\ next.pc = "patch"
      BY IdleType, InvoicesAssumption DEF Request
    <2>3. goesOn \in BOOLEAN
      <3>1. CASE status = None
        BY <3>1
      <3>2. CASE status # None
        BY <3>2
      <3> QED
        BY <3>1, <3>2
    <2>4. Start(r, i, goesOn, next)
      BY <2>1
    <2> HIDE DEF next, goesOn
    <2> QED
      BY <2>2, <2>3, <2>4, <1>2
  <1>5. CASE ReadForCancel(r, i)
    <2> DEFINE next == [Idle EXCEPT !.pc = "sumCancel"]
    <2>1. next \in Request /\ next.pc = "sumCancel"
      BY IdleType DEF Request
    <2>2. Start(r, i, invoice[i].status \notin {"CANCELLED", "PAID"}, next)
      BY <1>5 DEF ReadForCancel
    <2> HIDE DEF next
    <2> QED
      BY <2>1, <2>2, <1>2
  <1>6. CASE ReadForPayment(r, i)
    <2>1. PICK amount \in Amounts :
             Start(r, i, invoice[i].status \notin {"CANCELLED", "DRAFT"},
                   [Idle EXCEPT !.pc = "sumPay", !.amount = amount])
      BY <1>6 DEF ReadForPayment
    <2> DEFINE next == [Idle EXCEPT !.pc = "sumPay", !.amount = amount]
    <2>2. next \in Request /\ next.pc = "sumPay"
      BY IdleType, InvoicesAssumption DEF Request
    <2> HIDE DEF next
    <2> QED
      BY <2>1, <2>2, <1>2 DEF next
  <1>7. CASE ReadForIrn(r, i)
    <2> DEFINE next == [Idle EXCEPT !.pc = "register"]
    <2>1. next \in Request /\ next.pc = "register"
      BY IdleType DEF Request
    <2>2. Start(r, i, invoice[i].irn = None /\ invoice[i].status # "CANCELLED", next)
      BY <1>7 DEF ReadForIrn
    <2> HIDE DEF next
    <2> QED
      BY <2>1, <2>2, <1>2
  <1>8. CASE ReadForIrnCancel(r, i)
    <2> DEFINE next == [Idle EXCEPT !.pc = "revoke"]
    <2>1. next \in Request /\ next.pc = "revoke"
      BY IdleType DEF Request
    <2>2. Start(r, i, invoice[i].irn # None, next)
      BY <1>8 DEF ReadForIrnCancel
    <2> HIDE DEF next
    <2> QED
      BY <2>1, <2>2, <1>2
  <1> QED
    BY <1>3, <1>4, <1>5, <1>6, <1>7, <1>8 DEF Arrive

\* Where a request in progress may go next; it stays with its invoice.
LEMMA ContinueTarget ==
    ASSUME IInv, NEW r \in Requests, Continue(r) \/ Fail(r)
    PROVE  \E q \in Request :
              /\ req' = [req EXCEPT ![r] = q] /\ q.inv = req[r].inv
              /\ q.amount = req[r].amount /\ q.was = req[r].was
              /\ q.pc # "idle"
              /\ q.pc = "pay" => SumForPayment(r)
              /\ q.pc = "settle" => InsertPayment(r)
              /\ q.pc = "revoke" => FALSE
              /\ q.pc = "store" => RegisterIrn(r)
              /\ q.pc = "clear" => RevokeIrn(r)
              /\ q.pc = "failed" <=> Fail(r)
              /\ ~SumForPayment(r) => q.newTotal = req[r].newTotal
  <1>1. req[r] \in Request /\ KnowsInvoice(r)
    BY DEF IInv, TypeOK
  <1>2. CASE SumForPayment(r)
    <2>1. req[r].inv \in InvoiceIds /\ req[r].pc = "sumPay"
      BY <1>1, <1>2 DEF SumForPayment, KnowsInvoice, InProgress
    <2> DEFINE n == received[req[r].inv] + req[r].amount
               p == IF n > req[r].was.total THEN "rejected" ELSE "pay"
               q == [req[r] EXCEPT !.pc = p, !.newTotal = n]
    <2>2. n \in Nat
      BY <1>1, <2>1 DEF IInv, TypeOK, Request
    <2> HIDE DEF n
    <2>3. /\ q \in Request /\ q.pc = p /\ q.inv = req[r].inv
          /\ q.amount = req[r].amount /\ q.was = req[r].was
      BY <1>1, <2>2 DEF Request
    <2>4. req' = [req EXCEPT ![r] = q]
      BY <1>2 DEF SumForPayment, n
    <2>5. ~Fail(r)
      <3>1. ASSUME Fail(r) PROVE FALSE
        <4> HIDE DEF q, p
        <4>1. req'[r] = q /\ req'[r].pc = "failed"
          BY <3>1, <2>4, <1>1 DEF Fail, Goto, IInv, TypeOK, Request
        <4>2. p # "failed"
          BY DEF p
        <4> QED
          BY <4>1, <4>2, <2>3
      <3> QED
        BY <3>1
    <2> HIDE DEF q
    <2>6. p \in {"rejected", "pay"}
      OBVIOUS
    <2> HIDE DEF p
    <2> QED
      BY <1>2, <2>3, <2>4, <2>5, <2>6
  <1>3. CASE ~SumForPayment(r)
    <2>1. PICK label \in {"cancel", "settle", "rejected", "store", "send", "clear", "done", "failed"} :
             Goto(r, label)
      BY <1>3 DEF Continue, InsertInvoice, PatchInvoice, SumForCancel, CancelInvoice,
                  InsertPayment, Settle, RegisterIrn, RefuseByNic, StoreIrn, MarkSent,
                  RevokeIrn, ClearIrn, Fail
    <2> DEFINE q == [req[r] EXCEPT !.pc = label]
    <2>2. /\ q \in Request /\ q.pc = label /\ q.inv = req[r].inv
          /\ q.amount = req[r].amount /\ q.was = req[r].was /\ q.newTotal = req[r].newTotal
      BY <1>1 DEF Request
    <2>3. req' = [req EXCEPT ![r] = q] /\ req'[r].pc = label
      BY <2>1, <2>2 DEF Goto, IInv, TypeOK
    <2>4. \A l : Goto(r, l) => label = l
      BY <2>3, <1>1 DEF Goto, IInv, TypeOK, Request
    <2>5. label = "failed" <=> Fail(r)
      BY <1>3, <2>1, <2>4 DEF Continue, InsertInvoice, PatchInvoice, SumForCancel, CancelInvoice,
                  InsertPayment, Settle, RegisterIrn, RefuseByNic, StoreIrn, MarkSent,
                  RevokeIrn, ClearIrn, Fail
    <2>6. /\ label = "settle" => InsertPayment(r)
          /\ label = "store" => RegisterIrn(r)
          /\ label = "clear" => RevokeIrn(r)
      BY <1>3, <2>4 DEF Continue, InsertInvoice, PatchInvoice, SumForCancel, CancelInvoice,
                  InsertPayment, Settle, RegisterIrn, RefuseByNic, StoreIrn, MarkSent,
                  RevokeIrn, ClearIrn, Fail
    <2> HIDE DEF q
    <2> QED
      BY <1>3, <2>2, <2>3, <2>5, <2>6
  <1> QED
    BY <1>2, <1>3

\* With one request at a time, whoever may start is alone.
LEMMA Alone ==
    ASSUME MaxInFlight = 1, OneInFlight, NEW r \in Requests, NEW i \in InvoiceIds, Arrive(r, i)
    PROVE  req[r].pc = "idle" /\ \A s \in Requests : ~InProgress(s)
  <1> DEFINE Busy == {s \in Requests : InProgress(s)}
  <1>1. req[r].pc = "idle" /\ Cardinality(Busy) < 1
    BY DEF Arrive, CheckCredit, ReadForPatch, ReadForCancel, ReadForPayment, ReadForIrn,
           ReadForIrnCancel, MayStart
  <1>2. ASSUME NEW s \in Requests, InProgress(s) PROVE FALSE
    <2>1. Busy = {s}
      BY <1>2 DEF OneInFlight
    <2> QED
      BY <1>1, <2>1, FS_Singleton
  <1> QED
    BY <1>1, <1>2

LEMMA OneStays ==
    ASSUME MaxInFlight = 1, IInv, OneInFlight, NEW r \in Requests,
           (\E i \in InvoiceIds : Arrive(r, i)) \/ Continue(r) \/ Fail(r)
    PROVE  /\ OneInFlight'
           /\ \A s \in Requests \ {r} : req'[s] = req[s] /\ ~InProgress(s) /\ ~InProgress(s)'
  <1>1. \A s \in Requests \ {r} : ~InProgress(s)
    <2>1. Continue(r) \/ Fail(r) => InProgress(r)
      BY DEF Continue, InsertInvoice, PatchInvoice, SumForCancel, CancelInvoice, SumForPayment,
             InsertPayment, Settle, RegisterIrn, RefuseByNic, StoreIrn, MarkSent, RevokeIrn,
             ClearIrn, Fail, InProgress
    <2> QED
      BY <2>1, Alone DEF OneInFlight
  <1>2. \A s \in Requests \ {r} : req'[s] = req[s]
    <2>1. \E q \in Request : req' = [req EXCEPT ![r] = q]
      BY ArriveTarget, ContinueTarget
    <2> QED
      BY <2>1 DEF IInv, TypeOK
  <1> QED
    BY <1>1, <1>2 DEF OneInFlight, InProgress

LEMMA InitMoney == Init => MoneyInv
  <1> SUFFICES ASSUME Init PROVE MoneyInv
    OBVIOUS
  <1>1. \A r \in Requests : req[r].pc = "idle"
    BY DEF Init, Idle
  <1>2. \A i \in InvoiceIds : invoice[i].paid = 0 /\ invoice[i].total = 0 /\ received[i] = 0
    BY DEF Init, NoInvoice
  <1> QED
    BY <1>1, <1>2 DEF MoneyInv, OneInFlight, InProgress, MoneyRow, MoneyKnows

\* Only the last step of a payment and the creation write what was paid or is due.
LEMMA RowFrame ==
    ASSUME IInv, NEW r \in Requests, Continue(r) \/ Fail(r)
    PROVE  /\ InProgress(r) /\ req[r].inv \in InvoiceIds
           /\ \A j \in InvoiceIds \ {req[r].inv} :
                 invoice'[j] = invoice[j] /\ received'[j] = received[j]
           /\ ~InsertPayment(r) => received' = received
           /\ ~InsertInvoice(r) /\ ~Settle(r) =>
                 \A j \in InvoiceIds : /\ invoice'[j].paid = invoice[j].paid
                                       /\ invoice'[j].total = invoice[j].total
  <1>1. InProgress(r)
    BY DEF Continue, InsertInvoice, PatchInvoice, SumForCancel, CancelInvoice, SumForPayment,
           InsertPayment, Settle, RegisterIrn, RefuseByNic, StoreIrn, MarkSent, RevokeIrn,
           ClearIrn, Fail, InProgress
  <1>2. req[r].inv \in InvoiceIds
    BY <1>1 DEF IInv, KnowsInvoice
  <1>3. CASE SumForCancel(r) \/ SumForPayment(r) \/ RegisterIrn(r) \/ RefuseByNic(r)
               \/ RevokeIrn(r) \/ Fail(r)
    BY <1>1, <1>2, <1>3 DEF SumForCancel, SumForPayment, RegisterIrn, RefuseByNic, RevokeIrn, Fail
  <1>4. CASE InsertPayment(r)
    BY <1>1, <1>2, <1>4 DEF InsertPayment, IInv, TypeOK
  <1>5. CASE InsertInvoice(r) \/ Settle(r)
    BY <1>1, <1>2, <1>5 DEF InsertInvoice, Settle, Update, IInv, TypeOK
  <1>6. CASE PatchInvoice(r) \/ CancelInvoice(r) \/ StoreIrn(r) \/ MarkSent(r) \/ ClearIrn(r)
    <2> DEFINE i == req[r].inv
    <2>1. invoice[i] \in InvoiceRow
      BY <1>2 DEF IInv, TypeOK
    <2>2. received' = received
      BY <1>6 DEF PatchInvoice, CancelInvoice, StoreIrn, MarkSent, ClearIrn
    <2>3. PICK status, irn : invoice' = [invoice EXCEPT ![i] =
             [invoice[i] EXCEPT !.status = status, !.irn = irn]]
      <3>1. CASE PatchInvoice(r)
        BY <3>1 DEF PatchInvoice, Update
      <3>2. CASE CancelInvoice(r)
        <4>1. [invoice[i] EXCEPT !.status = "CANCELLED"]
               = [invoice[i] EXCEPT !.status = "CANCELLED", !.irn = invoice[i].irn]
          BY <2>1 DEF InvoiceRow
        <4> QED
          BY <3>2, <4>1 DEF CancelInvoice, Update
      <3>3. CASE MarkSent(r)
        <4>1. [invoice[i] EXCEPT !.status = "SENT"]
               = [invoice[i] EXCEPT !.status = "SENT", !.irn = invoice[i].irn]
          BY <2>1 DEF InvoiceRow
        <4> QED
          BY <3>3, <4>1 DEF MarkSent, Update
      <3>4. CASE StoreIrn(r) \/ ClearIrn(r)
        <4>1. PICK irn : invoice' = [invoice EXCEPT ![i] = [invoice[i] EXCEPT !.irn = irn]]
          BY <3>4 DEF StoreIrn, ClearIrn, Update
        <4>2. [invoice[i] EXCEPT !.irn = irn]
               = [invoice[i] EXCEPT !.status = invoice[i].status, !.irn = irn]
          BY <2>1 DEF InvoiceRow
        <4> QED
          BY <4>1, <4>2
      <3> QED
        BY <1>6, <3>1, <3>2, <3>3, <3>4
    <2> DEFINE row == [invoice[i] EXCEPT !.status = status, !.irn = irn]
    <2>4. row.paid = invoice[i].paid /\ row.total = invoice[i].total
      BY <2>1 DEF InvoiceRow
    <2> HIDE DEF row
    <2>5. invoice'[i] = row /\ \A j \in InvoiceIds \ {i} : invoice'[j] = invoice[j]
      BY <1>2, <2>3 DEF row, IInv, TypeOK
    <2> QED
      BY <1>1, <1>2, <2>2, <2>4, <2>5
  <1> QED
    BY <1>3, <1>4, <1>5, <1>6 DEF Continue

LEMMA StepMoney ==
    ASSUME MaxInFlight = 1, IInv, MoneyInv, [Next]_vars
    PROVE  MoneyInv'
  <1>1. CASE UNCHANGED vars
    BY <1>1 DEF vars, MoneyInv, OneInFlight, InProgress, MoneyRow, MoneyKnows, At
  <1>2. ASSUME NEW r \in Requests, NEW i \in InvoiceIds, Arrive(r, i)
        PROVE  MoneyInv'
    <2>1. /\ OneInFlight'
          /\ \A s \in Requests \ {r} : req'[s] = req[s] /\ ~InProgress(s) /\ ~InProgress(s)'
      BY <1>2, OneStays DEF MoneyInv
    <2>2. req[r].pc = "idle"
      BY <1>2, Alone DEF MoneyInv
    <2>3. invoice' = invoice /\ received' = received
      BY <1>2 DEF Arrive, CheckCredit, ReadForPatch, ReadForCancel, ReadForPayment, ReadForIrn,
                  ReadForIrnCancel, Start
    <2>4. req'[r].pc \notin {"pay", "settle"}
      <3>1. PICK q \in Request :
               /\ req' = [req EXCEPT ![r] = q]
               /\ q.pc \in {"insert", "rejected", "patch", "sumCancel", "sumPay", "register", "revoke"}
        BY <1>2, ArriveTarget
      <3>2. req'[r] = q
        BY <3>1 DEF IInv, TypeOK
      <3> QED
        BY <3>1, <3>2
    <2>5. \A j \in InvoiceIds : MoneyRow(j)'
      <3> SUFFICES ASSUME NEW j \in InvoiceIds PROVE MoneyRow(j)'
        OBVIOUS
      <3>1. At(j, {"settle", "failed"}) => At(j, {"settle", "failed"})'
        BY <2>1, <2>2 DEF At
      <3> QED
        BY <2>3, <3>1 DEF MoneyInv, MoneyRow
    <2>6. \A s \in Requests : MoneyKnows(s)'
      BY <2>1, <2>4 DEF MoneyKnows, InProgress
    <2> QED
      BY <2>1, <2>5, <2>6 DEF MoneyInv
  <1>3. ASSUME NEW r \in Requests, Continue(r) \/ Fail(r)
        PROVE  MoneyInv'
    <2>0. PICK i \in InvoiceIds : i = req[r].inv
      BY <1>3, RowFrame
    <2>1. /\ OneInFlight'
          /\ \A s \in Requests \ {r} : req'[s] = req[s] /\ ~InProgress(s) /\ ~InProgress(s)'
      BY <1>3, OneStays DEF MoneyInv
    <2>2. /\ InProgress(r) /\ i = req[r].inv
          /\ \A j \in InvoiceIds \ {i} : invoice'[j] = invoice[j] /\ received'[j] = received[j]
          /\ ~InsertPayment(r) => received' = received
          /\ ~InsertInvoice(r) /\ ~Settle(r) =>
                \A j \in InvoiceIds : /\ invoice'[j].paid = invoice[j].paid
                                      /\ invoice'[j].total = invoice[j].total
      BY <1>3, <2>0, RowFrame
    <2>3. PICK q \in Request :
             /\ req' = [req EXCEPT ![r] = q] /\ q.inv = i
             /\ q.amount = req[r].amount /\ q.was = req[r].was /\ q.pc # "idle"
             /\ q.pc = "pay" => SumForPayment(r)
             /\ q.pc = "settle" => InsertPayment(r)
             /\ q.pc = "failed" <=> Fail(r)
             /\ ~SumForPayment(r) => q.newTotal = req[r].newTotal
      BY <1>3, <2>0, ContinueTarget
    <2>4. req'[r] = q
      BY <2>3 DEF IInv, TypeOK
    <2>5. /\ i = req[r].inv /\ received[i] \in Nat /\ req[r] \in Request /\ invoice[i] \in InvoiceRow
          /\ KnowsInvoice(r) /\ KnowsTotal(r) /\ MoneyKnows(r) /\ MoneyRow(i) /\ RowSound(i)
      BY <2>0, <2>2 DEF IInv, TypeOK, MoneyInv
    <2>6. MoneyKnows(r)'
      <3>1. ASSUME q.pc = "pay" PROVE q.newTotal = received'[i] + q.amount
        <4>1. SumForPayment(r)
          BY <2>3, <3>1
        <4>2. req'[r].newTotal = received[i] + req[r].amount /\ received' = received
          BY <4>1, <2>5 DEF SumForPayment, IInv, TypeOK, Request
        <4> QED
          BY <4>2, <2>3, <2>4
      <3>2. ASSUME q.pc = "settle" PROVE q.newTotal = received'[i]
        <4>1. InsertPayment(r)
          BY <2>3, <3>2
        <4>2. received'[i] = received[i] + req[r].amount /\ ~SumForPayment(r) /\ req[r].pc = "pay"
          BY <4>1, <2>2 DEF InsertPayment, SumForPayment, IInv, TypeOK
        <4> QED
          BY <4>2, <2>3, <2>5 DEF MoneyKnows
      <3> QED
        BY <3>1, <3>2, <2>0, <2>3, <2>4 DEF MoneyKnows
    <2>7. \A s \in Requests : MoneyKnows(s)'
      BY <2>1, <2>6 DEF MoneyKnows, InProgress
    <2>8. ASSUME NEW j \in InvoiceIds \ {i} PROVE MoneyRow(j)'
      <3>1. At(j, {"settle", "failed"}) => At(j, {"settle", "failed"})'
        BY <2>0, <2>1 DEF At
      <3> QED
        BY <2>2, <3>1 DEF MoneyInv, MoneyRow
    <2>9. MoneyRow(i)'
      <3>1. CASE Settle(r)
        <4>1. req[r].pc = "settle" /\ received' = received
          BY <3>1 DEF Settle
        <4> DEFINE status == IF req[r].newTotal >= req[r].was.total THEN "PAID" ELSE "PARTIAL"
                   row == [invoice[i] EXCEPT !.paid = req[r].newTotal, !.status = status]
        <4>2. invoice'[i] = row
          BY <3>1, <2>2 DEF Settle, Update, IInv, TypeOK
        <4>3. row.paid = req[r].newTotal /\ row.total = invoice[i].total
          BY <2>5 DEF InvoiceRow
        <4> HIDE DEF row
        <4> QED
          BY <4>1, <4>2, <4>3, <2>5 DEF MoneyRow, MoneyKnows
      <3>2. CASE InsertPayment(r)
        <4>1. received'[i] = received[i] + req[r].amount /\ invoice' = invoice
          BY <3>2, <2>2 DEF InsertPayment, IInv, TypeOK
        <4>2. req[r].newTotal = received[i] + req[r].amount /\ req[r].newTotal <= invoice[i].total
          BY <3>2, <2>5 DEF InsertPayment, MoneyKnows, KnowsTotal, KnowsInvoice
        <4>3. req'[r].pc = "settle"
          BY <3>2, <2>5 DEF InsertPayment, Goto, IInv, TypeOK, Request
        <4>4. At(i, {"settle", "failed"})'
          BY <4>3, <2>3, <2>4 DEF At
        <4> QED
          BY <4>1, <4>2, <4>4 DEF MoneyRow
      <3>3. CASE InsertInvoice(r)
        <4>1. invoice[i].status = None /\ received[i] = 0 /\ received' = received
          BY <3>3, <2>5 DEF InsertInvoice, KnowsInvoice, InProgress, RowSound
        <4> DEFINE n == WithGst(req[r].subtotal, req[r].gst)
                   row == [NoInvoice EXCEPT !.status = "DRAFT", !.total = n]
        <4>2. invoice'[i] = row
          BY <3>3, <2>2 DEF InsertInvoice, Update, IInv, TypeOK
        <4>3. row.paid = 0 /\ row.total = n
          BY DEF NoInvoice
        <4>4. n \in Nat
          BY <2>5, GstType DEF Request
        <4> HIDE DEF n, row
        <4> QED
          BY <4>1, <4>2, <4>3, <4>4 DEF MoneyRow
      <3>4. CASE ~Settle(r) /\ ~InsertPayment(r) /\ ~InsertInvoice(r)
        <4>1. ASSUME At(i, {"settle", "failed"}) PROVE At(i, {"settle", "failed"})'
          <5>1. PICK s \in Requests : req[s].inv = i /\ req[s].pc \in {"settle", "failed"}
            BY <4>1 DEF At
          <5>2. CASE s = r
            <6>1. req[r].pc = "settle" => Fail(r)
              BY <1>3, <3>4 DEF Continue, InsertInvoice, PatchInvoice, SumForCancel,
                    CancelInvoice, SumForPayment, InsertPayment, Settle, RegisterIrn,
                    RefuseByNic, StoreIrn, MarkSent, RevokeIrn, ClearIrn
            <6> QED
              BY <5>1, <5>2, <6>1, <2>2, <2>3, <2>4 DEF At, InProgress
          <5>3. CASE s # r
            BY <5>1, <5>3, <2>1 DEF At
          <5> QED
            BY <5>2, <5>3
        <4> QED
          BY <3>4, <4>1, <2>2, <2>5 DEF MoneyRow
      <3> QED
        BY <3>1, <3>2, <3>3, <3>4
    <2> QED
      BY <2>1, <2>7, <2>8, <2>9 DEF MoneyInv
  <1> QED
    BY <1>1, <1>2, <1>3 DEF Next

LEMMA MoneyIsSound == MaxInFlight = 1 => (Spec => []MoneyInv)
  <1> SUFFICES ASSUME MaxInFlight = 1 PROVE Spec => []MoneyInv
    OBVIOUS
  <1>1. IInv /\ MoneyInv /\ [Next]_vars => MoneyInv'
    BY StepMoney
  <1> QED
    BY <1>1, InitMoney, InductiveInvariant, PTL DEF Spec

\* With one request at a time, of which any may die between two of its steps,
\* recordPayment() never lets the payments exceed the total of the invoice.
THEOREM SerialNeverOverpays == MaxInFlight = 1 => (Spec => []NoOverpayment)
  <1> SUFFICES ASSUME MaxInFlight = 1 PROVE Spec => []NoOverpayment
    OBVIOUS
  <1>1. MoneyInv => NoOverpayment
    BY DEF MoneyInv, MoneyRow, NoOverpayment
  <1> QED
    BY <1>1, MoneyIsSound, PTL

\* With one request at a time, the paid amount of an invoice is the sum of its
\* payments whenever nobody is at work on it and no request died there.
THEOREM SerialReconciles == MaxInFlight = 1 => (Spec => []PaidIsReceived)
  <1> SUFFICES ASSUME MaxInFlight = 1 PROVE Spec => []PaidIsReceived
    OBVIOUS
  <1>1. MoneyInv => PaidIsReceived
    BY DEF MoneyInv, MoneyRow, PaidIsReceived, Quiet, At
  <1> QED
    BY <1>1, MoneyIsSound, PTL

-----------------------------------------------------------------------------
(* The IRN on an invoice and the one NIC holds active for it, when no PATCH *)
(* writes an IRN by hand.                                                  *)

RegisteredFor(i) == {s \in registered : req[s].inv = i}

\* The two agree but for the steps between the answer of NIC and the write of
\* the row, and after a request that died.
IrnRow(i) ==
    /\ invoice[i].status = None => invoice[i].irn = None
    /\ invoice[i].irn # None =>
         /\ invoice[i].irn \in Requests
         /\ req[invoice[i].irn].inv = i
         /\ req[invoice[i].irn].pc # "idle"
    /\ RegisteredFor(i) = {invoice[i].irn} \ {None} \/ At(i, {"store", "clear", "failed"})

IrnKnows(r) ==
    /\ r \in registered => req[r].pc # "idle"
    /\ req[r].pc = "store" => RegisteredFor(req[r].inv) = {r}
    /\ req[r].pc = "clear" => RegisteredFor(req[r].inv) = {} \/ At(req[r].inv, {"failed"})
    /\ req[r].pc = "revoke" =>
         req[r].was.irn = invoice[req[r].inv].irn /\ invoice[req[r].inv].irn # None

IrnInv ==
    /\ OneInFlight
    /\ \A i \in InvoiceIds : IrnRow(i)
    /\ \A r \in Requests : IrnKnows(r)

LEMMA InitIrn == Init => IrnInv
  <1> SUFFICES ASSUME Init PROVE IrnInv
    OBVIOUS
  <1>1. \A r \in Requests : req[r].pc = "idle"
    BY DEF Init, Idle
  <1>2. \A i \in InvoiceIds : invoice[i].irn = None
    BY DEF Init, NoInvoice
  <1>3. registered = {} /\ \A i \in InvoiceIds : RegisteredFor(i) = {}
    BY DEF Init, RegisteredFor
  <1> QED
    BY <1>1, <1>2, <1>3 DEF IrnInv, OneInFlight, InProgress, IrnRow, IrnKnows

LEMMA ArriveIrn ==
    ASSUME MaxInFlight = 1, IInv, IrnInv, NEW r \in Requests, NEW i \in InvoiceIds, Arrive(r, i)
    PROVE  IrnInv'
  <1>1. /\ OneInFlight'
        /\ \A s \in Requests \ {r} : req'[s] = req[s] /\ ~InProgress(s) /\ ~InProgress(s)'
    BY OneStays DEF IrnInv
  <1>2. req[r].pc = "idle" /\ r \notin registered
    BY Alone DEF IrnInv, IrnKnows
  <1>3. UNCHANGED <<invoice, received, registered>>
    BY DEF Arrive, CheckCredit, ReadForPatch, ReadForCancel, ReadForPayment, ReadForIrn,
           ReadForIrnCancel, Start
  <1>4. PICK q \in Request :
           /\ req' = [req EXCEPT ![r] = q] /\ q.inv = i
           /\ q.pc \in {"insert", "rejected", "patch", "sumCancel", "sumPay", "register", "revoke"}
           /\ q.pc = "revoke" => q.was.irn = invoice[i].irn /\ invoice[i].irn # None
    BY ArriveTarget
  <1>5. req'[r] = q
    BY <1>4 DEF IInv, TypeOK
  <1>6. ASSUME NEW j \in InvoiceIds PROVE IrnRow(j)'
    <2>1. RegisteredFor(j)' = RegisteredFor(j)
      BY <1>1, <1>2, <1>3 DEF RegisteredFor, IInv, TypeOK
    <2>2. At(j, {"store", "clear", "failed"}) => At(j, {"store", "clear", "failed"})'
      BY <1>1, <1>2 DEF At
    <2>3. IrnRow(j)
      BY DEF IrnInv
    <2>4. invoice[j].irn # None => invoice[j].irn \in Requests \ {r}
      BY <2>3, <1>2 DEF IrnRow
    <2> QED
      BY <1>1, <1>3, <2>1, <2>2, <2>3, <2>4 DEF IrnRow
  <1>7. IrnKnows(r)'
    BY <1>2, <1>3, <1>4, <1>5 DEF IrnKnows
  <1>8. \A s \in Requests \ {r} : IrnKnows(s)'
    BY <1>1, <1>3 DEF IrnInv, IrnKnows, InProgress
  <1> QED
    BY <1>1, <1>6, <1>7, <1>8 DEF IrnInv

\* The steps that have nothing to do with IRNs leave them alone.
LEMMA IrnFrame ==
    ASSUME TypedIrns = {}, IInv, IrnInv, NEW r \in Requests, Continue(r) \/ Fail(r),
           ~StoreIrn(r), ~ClearIrn(r), NEW i \in InvoiceIds, i = req[r].inv
    PROVE  /\ invoice'[i].irn = invoice[i].irn
           /\ invoice[i].status # None => invoice'[i].status # None
           /\ ~RegisterIrn(r) /\ ~RevokeIrn(r) /\ ~Fail(r) =>
                 registered' = registered /\ req[r].pc \notin {"store", "clear"}
  <1>1. invoice[i] \in InvoiceRow /\ req[r] \in Request /\ KnowsInvoice(r) /\ IrnRow(i)
    BY DEF IInv, TypeOK, IrnInv
  <1>2. CASE SumForCancel(r) \/ SumForPayment(r) \/ InsertPayment(r) \/ RegisterIrn(r)
               \/ RefuseByNic(r) \/ RevokeIrn(r) \/ Fail(r)
    BY <1>2 DEF SumForCancel, SumForPayment, InsertPayment, RegisterIrn, RefuseByNic, RevokeIrn,
                Fail
  <1>3. CASE InsertInvoice(r)
    <2> DEFINE row == [NoInvoice EXCEPT !.status = "DRAFT",
                                        !.total = WithGst(req[r].subtotal, req[r].gst)]
    <2>1. row.irn = None /\ row.status = "DRAFT"
      BY DEF NoInvoice
    <2>2. invoice'[i] = row /\ registered' = registered
      BY <1>3 DEF InsertInvoice, Update, IInv, TypeOK
    <2>3. invoice[i].irn = None
      BY <1>1, <1>3 DEF InsertInvoice, KnowsInvoice, InProgress, IrnRow
    <2>4. req[r].pc = "insert" /\ None # "DRAFT"
      BY <1>3, InvoicesAssumption DEF InsertInvoice, Statuses
    <2> HIDE DEF row
    <2> QED
      BY <2>1, <2>2, <2>3, <2>4
  <1>4. CASE PatchInvoice(r)
    <2> DEFINE row == [invoice[i] EXCEPT
                          !.status = IF req[r].patch = None THEN @ ELSE req[r].patch,
                          !.irn = IF req[r].irn = None THEN @ ELSE req[r].irn]
    <2>1. req[r].irn = None
      BY <1>1 DEF Request
    <2>2. row.irn = invoice[i].irn /\ (invoice[i].status # None => row.status # None)
      BY <1>1, <2>1 DEF InvoiceRow
    <2>3. invoice'[i] = row /\ registered' = registered /\ req[r].pc = "patch"
      BY <1>4 DEF PatchInvoice, Update, IInv, TypeOK
    <2> HIDE DEF row
    <2> QED
      BY <2>2, <2>3
  <1>5. CASE CancelInvoice(r) \/ MarkSent(r)
    <2>1. PICK status \in {"CANCELLED", "SENT"} :
             invoice'[i] = [invoice[i] EXCEPT !.status = status]
      BY <1>5 DEF CancelInvoice, MarkSent, Update, IInv, TypeOK
    <2>2. /\ registered' = registered /\ req[r].pc \in {"cancel", "send"}
          /\ None \notin {"CANCELLED", "SENT"}
      BY <1>5, InvoicesAssumption DEF CancelInvoice, MarkSent, Statuses
    <2> QED
      BY <1>1, <2>1, <2>2 DEF InvoiceRow
  <1>6. CASE Settle(r)
    <2>1. PICK status \in {"PAID", "PARTIAL"} :
             invoice'[i] = [invoice[i] EXCEPT !.paid = req[r].newTotal, !.status = status]
      BY <1>6 DEF Settle, Update, IInv, TypeOK
    <2>2. registered' = registered /\ req[r].pc = "settle" /\ None \notin {"PAID", "PARTIAL"}
      BY <1>6, InvoicesAssumption DEF Settle, Statuses
    <2> QED
      BY <1>1, <2>1, <2>2 DEF InvoiceRow
  <1> QED
    BY <1>2, <1>3, <1>4, <1>5, <1>6 DEF Continue

LEMMA ContinueIrn ==
    ASSUME MaxInFlight = 1, TypedIrns = {}, IInv, IrnInv,
           NEW r \in Requests, Continue(r) \/ Fail(r)
    PROVE  IrnInv'
  <1>0. PICK i \in InvoiceIds : i = req[r].inv
    BY RowFrame
  <1>1. /\ OneInFlight'
        /\ \A s \in Requests \ {r} : req'[s] = req[s] /\ ~InProgress(s) /\ ~InProgress(s)'
    BY OneStays DEF IrnInv
  <1>2. /\ InProgress(r) /\ r # None
        /\ \A j \in InvoiceIds \ {i} : invoice'[j] = invoice[j]
    BY <1>0, RowFrame, InvoicesAssumption
  <1>3. PICK q \in Request :
           /\ req' = [req EXCEPT ![r] = q] /\ q.inv = i /\ q.pc # "idle" /\ q.pc # "revoke"
           /\ q.pc = "store" => RegisterIrn(r)
           /\ q.pc = "clear" => RevokeIrn(r)
           /\ q.pc = "failed" <=> Fail(r)
    BY <1>0, ContinueTarget
  <1>4. req'[r] = q /\ \A s \in Requests : req'[s].inv = req[s].inv
    BY <1>0, <1>1, <1>3 DEF IInv, TypeOK
  <1>5. /\ IrnRow(i) /\ IrnKnows(r) /\ KnowsInvoice(r) /\ registered \subseteq Requests
        /\ invoice[i] \in InvoiceRow
    BY DEF IrnInv, IInv, TypeOK
  <1>6. PICK named \in {r, invoice[i].irn} :
           /\ registered' \subseteq registered \cup {r}
           /\ \A s \in registered \ registered' : s = named
           /\ registered' # registered => RegisterIrn(r) \/ RevokeIrn(r) \/ Fail(r)
    <2>1. CASE RegisterIrn(r) \/ RevokeIrn(r) \/ Fail(r)
      <3>1. CASE registered' \in {registered, registered \cup {r}}
        BY <2>1, <3>1
      <3>2. CASE req[r].pc = "revoke" /\ registered' = registered \ {req[r].was.irn}
        BY <2>1, <3>2, <1>0, <1>5 DEF IrnKnows
      <3> QED
        BY <2>1, <3>1, <3>2 DEF RegisterIrn, RevokeIrn, Fail
    <2>2. CASE ~(RegisterIrn(r) \/ RevokeIrn(r) \/ Fail(r))
      <3>1. registered' = registered
        BY <2>2 DEF Continue, InsertInvoice, PatchInvoice, SumForCancel, CancelInvoice,
                    SumForPayment, InsertPayment, Settle, RefuseByNic, StoreIrn, MarkSent, ClearIrn
      <3> QED
        BY <3>1
    <2> QED
      BY <2>1, <2>2
  <1>7. named # None => named \in Requests /\ req[named].inv = i
    BY <1>0, <1>5 DEF IrnRow
  <1>8. registered' \subseteq Requests /\ \A s \in registered' : req'[s].pc # "idle"
    BY <1>1, <1>2, <1>3, <1>4, <1>5, <1>6 DEF IrnInv, IrnKnows, InProgress
  <1>9. \A s \in Requests \ {r} : IrnKnows(s)'
    BY <1>1, <1>8 DEF IrnKnows, InProgress
  <1>10. \A s \in Requests : req[s].pc # "idle" => req'[s].pc # "idle"
    BY <1>1, <1>3, <1>4
  <1>11. ASSUME NEW j \in InvoiceIds \ {i} PROVE IrnRow(j)'
    <2>1. RegisteredFor(j)' = RegisteredFor(j)
      <3>1. \A s \in Requests : req[s].inv = j => (s \in registered' <=> s \in registered)
        BY <1>0, <1>5, <1>6, <1>7, InvoicesAssumption
      <3> QED
        BY <1>4, <1>5, <1>8, <3>1 DEF RegisteredFor
    <2>2. At(j, {"store", "clear", "failed"}) => At(j, {"store", "clear", "failed"})'
      BY <1>0, <1>1 DEF At
    <2>3. IrnRow(j)
      BY DEF IrnInv
    <2> QED
      BY <1>2, <1>4, <1>10, <2>1, <2>2, <2>3 DEF IrnRow
  <1>12. At(i, {"failed"}) => At(i, {"failed"})'
    BY <1>1, <1>2 DEF At, InProgress
  <1>13. At(i, {"store", "clear", "failed"}) => req[r].pc \in {"store", "clear"} \/ At(i, {"failed"})
    BY <1>1, <1>2 DEF At, InProgress
  <1>14. At(i, {"failed"})' => At(i, {"store", "clear", "failed"})'
    BY DEF At
  <1>15. CASE StoreIrn(r)
    <2>1. /\ invoice'[i] = [invoice[i] EXCEPT !.irn = r] /\ registered' = registered
          /\ req[r].pc = "store"
      BY <1>0, <1>15 DEF StoreIrn, Update, IInv, TypeOK
    <2>2. invoice'[i].irn = r /\ invoice'[i].status = invoice[i].status
      BY <2>1, <1>5 DEF InvoiceRow
    <2>3. RegisteredFor(i)' = {r}
      <3>1. RegisteredFor(i) = {r}
        BY <2>1, <1>0, <1>5 DEF IrnKnows
      <3> QED
        BY <3>1, <2>1, <1>4, <1>5 DEF RegisteredFor
    <2>4. invoice[i].status # None
      BY <2>1, <1>0, <1>5 DEF KnowsInvoice, InProgress
    <2>5. IrnRow(i)'
      BY <1>2, <1>3, <1>4, <2>2, <2>3, <2>4 DEF IrnRow
    <2>6. q.pc \notin {"store", "clear"}
      BY <2>1, <1>3 DEF RegisterIrn, RevokeIrn
    <2>7. IrnKnows(r)'
      BY <1>3, <1>4, <2>6 DEF IrnKnows
    <2> QED
      BY <1>1, <1>9, <1>11, <2>5, <2>7 DEF IrnInv
  <1>16. CASE ClearIrn(r)
    <2>1. /\ invoice'[i] = [invoice[i] EXCEPT !.irn = None] /\ registered' = registered
          /\ req[r].pc = "clear"
      BY <1>0, <1>16 DEF ClearIrn, Update, IInv, TypeOK
    <2>2. invoice'[i].irn = None
      BY <2>1, <1>5 DEF InvoiceRow
    <2>3. RegisteredFor(i) = {} \/ At(i, {"failed"})
      BY <2>1, <1>0, <1>5 DEF IrnKnows
    <2>4. RegisteredFor(i)' = RegisteredFor(i)
      BY <2>1, <1>4, <1>5 DEF RegisteredFor
    <2>5. IrnRow(i)'
      BY <1>12, <1>14, <2>2, <2>3, <2>4 DEF IrnRow
    <2>6. q.pc \notin {"store", "clear"}
      BY <2>1, <1>3 DEF RegisterIrn, RevokeIrn
    <2>7. IrnKnows(r)'
      BY <1>3, <1>4, <2>6 DEF IrnKnows
    <2> QED
      BY <1>1, <1>9, <1>11, <2>5, <2>7 DEF IrnInv
  <1>17. CASE ~StoreIrn(r) /\ ~ClearIrn(r)
    <2>1. /\ invoice'[i].irn = invoice[i].irn
          /\ invoice[i].status # None => invoice'[i].status # None
          /\ ~RegisterIrn(r) /\ ~RevokeIrn(r) /\ ~Fail(r) =>
                registered' = registered /\ req[r].pc \notin {"store", "clear"}
      BY <1>0, <1>17, IrnFrame
    <2>2. RegisteredFor(i)' = {invoice[i].irn} \ {None} \/ At(i, {"store", "clear", "failed"})'
      <3>1. CASE RegisterIrn(r) \/ RevokeIrn(r) \/ Fail(r)
        <4>1. q.pc \in {"store", "clear", "failed"}
          <5>1. RegisterIrn(r) => req'[r].pc = "store"
            BY DEF RegisterIrn, Goto, IInv, TypeOK, Request
          <5>2. RevokeIrn(r) => req'[r].pc = "clear"
            BY DEF RevokeIrn, Goto, IInv, TypeOK, Request
          <5> QED
            BY <3>1, <5>1, <5>2, <1>3, <1>4
        <4> QED
          BY <4>1, <1>3, <1>4 DEF At
      <3>2. CASE ~RegisterIrn(r) /\ ~RevokeIrn(r) /\ ~Fail(r)
        <4>1. RegisteredFor(i)' = RegisteredFor(i)
          BY <3>2, <2>1, <1>4, <1>5 DEF RegisteredFor
        <4> QED
          BY <3>2, <4>1, <2>1, <1>5, <1>12, <1>13, <1>14 DEF IrnRow
      <3> QED
        BY <3>1, <3>2
    <2>3. IrnRow(i)'
      BY <1>4, <1>5, <1>10, <2>1, <2>2 DEF IrnRow
    <2>4. q.pc = "store" => RegisteredFor(i)' = {r}
      <3>1. ASSUME RegisterIrn(r) PROVE RegisteredFor(i)' = {r}
        BY <3>1, <1>0, <1>4, <1>5 DEF RegisterIrn, RegisteredFor
      <3> QED
        BY <3>1, <1>3
    <2>5. q.pc = "clear" => RegisteredFor(i)' = {} \/ At(i, {"failed"})'
      <3>1. ASSUME RevokeIrn(r) PROVE RegisteredFor(i)' = {} \/ At(i, {"failed"})'
        <4>1. /\ req[r].pc = "revoke" /\ registered' = registered \ {req[r].was.irn}
              /\ req[r].was.irn = invoice[i].irn /\ invoice[i].irn # None
          BY <3>1, <1>0, <1>5 DEF RevokeIrn, IrnKnows
        <4>2. RegisteredFor(i) = {invoice[i].irn} => RegisteredFor(i)' = {}
          BY <4>1, <1>4, <1>5 DEF RegisteredFor
        <4> QED
          BY <4>1, <4>2, <1>5, <1>12, <1>13 DEF IrnRow
      <3> QED
        BY <3>1, <1>3
    <2>6. IrnKnows(r)'
      BY <1>3, <1>4, <2>4, <2>5 DEF IrnKnows
    <2> QED
      BY <1>1, <1>9, <1>11, <2>3, <2>6 DEF IrnInv
  <1> QED
    BY <1>15, <1>16, <1>17

\* With one request at a time, of which any may die between its call to NIC and
\* the write of the row, and with no IRN typed in by a PATCH: whenever nobody is
\* at work on an invoice, its IRN is the one NIC holds active for it.
THEOREM SerialIrnsAgree == MaxInFlight = 1 /\ TypedIrns = {} => (Spec => []IrnsAgree)
  <1> SUFFICES ASSUME MaxInFlight = 1, TypedIrns = {} PROVE Spec => []IrnsAgree
    OBVIOUS
  <1>1. IInv /\ IrnInv /\ [Next]_vars => IrnInv'
    <2>1. ASSUME IrnInv, UNCHANGED vars PROVE IrnInv'
      BY <2>1 DEF vars, IrnInv, OneInFlight, InProgress, IrnRow, IrnKnows, RegisteredFor, At
    <2> QED
      BY <2>1, ArriveIrn, ContinueIrn DEF Next
  <1>2. IrnInv => IrnsAgree
    BY DEF IrnInv, IrnRow, IrnsAgree, Quiet, At, RegisteredFor
  <1> QED
    BY <1>1, <1>2, InitIrn, InductiveInvariant, PTL DEF Spec

-----------------------------------------------------------------------------
(* The token of NIC.                                                       *)

CallRows == [pc : {"idle", "asking", "answered", "sent"}, token : Token \cup {NoToken},
             since : Nat, readable : BOOLEAN]

\* The service believes in the token it keeps for as long as NIC takes it, shifted by
\* the time its answer took and by the buffer.
KeptSound ==
    /\ now \in 0 .. Horizon
    /\ kept \in [token : Token \cup {NoToken}, until : Int]
    /\ kept.token # NoToken => kept.until = kept.token.until + kept.token.waited - Buffer

\* A token in an answer lives as long as the service takes it to; one that was sent was
\* new then, or believed valid.
CallSound(c) ==
    /\ call[c].pc = "answered" =>
         /\ call[c].token \in Token /\ call[c].token.issued <= now
         /\ ~ call[c].readable => call[c].token.until = call[c].token.issued + DefaultLife
    /\ call[c].pc = "sent" =>
         /\ call[c].token \in Token
         /\ \/ call[c].since < call[c].token.until + call[c].token.waited - Buffer
            \/ call[c].since = call[c].token.issued + call[c].token.waited

NicInv == KeptSound /\ call \in [Calls -> CallRows] /\ \A c \in Calls : CallSound(c)

LEMMA NicStart == NicInit => NicInv
  <1> SUFFICES ASSUME NicInit PROVE NicInv
    OBVIOUS
  <1>1. NoCall \in CallRows /\ NoCall.pc = "idle"
    BY DEF NoCall, CallRows
  <1> QED
    BY <1>1, NicAssumption DEF NicInit, NicInv, KeptSound, CallSound

\* A step of one call, the clock standing.
LEMMA NicMoves ==
    ASSUME NicInv, NEW c \in Calls, NEW q \in CallRows, call' = [call EXCEPT ![c] = q],
           now' = now, KeptSound', CallSound(c)'
    PROVE  NicInv'
  <1>1. \A d \in Calls \ {c} : call'[d] = call[d]
    BY DEF NicInv
  <1>2. \A d \in Calls : CallSound(d)'
    BY <1>1 DEF NicInv, CallSound
  <1> QED
    BY <1>2 DEF NicInv

LEMMA NicStep == NicInv /\ [NicNext]_nicVars => NicInv'
  <1> SUFFICES ASSUME NicInv, [NicNext]_nicVars PROVE NicInv'
    OBVIOUS
  <1>1. /\ now \in 0 .. Horizon /\ Horizon \in Nat /\ Buffer \in Nat /\ DefaultLife \in Nat
        /\ Lives \subseteq Nat
    BY NicAssumption DEF NicInv, KeptSound
  <1>2. CASE UNCHANGED nicVars
    BY <1>2 DEF nicVars, NicInv, KeptSound, CallSound
  <1>3. CASE Tick
    <2>1. now' \in 0 .. Horizon /\ now' >= now /\ kept' = kept /\ call' = call
      BY <1>1, <1>3 DEF Tick
    <2>2. \A c \in Calls : call[c].token \in Token => call[c].token.issued \in Nat
      BY DEF Token
    <2> QED
      BY <1>1, <2>1, <2>2 DEF NicInv, KeptSound, CallSound
  <1>4. ASSUME NEW c \in Calls, UseKept(c) PROVE NicInv'
    <2>1. /\ kept.token \in Token /\ kept.until = kept.token.until + kept.token.waited - Buffer
          /\ now < kept.until /\ now \in Nat
      BY <1>1, <1>4 DEF UseKept, BelievedValid, NicInv, KeptSound
    <2> PICK token \in Token : token = kept.token
      BY <2>1
    <2> DEFINE q == [NoCall EXCEPT !.pc = "sent", !.token = token, !.since = now]
    <2>2. q \in CallRows /\ q.pc = "sent" /\ q.token = kept.token /\ q.since = now
      BY <2>1 DEF NoCall, CallRows
    <2>3. call' = [call EXCEPT ![c] = q] /\ now' = now /\ kept' = kept
      BY <1>4 DEF UseKept, Send
    <2> HIDE DEF q
    <2>4. call'[c] = q
      BY <2>3 DEF NicInv
    <2>5. CallSound(c)' /\ KeptSound'
      BY <2>1, <2>2, <2>3, <2>4 DEF CallSound, NicInv, KeptSound
    <2> QED
      BY <2>2, <2>3, <2>5, NicMoves
  <1>5. ASSUME NEW c \in Calls, AskNic(c) \/ NicRefuses(c) \/ ReachNic(c) PROVE NicInv'
    <2>1. PICK q \in CallRows : call' = [call EXCEPT ![c] = q] /\ q.pc \in {"asking", "idle"}
      <3>1. call[c] \in CallRows
        BY DEF NicInv
      <3>2. [call[c] EXCEPT !.pc = "asking"] \in CallRows
        BY <3>1 DEF CallRows
      <3>3. NoCall \in CallRows
        BY DEF NoCall, CallRows
      <3>4. [call[c] EXCEPT !.pc = "asking"].pc = "asking" /\ NoCall.pc = "idle"
        BY <3>1 DEF CallRows, NoCall
      <3> QED
        BY <1>5, <3>2, <3>3, <3>4 DEF AskNic, NicRefuses, ReachNic
    <2>2. now' = now /\ kept' = kept
      BY <1>5 DEF AskNic, NicRefuses, ReachNic
    <2>3. call'[c] = q
      BY <2>1 DEF NicInv
    <2>4. CallSound(c)' /\ KeptSound'
      BY <2>1, <2>2, <2>3 DEF CallSound, NicInv, KeptSound
    <2> QED
      BY <2>1, <2>2, <2>4, NicMoves
  <1>6. ASSUME NEW c \in Calls, NicIssues(c) PROVE NicInv'
    <2>1. PICK life \in Lives, readable \in BOOLEAN :
            /\ ~ readable => life = DefaultLife
            /\ call' = [call EXCEPT ![c] =
                 [pc |-> "answered", since |-> now, readable |-> readable,
                  token |-> [issued |-> now, until |-> now + life, waited |-> 0]]]
      BY <1>6 DEF NicIssues
    <2> DEFINE token == [issued |-> now, until |-> now + life, waited |-> 0]
               q == [pc |-> "answered", since |-> now, readable |-> readable, token |-> token]
    <2>2. life \in Nat /\ 0 \in 0 .. Horizon
      BY <1>1
    <2>3. /\ token \in Token /\ token.issued = now /\ token.until = now + life
      BY <1>1, <2>2 DEF Token
    <2>4. call' = [call EXCEPT ![c] = q] /\ now' = now /\ kept' = kept
      BY <1>6, <2>1 DEF NicIssues
    <2> HIDE DEF token
    <2>5. /\ q \in CallRows /\ q.pc = "answered" /\ q.token = token /\ q.readable = readable
      BY <1>1, <2>3 DEF CallRows
    <2> HIDE DEF q
    <2>6. call'[c] = q
      BY <2>4 DEF NicInv
    <2>7. CallSound(c)' /\ KeptSound'
      BY <1>1, <2>1, <2>2, <2>3, <2>4, <2>5, <2>6 DEF CallSound, NicInv, KeptSound
    <2> QED
      BY <2>4, <2>5, <2>7, NicMoves
  <1>7. ASSUME NEW c \in Calls, KeepToken(c) PROVE NicInv'
    <2>1. call[c] \in CallRows /\ call[c].pc = "answered" /\ CallSound(c)
      BY <1>7 DEF KeepToken, NicInv
    <2>2. PICK given \in Token : given = call[c].token
      BY <2>1 DEF CallSound
    <2>3. PICK life \in Int : /\ life = IF call[c].readable THEN given.until - given.issued
                                        ELSE DefaultLife
                              /\ life = given.until - given.issued
      BY <1>1, <2>1, <2>2 DEF CallSound, Token
    <2>4. PICK waited \in 0 .. Horizon : waited = now - given.issued
      BY <1>1, <2>1, <2>2 DEF CallSound, Token
    <2> DEFINE waiting == [given EXCEPT !.waited = waited]
    <2>5. /\ waiting \in Token /\ waiting.issued = given.issued
          /\ waiting.until = given.until /\ waiting.waited = waited
      BY <2>4 DEF Token
    <2> PICK token \in Token : token = waiting
      BY <2>5
    <2>0. now \in Nat
      BY <1>1
    <2>6. /\ kept' = [token |-> token, until |-> BelievedUntil(life)]
          /\ call' = Send(c, token) /\ now' = now
      BY <1>7, <2>2, <2>3, <2>4, <2>5 DEF KeepToken
    <2> DEFINE q == [NoCall EXCEPT !.pc = "sent", !.token = token, !.since = now]
    <2>7. /\ q \in CallRows /\ q.pc = "sent" /\ q.token = token /\ q.since = now
      BY <2>0 DEF NoCall, CallRows
    <2>8. call' = [call EXCEPT ![c] = q]
      BY <2>6 DEF Send
    <2> HIDE DEF q
    <2>9. call'[c] = q
      BY <2>8 DEF NicInv
    <2>10. given.issued \in Nat /\ given.until \in Nat
      BY <1>1 DEF Token
    <2>11. BelievedUntil(life) \in Int /\ BelievedUntil(life) = token.until + token.waited - Buffer
      BY <1>1, <2>3, <2>4, <2>5, <2>10 DEF BelievedUntil
    <2>12. KeptSound'
      BY <1>1, <2>6, <2>11 DEF KeptSound
    <2>13. q.since = token.issued + token.waited
      BY <1>1, <2>4, <2>5, <2>7, <2>10
    <2>14. CallSound(c)'
      BY <2>7, <2>9, <2>13 DEF CallSound
    <2> QED
      BY <2>6, <2>7, <2>8, <2>12, <2>14, NicMoves
  <1> QED
    BY <1>2, <1>3, <1>4, <1>5, <1>6, <1>7 DEF NicNext

\* The invariant of the token and of the calls that use it.
THEOREM NicTokensAreSound == NicSpec => []NicInv
  BY NicStart, NicStep, PTL DEF NicSpec

\* For any lives of tokens, any buffer and any overlap of calls, a token reaches NIC
\* while NIC takes it, if its answer and the request together took no more than the buffer.
THEOREM TokensReachNicInTime == NicSpec => TokenTakenByNic
  <1> DEFINE InTime ==
        \A c \in Calls :
          LET token == call[c].token
          IN  /\ call[c].pc = "sent" /\ call'[c].pc = "idle"
              /\ token.waited + (now - call[c].since) <= Buffer
              /\ token.until - token.issued > Buffer
              => now < token.until
  <1>1. NicInv => InTime
    <2> SUFFICES ASSUME NicInv, NEW c \in Calls, call[c].pc = "sent",
                        call[c].token.waited + (now - call[c].since) <= Buffer,
                        call[c].token.until - call[c].token.issued > Buffer
                 PROVE  now < call[c].token.until
      OBVIOUS
    <2>1. /\ now \in Nat /\ Buffer \in Nat /\ call[c].since \in Nat
          /\ call[c].token \in Token /\ CallSound(c)
      BY NicAssumption DEF NicInv, KeptSound, CallRows, CallSound
    <2>2. /\ call[c].token.issued \in Nat /\ call[c].token.until \in Nat
          /\ call[c].token.waited \in Nat
      BY <2>1, NicAssumption DEF Token
    <2> QED
      BY <2>1, <2>2 DEF CallSound
  <1>2. NicInv => [InTime]_nicVars
    BY <1>1
  <1> QED
    BY <1>2, NicTokensAreSound, PTL DEF TokenTakenByNic

-----------------------------------------------------------------------------
(* The amounts of an invoice.                                              *)

Rounding == ties \in {"up", "down", "odd"}

LEMMA Rounds ==
    ASSUME Rounding, NEW product \in Nat
    PROVE  Round2(product) \in Nat
  <1>1. product \div 100 \in Nat /\ product % 100 \in 0 .. 99
    OBVIOUS
  <1>2. (product \div 100) % 2 \in 0 .. 1
    BY <1>1
  <1> QED
    BY <1>1, <1>2 DEF Round2, Rounding

\* The halves of a tax add up to it and differ by a paisa at most.
LEMMA SplitAddsUp ==
    ASSUME Rounding, NEW gst \in Nat, NEW interState
    PROVE  LET tax == Split(gst, interState)
           IN  /\ tax.cgst \in Int /\ tax.sgst \in Int /\ tax.igst \in Int
               /\ tax.cgst + tax.sgst + tax.igst = gst
               /\ tax.cgst - tax.sgst <= 1 /\ tax.sgst - tax.cgst <= 1
  <1> DEFINE half == Round2(gst * 50)
  <1>1. PICK w \in Nat : gst = 2 * w \/ gst = 2 * w + 1
    <2>1. gst = 2 * (gst \div 2) \/ gst = 2 * (gst \div 2) + 1
      OBVIOUS
    <2>2. gst \div 2 \in Nat
      OBVIOUS
    <2> QED
      BY <2>1, <2>2
  <1>2. half \in Nat /\ gst * 50 \in Nat
    <2>1. gst * 50 \in Nat
      OBVIOUS
    <2> QED
      BY <2>1, Rounds
  <1>3. half = w \/ (gst = 2 * w + 1 /\ half = w + 1)
    <2>1. CASE gst = 2 * w
      <3>1. (gst * 50) \div 100 = w /\ (gst * 50) % 100 = 0
        BY <2>1
      <3> QED
        BY <3>1, <1>2 DEF Round2
    <2>2. CASE gst = 2 * w + 1
      <3>1. (gst * 50) \div 100 = w /\ (gst * 50) % 100 = 50
        BY <2>2
      <3>2. w % 2 \in 0 .. 1
        OBVIOUS
      <3> QED
        BY <2>2, <3>1, <3>2 DEF Round2, Rounding
    <2> QED
      BY <1>1, <2>1, <2>2
  <1> HIDE DEF half
  <1>4. half - (gst - half) <= 1 /\ (gst - half) - half <= 1
    BY <1>1, <1>2, <1>3
  <1>5. Split(gst, interState) = IF interState THEN [cgst |-> 0, sgst |-> 0, igst |-> gst]
                                 ELSE [cgst |-> half, sgst |-> gst - half, igst |-> 0]
    BY DEF Split, half
  <1> QED
    BY <1>2, <1>4, <1>5

\* Sum() and SumTax() of the lines are their sums.
LEMMA SumIsSum ==
    ASSUME NEW n \in Nat, NEW lines, DOMAIN lines = 1 .. n, NEW field,
           \A i \in 1 .. n : lines[i][field] \in Int
    PROVE  \E P : IsSum(P, n, [i \in 1 .. n |-> lines[i][field]]) /\ Sum(lines, field) = P[n]
  <1> DEFINE v == [i \in 1 .. n |-> lines[i][field]]
             Step(f) == [s \in SUBSET (1 .. n) |->
                IF s = {} THEN 0 ELSE f[s \ {Max(s)}] + lines[Max(s)][field]]
             F == CHOOSE h : h = Step(h)
  <1>1. v \in [1 .. n -> Int] /\ \A i \in 1 .. n : v[i] = lines[i][field]
    OBVIOUS
  <1>2. Sum(lines, field) = F[1 .. n]
    BY DEF Sum, FoldLeft, MapThenFoldSet
  <1> HIDE DEF v
  <1>3. \A f : Step(f) = AddLast(f, n, v)
    <2>1. \A s \in SUBSET (1 .. n) : s # {} => Max(s) \in 1 .. n
      BY MaxIsMember
    <2> QED
      BY <1>1, <2>1 DEF AddLast
  <1> HIDE DEF Step
  <1>4. F = AddLast(F, n, v)
    <2>1. \E f : f = Step(f)
      BY <1>1, <1>3, AddingLastExists
    <2>2. F = Step(F)
      BY <2>1
    <2> QED
      BY <1>3, <2>2
  <1> HIDE DEF F
  <1>5. IsSum([k \in 0 .. n |-> F[1 .. k]], n, v)
    BY <1>1, <1>4, AddingLastSums
  <1>6. [k \in 0 .. n |-> F[1 .. k]][n] = F[1 .. n]
    OBVIOUS
  <1> QED
    BY <1>2, <1>5, <1>6 DEF v

LEMMA SumTaxIsSum ==
    ASSUME NEW n \in Nat, NEW lines, DOMAIN lines = 1 .. n, NEW kind,
           \A i \in 1 .. n : lines[i].tax[kind] \in Int
    PROVE  \E P : IsSum(P, n, [i \in 1 .. n |-> lines[i].tax[kind]]) /\ SumTax(lines, kind) = P[n]
  <1> DEFINE v == [i \in 1 .. n |-> lines[i].tax[kind]]
             Step(f) == [s \in SUBSET (1 .. n) |->
                IF s = {} THEN 0 ELSE f[s \ {Max(s)}] + lines[Max(s)].tax[kind]]
             F == CHOOSE h : h = Step(h)
  <1>1. v \in [1 .. n -> Int] /\ \A i \in 1 .. n : v[i] = lines[i].tax[kind]
    OBVIOUS
  <1>2. SumTax(lines, kind) = F[1 .. n]
    BY DEF SumTax, FoldLeft, MapThenFoldSet
  <1> HIDE DEF v
  <1>3. \A f : Step(f) = AddLast(f, n, v)
    <2>1. \A s \in SUBSET (1 .. n) : s # {} => Max(s) \in 1 .. n
      BY MaxIsMember
    <2> QED
      BY <1>1, <2>1 DEF AddLast
  <1> HIDE DEF Step
  <1>4. F = AddLast(F, n, v)
    <2>1. \E f : f = Step(f)
      BY <1>1, <1>3, AddingLastExists
    <2>2. F = Step(F)
      BY <2>1
    <2> QED
      BY <1>3, <2>2
  <1> HIDE DEF F
  <1>5. IsSum([k \in 0 .. n |-> F[1 .. k]], n, v)
    BY <1>1, <1>4, AddingLastSums
  <1>6. [k \in 0 .. n |-> F[1 .. k]][n] = F[1 .. n]
    OBVIOUS
  <1> QED
    BY <1>2, <1>5, <1>6 DEF v

TaxAddsUp(tax, gst) ==
    /\ tax.cgst \in Int /\ tax.sgst \in Int /\ tax.igst \in Int
    /\ tax.cgst + tax.sgst + tax.igst = gst
    /\ tax.cgst - tax.sgst <= 1 /\ tax.sgst - tax.cgst <= 1

\* A stored line and what was computed of it.
LineAgrees(line, breakdown) ==
    /\ line.gstPct \in Slabs
    /\ breakdown.taxable \in Nat /\ breakdown.taxable = Taxable(line)
    /\ breakdown.gst \in Nat /\ breakdown.gst = Round2(Taxable(line) * line.gstPct)
    /\ line.amount = breakdown.taxable + breakdown.gst
    /\ TaxAddsUp(breakdown.tax, breakdown.gst)

BillRecord ==
    bill = [pc |-> bill.pc, sent |-> bill.sent, flag |-> bill.flag, summary |-> bill.summary,
            breakdowns |-> bill.breakdowns, lines |-> bill.lines, payload |-> bill.payload]

LinesAgree(n) ==
    /\ DOMAIN bill.breakdowns = 1 .. n /\ DOMAIN bill.lines = 1 .. n /\ Len(bill.lines) = n
    /\ bill.summary = Summary(bill.breakdowns)
    /\ \A i \in 1 .. n : LineAgrees(bill.lines[i], bill.breakdowns[i])

GstInv ==
    /\ Rounding
    /\ BillRecord
    /\ bill.pc # "idle" => \E n \in Nat : LinesAgree(n)
    /\ AmountsAgree

\* The taxes of the rows add up to G, the sum of their gst.
LEMMA TaxesAddUp ==
    ASSUME NEW n \in Nat, NEW rows, DOMAIN rows = 1 .. n,
           NEW gst \in [1 .. n -> Int], NEW G, IsSum(G, n, gst),
           \A i \in 1 .. n : TaxAddsUp(rows[i].tax, gst[i])
    PROVE  /\ SumTax(rows, "cgst") \in Int /\ SumTax(rows, "sgst") \in Int
           /\ SumTax(rows, "igst") \in Int
           /\ SumTax(rows, "cgst") + SumTax(rows, "sgst") + SumTax(rows, "igst") = G[n]
           /\ Abs(SumTax(rows, "cgst") - SumTax(rows, "sgst")) <= n
  <1> DEFINE c == [i \in 1 .. n |-> rows[i].tax.cgst]
             s == [i \in 1 .. n |-> rows[i].tax.sgst]
             g == [i \in 1 .. n |-> rows[i].tax.igst]
  <1>1. /\ c \in [1 .. n -> Int] /\ s \in [1 .. n -> Int] /\ g \in [1 .. n -> Int]
        /\ \A i \in 1 .. n : /\ gst[i] = c[i] + s[i] + g[i]
                             /\ c[i] - s[i] <= 1 /\ s[i] - c[i] <= 1
    BY DEF TaxAddsUp
  <1>2. PICK C : IsSum(C, n, c) /\ SumTax(rows, "cgst") = C[n]
    <2>1. \A i \in 1 .. n : rows[i].tax["cgst"] \in Int
      BY DEF TaxAddsUp
    <2> QED
      BY <2>1, SumTaxIsSum
  <1>3. PICK S : IsSum(S, n, s) /\ SumTax(rows, "sgst") = S[n]
    <2>1. \A i \in 1 .. n : rows[i].tax["sgst"] \in Int
      BY DEF TaxAddsUp
    <2> QED
      BY <2>1, SumTaxIsSum
  <1>4. PICK I : IsSum(I, n, g) /\ SumTax(rows, "igst") = I[n]
    <2>1. \A i \in 1 .. n : rows[i].tax["igst"] \in Int
      BY DEF TaxAddsUp
    <2> QED
      BY <2>1, SumTaxIsSum
  <1> HIDE DEF c, s, g
  <1>5. C[n] \in Int /\ S[n] \in Int /\ I[n] \in Int
    BY <1>2, <1>3, <1>4 DEF IsSum
  <1>6. G[n] = C[n] + S[n] + I[n]
    <2>1. AddUpTo(gst, n, c, s, g)
      BY <1>1 DEF AddUpTo
    <2> QED
      BY <2>1, <1>2, <1>3, <1>4, SumsAdd
  <1>7. C[n] - S[n] <= n /\ S[n] - C[n] <= n
    BY <1>1, <1>2, <1>3, SumsNear
  <1> QED
    BY <1>2, <1>3, <1>4, <1>5, <1>6, <1>7 DEF Abs

\* The totals of an invoice, from its breakdowns and from its stored lines.
LEMMA TotalsAgree ==
    ASSUME NEW n \in Nat, NEW lines, NEW breakdowns,
           DOMAIN lines = 1 .. n, DOMAIN breakdowns = 1 .. n,
           \A i \in 1 .. n : LineAgrees(lines[i], breakdowns[i])
    PROVE  /\ SumTax(breakdowns, "cgst") + SumTax(breakdowns, "sgst")
                + SumTax(breakdowns, "igst") = Sum(breakdowns, "gst")
           /\ Abs(SumTax(breakdowns, "cgst") - SumTax(breakdowns, "sgst")) <= n
           /\ Sum(breakdowns, "taxable") + Sum(breakdowns, "gst") = Sum(lines, "amount")
  <1> DEFINE t == [i \in 1 .. n |-> breakdowns[i]["taxable"]]
             g == [i \in 1 .. n |-> breakdowns[i]["gst"]]
             a == [i \in 1 .. n |-> lines[i]["amount"]]
  <1>1. \A i \in 1 .. n : /\ breakdowns[i]["taxable"] \in Int /\ breakdowns[i]["gst"] \in Int
                          /\ lines[i]["amount"] \in Int
                          /\ lines[i]["amount"] = breakdowns[i]["taxable"] + breakdowns[i]["gst"]
                          /\ TaxAddsUp(breakdowns[i].tax, breakdowns[i]["gst"])
    BY DEF LineAgrees
  <1>2. PICK T : IsSum(T, n, t) /\ Sum(breakdowns, "taxable") = T[n]
    BY <1>1, SumIsSum
  <1>3. PICK G : IsSum(G, n, g) /\ Sum(breakdowns, "gst") = G[n]
    BY <1>1, SumIsSum
  <1>4. PICK A : IsSum(A, n, a) /\ Sum(lines, "amount") = A[n]
    BY <1>1, SumIsSum
  <1>5. /\ g \in [1 .. n -> Int]
        /\ \A i \in 1 .. n : a[i] = t[i] + g[i] /\ TaxAddsUp(breakdowns[i].tax, g[i])
    BY <1>1
  <1> HIDE DEF t, g, a
  <1>6. A[n] = T[n] + G[n]
    BY <1>2, <1>3, <1>4, <1>5, SumsAddTwo
  <1> QED
    BY <1>2, <1>3, <1>4, <1>5, <1>6, TaxesAddUp

\* An item reported of a line has the amounts computed of it, however its tax is divided.
ItemAgrees(item, breakdown) ==
    /\ breakdown.taxable \in Nat /\ breakdown.gst \in Nat
    /\ item.taxable = breakdown.taxable
    /\ TaxAddsUp(item.tax, breakdown.gst)

\* What is reported of the stored lines has their sums, however the tax is divided.
LEMMA ReportAgrees ==
    ASSUME NEW n \in Nat, NEW items, NEW breakdowns,
           DOMAIN items = 1 .. n, DOMAIN breakdowns = 1 .. n,
           \A i \in 1 .. n : ItemAgrees(items[i], breakdowns[i])
    PROVE  /\ Sum(items, "taxable") = Sum(breakdowns, "taxable")
           /\ Sum(items, "taxable") \in Int
           /\ SumTax(items, "cgst") \in Int /\ SumTax(items, "sgst") \in Int
           /\ SumTax(items, "igst") \in Int
           /\ SumTax(items, "cgst") + SumTax(items, "sgst") + SumTax(items, "igst")
                = Sum(breakdowns, "gst")
  <1> DEFINE t == [i \in 1 .. n |-> breakdowns[i]["taxable"]]
             g == [i \in 1 .. n |-> breakdowns[i]["gst"]]
             a == [i \in 1 .. n |-> items[i]["taxable"]]
  <1>1. /\ \A i \in 1 .. n : breakdowns[i]["taxable"] \in Int
        /\ \A i \in 1 .. n : breakdowns[i]["gst"] \in Int
        /\ \A i \in 1 .. n : items[i]["taxable"] \in Int
        /\ \A i \in 1 .. n : items[i]["taxable"] = breakdowns[i]["taxable"]
    BY DEF ItemAgrees
  <1>2. PICK T : IsSum(T, n, t) /\ Sum(breakdowns, "taxable") = T[n]
    BY <1>1, SumIsSum
  <1>3. PICK G : IsSum(G, n, g) /\ Sum(breakdowns, "gst") = G[n]
    BY <1>1, SumIsSum
  <1>4. PICK A : IsSum(A, n, a) /\ Sum(items, "taxable") = A[n]
    BY <1>1, SumIsSum
  <1>5. /\ g \in [1 .. n -> Int]
        /\ \A i \in 1 .. n : a[i] = t[i] /\ TaxAddsUp(items[i].tax, g[i])
    BY <1>1 DEF ItemAgrees
  <1> HIDE DEF t, g, a
  <1>6. A[n] = T[n]
    BY <1>2, <1>4, <1>5, SumsEqual
  <1>7. A[n] \in Int
    BY <1>4 DEF IsSum
  <1> QED
    BY <1>2, <1>3, <1>4, <1>5, <1>6, <1>7, TaxesAddUp

LEMMA TaxIsSplit ==
    ASSUME Rounding, NEW gst \in Nat, NEW interState
    PROVE  TaxAddsUp(Split(gst, interState), gst)
  BY SplitAddsUp DEF TaxAddsUp

\* Whatever a client sends, what is stored of a line and what is computed of it agree.
LEMMA LineIsSound ==
    ASSUME Rounding, NEW line, CreateInvoiceLineDto(line), RateAccepted(line), NEW interState
    PROVE  LineAgrees(StoredLine(line), LineGst(line, ResolveRate(line), interState))
  <1> DEFINE pct == ResolveRate(line)
             taxable == Taxable(line)
             gst == Round2(taxable * pct)
  <1>1. pct \in Slabs
    BY GstAssumption DEF ResolveRate, RateAccepted, HsnRate, Slabs
  <1>2. taxable \in Nat
    <2>1. line.qty * line.rate \in Nat
      BY DEF CreateInvoiceLineDto
    <2> QED
      BY <2>1, Rounds DEF Taxable
  <1>3. pct \in Nat /\ taxable * pct \in Nat
    BY <1>1, <1>2 DEF Slabs
  <1>4. gst \in Nat
    BY <1>3, Rounds
  <1>5. TaxAddsUp(Split(gst, interState), gst)
    BY <1>4, TaxIsSplit
  <1>6. /\ StoredLine(line).gstPct = pct /\ StoredLine(line).amount = taxable + gst
        /\ StoredLine(line).qty = line.qty /\ StoredLine(line).rate = line.rate
    BY DEF StoredLine, LineGst
  <1>7. Taxable(StoredLine(line)) = taxable
    BY <1>6 DEF Taxable
  <1>8. /\ LineGst(line, pct, interState).taxable = taxable
        /\ LineGst(line, pct, interState).gst = gst
        /\ LineGst(line, pct, interState).tax = Split(gst, interState)
    BY DEF LineGst
  <1> HIDE DEF pct, taxable, gst
  <1> QED
    BY <1>1, <1>2, <1>4, <1>5, <1>6, <1>7, <1>8 DEF LineAgrees, pct, gst

LEMMA GstStart == GstInit => GstInv
  <1> SUFFICES ASSUME GstInit PROVE GstInv
    OBVIOUS
  <1>1. bill.pc = "idle" /\ BillRecord
    BY DEF GstInit, NoBill, BillRecord
  <1> QED
    BY <1>1 DEF GstInit, GstInv, Rounding, AmountsAgree, NoPaisaLost, ReportedAsStored

\* A bill whose lines agree loses no paisa.
LEMMA AgreeingLinesLoseNothing ==
    ASSUME NEW n \in Nat, LinesAgree(n)
    PROVE  NoPaisaLost
  <1>1. /\ bill.summary.subtotal = Sum(bill.breakdowns, "taxable")
        /\ bill.summary.gstAmount = Sum(bill.breakdowns, "gst")
        /\ bill.summary.total = Sum(bill.breakdowns, "taxable") + Sum(bill.breakdowns, "gst")
    BY DEF LinesAgree, Summary
  <1>2. /\ DOMAIN bill.lines = 1 .. n /\ DOMAIN bill.breakdowns = 1 .. n /\ Len(bill.lines) = n
        /\ \A i \in 1 .. n : LineAgrees(bill.lines[i], bill.breakdowns[i])
    BY DEF LinesAgree
  <1>3. \A i \in 1 .. n : bill.lines[i].gstPct \in Slabs
    BY <1>2 DEF LineAgrees
  <1> QED
    BY <1>1, <1>2, <1>3, TotalsAgree DEF NoPaisaLost

LEMMA AgreeingLinesPrimed ==
    ASSUME NEW n \in Nat, LinesAgree(n)'
    PROVE  NoPaisaLost'
  BY AgreeingLinesLoseNothing, PTL

\* What agrees agrees later, for the ties are rounded alike.
LEMMA SameTies ==
    ASSUME ties' = ties, NEW CONSTANT line, NEW CONSTANT breakdown, LineAgrees(line, breakdown)
    PROVE  LineAgrees(line, breakdown)'
  BY DEF LineAgrees, Taxable, Round2

LEMMA CreateBillAgrees ==
    ASSUME GstInv, CreateBill
    PROVE  GstInv'
  <1>1. PICK sent \in InvoiceInputs, flag \in SupplyFlags :
          /\ \A i \in DOMAIN sent : RateAccepted(sent[i])
          /\ LET breakdowns == [i \in DOMAIN sent |->
                                 LineGst(sent[i], ResolveRate(sent[i]), Truthy(flag))]
             IN  bill' = [NoBill EXCEPT !.pc = "stored", !.sent = sent, !.flag = flag,
                           !.breakdowns = breakdowns, !.summary = Summary(breakdowns),
                           !.lines = [i \in DOMAIN sent |-> StoredLine(sent[i])]]
    BY DEF CreateBill
  <1> DEFINE n == Len(sent)
             breakdowns == [i \in DOMAIN sent |->
                              LineGst(sent[i], ResolveRate(sent[i]), Truthy(flag))]
             lines == [i \in DOMAIN sent |-> StoredLine(sent[i])]
  <1>2. n \in Nat /\ DOMAIN sent = 1 .. n
    BY GstAssumption, LenProperties
  <1>3. ties' = ties
    BY DEF CreateBill
  <1>4. /\ bill'.pc = "stored" /\ bill'.breakdowns = breakdowns /\ bill'.lines = lines
        /\ bill'.summary = Summary(breakdowns) /\ BillRecord'
    <2>1. bill' = [pc |-> "stored", sent |-> sent, flag |-> flag, summary |-> Summary(breakdowns),
                   breakdowns |-> breakdowns, lines |-> lines, payload |-> Absent]
      BY <1>1 DEF NoBill
    <2> HIDE DEF breakdowns, lines
    <2> QED
      BY <2>1 DEF BillRecord
  <1>5. DOMAIN lines = 1 .. n /\ DOMAIN breakdowns = 1 .. n
    BY <1>2
  <1>6. Len(lines) = n
    BY <1>2, <1>5
  <1>7. \A i \in 1 .. n : LineAgrees(lines[i], breakdowns[i])
    <2> TAKE i \in 1 .. n
    <2>1. CreateInvoiceLineDto(sent[i]) /\ RateAccepted(sent[i])
      BY <1>1, <1>2, GstAssumption
    <2>2. LineAgrees(StoredLine(sent[i]), LineGst(sent[i], ResolveRate(sent[i]), Truthy(flag)))
      BY <2>1, LineIsSound DEF GstInv
    <2>3. lines[i] = StoredLine(sent[i])
          /\ breakdowns[i] = LineGst(sent[i], ResolveRate(sent[i]), Truthy(flag))
      BY <1>2
    <2> QED
      BY <2>2, <2>3
  <1> HIDE DEF n, breakdowns, lines
  <1>0. PICK m \in Nat : m = n
    BY <1>2
  <1>8. PICK stored, computed : stored = lines /\ computed = breakdowns
    OBVIOUS
  <1>9. \A i \in 1 .. m : LineAgrees(stored[i], computed[i])'
    BY <1>0, <1>3, <1>7, <1>8, SameTies
  <1>10. /\ bill'.breakdowns = computed /\ bill'.lines = stored
         /\ bill'.summary = Summary(computed)
    BY <1>4, <1>8
  <1>11. DOMAIN stored = 1 .. m /\ DOMAIN computed = 1 .. m /\ Len(stored) = m
    BY <1>0, <1>5, <1>6, <1>8
  <1>12. LinesAgree(m)'
    BY <1>9, <1>10, <1>11 DEF LinesAgree
  <1>13. NoPaisaLost'
    BY <1>12, AgreeingLinesPrimed
  <1>14. ReportedAsStored'
    BY <1>4 DEF ReportedAsStored
  <1> QED
    BY <1>3, <1>4, <1>12, <1>13, <1>14 DEF GstInv, Rounding, AmountsAgree

LEMMA ReportBillAgrees ==
    ASSUME GstInv, ReportBill
    PROVE  GstInv'
  <1>1. ties' = ties /\ bill.pc = "stored" /\ Rounding
    BY DEF ReportBill, GstInv
  <1>2. PICK n \in Nat : LinesAgree(n)
    BY <1>1 DEF GstInv
  <1>3. PICK flag \in SupplyFlags, seller \in StateCodes, buyer \in StateCodes :
         LET items == [i \in DOMAIN bill.lines |->
                         Item(bill.lines[i], InterState(flag, seller, buyer))]
         IN  bill' = [bill EXCEPT !.pc = "reported", !.payload =
               [items |-> items, assVal |-> Sum(items, "taxable"),
                cgst |-> SumTax(items, "cgst"), sgst |-> SumTax(items, "sgst"),
                igst |-> SumTax(items, "igst"),
                totInvVal |-> Sum(items, "taxable") + SumTax(items, "cgst")
                                + SumTax(items, "sgst") + SumTax(items, "igst")]]
    BY DEF ReportBill
  <1> DEFINE items == [i \in DOMAIN bill.lines |->
                         Item(bill.lines[i], InterState(flag, seller, buyer))]
  <1>4. PICK reported : reported = items
    OBVIOUS
  <1>5. DOMAIN reported = 1 .. n
    BY <1>2, <1>4 DEF LinesAgree
  <1>6. \A i \in 1 .. n :
          /\ ItemAgrees(reported[i], bill.breakdowns[i])
          /\ reported[i].value = bill.lines[i].amount
    <2> TAKE i \in 1 .. n
    <2>1. LineAgrees(bill.lines[i], bill.breakdowns[i])
      BY <1>2 DEF LinesAgree
    <2>2. reported[i] = Item(bill.lines[i], InterState(flag, seller, buyer))
      BY <1>2, <1>4 DEF LinesAgree
    <2>3. TaxAddsUp(Split(bill.breakdowns[i].gst, InterState(flag, seller, buyer)),
                    bill.breakdowns[i].gst)
      BY <1>1, <2>1, TaxIsSplit DEF LineAgrees
    <2> QED
      BY <2>1, <2>2, <2>3 DEF LineAgrees, Item, ItemAgrees
  <1> HIDE DEF items
  <1>7. bill' = [bill EXCEPT !.pc = "reported", !.payload =
               [items |-> reported, assVal |-> Sum(reported, "taxable"),
                cgst |-> SumTax(reported, "cgst"), sgst |-> SumTax(reported, "sgst"),
                igst |-> SumTax(reported, "igst"),
                totInvVal |-> Sum(reported, "taxable") + SumTax(reported, "cgst")
                                + SumTax(reported, "sgst") + SumTax(reported, "igst")]]
    BY <1>3, <1>4 DEF items
  <1>8. /\ bill'.lines = bill.lines /\ bill'.breakdowns = bill.breakdowns
        /\ bill'.summary = bill.summary /\ bill'.pc = "reported" /\ BillRecord'
        /\ bill'.payload.items = reported
        /\ bill'.payload.assVal = Sum(reported, "taxable")
        /\ bill'.payload.cgst = SumTax(reported, "cgst")
        /\ bill'.payload.sgst = SumTax(reported, "sgst")
        /\ bill'.payload.igst = SumTax(reported, "igst")
        /\ bill'.payload.totInvVal = Sum(reported, "taxable") + SumTax(reported, "cgst")
                                + SumTax(reported, "sgst") + SumTax(reported, "igst")
    BY <1>7 DEF BillRecord, GstInv
  <1>9. LinesAgree(n)'
    <2>1. \A i \in 1 .. n : LineAgrees(bill.lines[i], bill.breakdowns[i])
      BY <1>2 DEF LinesAgree
    <2>2. PICK stored, computed : stored = bill.lines /\ computed = bill.breakdowns
      OBVIOUS
    <2>3. \A i \in 1 .. n : LineAgrees(stored[i], computed[i])'
      BY <1>1, <2>1, <2>2, SameTies
    <2> QED
      BY <1>2, <1>8, <2>2, <2>3 DEF LinesAgree
  <1>10. NoPaisaLost'
    BY <1>9, AgreeingLinesPrimed
  <1>11. /\ Sum(reported, "taxable") = Sum(bill.breakdowns, "taxable")
         /\ Sum(reported, "taxable") \in Int
         /\ SumTax(reported, "cgst") \in Int /\ SumTax(reported, "sgst") \in Int
         /\ SumTax(reported, "igst") \in Int
         /\ SumTax(reported, "cgst") + SumTax(reported, "sgst") + SumTax(reported, "igst")
              = Sum(bill.breakdowns, "gst")
    <2>1. DOMAIN bill.breakdowns = 1 .. n
      BY <1>2 DEF LinesAgree
    <2> QED
      BY <1>5, <1>6, <2>1, ReportAgrees
  <1>12. /\ bill.summary.subtotal = Sum(bill.breakdowns, "taxable")
         /\ bill.summary.gstAmount = Sum(bill.breakdowns, "gst")
         /\ bill.summary.total = Sum(bill.breakdowns, "taxable") + Sum(bill.breakdowns, "gst")
    BY <1>2 DEF LinesAgree, Summary
  <1>13. \A i \in DOMAIN bill.lines : reported[i].value = bill.lines[i].amount
    BY <1>2, <1>6 DEF LinesAgree
  <1>14. ReportedAsStored'
    BY <1>8, <1>11, <1>12, <1>13 DEF ReportedAsStored
  <1> QED
    BY <1>1, <1>8, <1>9, <1>10, <1>14 DEF GstInv, Rounding, AmountsAgree

\* For any invoice inputs, rates and rounding of the ties, the amounts agree from the
\* lines of an invoice to what NIC is told of it.
THEOREM AmountsAlwaysAgree == GstSpec => []AmountsAgree
  <1>1. GstInv /\ [GstNext]_gstVars => GstInv'
    <2> SUFFICES ASSUME GstInv, [GstNext]_gstVars PROVE GstInv'
      OBVIOUS
    <2>1. CASE UNCHANGED gstVars
      <3>1. ties' = ties /\ bill' = bill
        BY <2>1 DEF gstVars
      <3>2. ASSUME NEW n \in Nat, LinesAgree(n) PROVE LinesAgree(n)'
        <4>1. PICK stored, computed : stored = bill.lines /\ computed = bill.breakdowns
          OBVIOUS
        <4>2. \A i \in 1 .. n : LineAgrees(stored[i], computed[i])'
          BY <3>1, <3>2, <4>1, SameTies DEF LinesAgree
        <4> QED
          BY <3>1, <3>2, <4>1, <4>2 DEF LinesAgree
      <3>3. (Rounding /\ BillRecord)'
        BY <3>1 DEF GstInv, Rounding, BillRecord
      <3>4. AmountsAgree'
        BY <3>1 DEF GstInv, AmountsAgree, NoPaisaLost, ReportedAsStored
      <3> QED
        BY <3>1, <3>2, <3>3, <3>4 DEF GstInv
    <2> QED
      BY <2>1, CreateBillAgrees, ReportBillAgrees DEF GstNext
  <1>2. GstInv => AmountsAgree
    BY DEF GstInv
  <1> QED
    BY <1>1, <1>2, GstStart, PTL DEF GstSpec

=============================================================================

--------------------------- MODULE PurchaseOrders ---------------------------
(***************************************************************************)
(* SuppliersService: purchase orders.  A purchase order has one line; its  *)
(* status is checked on the copy read and written by id.  A line is edited *)
(* by the line's own id, which need not be of the order that was read.     *)
(* Its number is one more than the orders counted before the insert, and   *)
(* no key keeps it unique.  The event supplier.po-dispatched has no        *)
(* consumer in the repository and is left out.  The column amount is the   *)
(* service's: the model PurchaseOrderLine of schema.prisma has none.       *)
(***************************************************************************)
EXTENDS Handlers

CONSTANTS
    Pos,            \* purchase_orders
    PoValues,       \* quantities and rates of lines
    LoadedPos       \* the statuses in which purchase orders are found

VARIABLE po

-----------------------------------------------------------------------------
PoStatuses == {"DRAFT", "SENT", "ACKNOWLEDGED", "PART_RECEIVED", "CLOSED", "CANCELLED"}

ASSUME PosAssumption ==
    /\ None \notin Pos \cup PoStatuses
    /\ PoValues \subseteq Nat \ {0}
    /\ LoadedPos \subseteq PoStatuses

\* overtaken (auxiliary): another order was inserted after this one was counted.
\* partly (auxiliary): the line was given a quantity without a rate or the
\* reverse, and not both since.
NoPo == [status |-> None, number |-> 0, qty |-> 0, rate |-> 0, amount |-> 0,
         overtaken |-> FALSE, partly |-> FALSE]

\* What a client may send of a line: a quantity and a rate, or either when edited,
\* with the id of the line, for which the order it belongs to stands.
CreatePoLineDto == [qty : PoValues, rate : PoValues]
UpdatePoLineDto == [line : Pos, qty : PoValues \cup {None}, rate : PoValues \cup {None}]

NewPo(status, number, qty, rate, overtaken) ==
    [NoPo EXCEPT !.status = status, !.number = number, !.qty = qty, !.rate = rate,
                 !.amount = qty * rate, !.overtaken = overtaken]

Present == {p \in Pos : po[p] # NoPo}

\* At most one purchase order is on file at the start.
PosInit ==
    \E p \in Pos, s \in LoadedPos \cup {None}, v \in PoValues :
      po = [x \in Pos |-> IF x = p /\ s # None THEN NewPo(s, 1, v, v, FALSE) ELSE NoPo]

-----------------------------------------------------------------------------
(* createPurchaseOrder().                                                  *)

\* The supplier is read before and never removed; the number is a count plus one.
CountPos(r, dto) ==
    /\ Read(r, "createPo", "purchase_orders", dto, [number |-> Cardinality(Present) + 1])
    /\ UNCHANGED po

InsertPo(r, p) ==
    /\ AtWrite(r, "createPo")
    /\ po[p] = NoPo
    /\ po' = [po EXCEPT ![p] = NewPo("DRAFT", request[r].was.number, request[r].dto.qty,
                                     request[r].dto.rate, request[r].late)]
    /\ Written(r, Served)

-----------------------------------------------------------------------------
(* updatePurchaseOrderLines(): only the fields sent are written.           *)

\* Mutant: the status is not checked.
BugReadToEdit(r, p, dto) ==
    /\ po[p] # NoPo /\ po[dto.line] # NoPo
    /\ Read(r, "editPo", p, dto, po[p])
    /\ UNCHANGED po

\* The status checked is that of the order in the path, whosever line the body
\* names; an id of no line is refused by the statement and is left out.
ReadToEdit(r, p, dto) ==
    /\ po[p].status = "DRAFT"
    /\ po[dto.line] # NoPo
    /\ Read(r, "editPo", p, dto, po[p])
    /\ UNCHANGED po

OrElse(value, default) == IF value # None THEN value ELSE default

\* Mutant: the amount is left as it was.
BugEditedAmount(old, dto) == old.amount

\* amount is written when a quantity is sent, with a missing rate as 0.
EditedAmount(old, dto) ==
    IF dto.qty # None THEN dto.qty * OrElse(dto.rate, 0) ELSE old.amount

Partial(dto) == (dto.qty = None) # (dto.rate = None)

EditLines(r) ==
    LET dto == request[r].dto
        p   == dto.line
    IN  /\ AtWrite(r, "editPo")
        /\ po' = [po EXCEPT ![p] =
                    [po[p] EXCEPT !.qty = OrElse(dto.qty, @), !.rate = OrElse(dto.rate, @),
                                  !.amount = EditedAmount(po[p], dto),
                                  !.partly = Partial(dto) \/ (@ /\ dto.qty = None)]]
        /\ WrittenAll(r, {p}, Served)

-----------------------------------------------------------------------------
(* sendPurchaseOrder(), acknowledgePurchaseOrder(), closePurchaseOrder(),  *)
(* cancelPurchaseOrder().                                                  *)

PoOps == {"send", "acknowledge", "close", "cancelPo"}

MayMove(op, status) ==
    CASE op = "send"        -> status = "DRAFT"
      [] op = "acknowledge" -> status = "SENT"
      [] op = "close"       -> status \in {"ACKNOWLEDGED", "PART_RECEIVED"}
      [] op = "cancelPo"    -> status \notin {None, "CLOSED", "CANCELLED"}

NextStatus(op) ==
    CASE op = "send"        -> "SENT"
      [] op = "acknowledge" -> "ACKNOWLEDGED"
      [] op = "close"       -> "CLOSED"
      [] op = "cancelPo"    -> "CANCELLED"

ReadToMove(r, p, op) ==
    /\ MayMove(op, po[p].status)
    /\ Read(r, op, p, None, po[p])
    /\ UNCHANGED po

\* updatePoStatus()
MovePo(r) ==
    /\ request[r].pc = "write" /\ request[r].op \in PoOps
    /\ po' = [po EXCEPT ![request[r].doc].status = NextStatus(request[r].op)]
    /\ Written(r, Served)

-----------------------------------------------------------------------------
PosNext ==
    \E r \in Requests :
      \/ \E dto \in CreatePoLineDto : CountPos(r, dto)
      \/ \E p \in Pos :
           \/ InsertPo(r, p)
           \/ \E dto \in UpdatePoLineDto : ReadToEdit(r, p, dto)
           \/ \E op \in PoOps : ReadToMove(r, p, op)
      \/ EditLines(r)
      \/ MovePo(r)

-----------------------------------------------------------------------------
(* Properties.                                                             *)

\* Two purchase orders share a number only if one was inserted between the count
\* and the insert of the other.
PoNumbersDistinct ==
    \A p, q \in Present : (p # q /\ po[p].number = po[q].number) =>
        po[p].overtaken \/ po[q].overtaken

PoMoves ==
    ({"DRAFT"} \X {"SENT", "CANCELLED"}) \cup
    ({"SENT"} \X {"ACKNOWLEDGED", "CANCELLED"}) \cup
    ({"ACKNOWLEDGED", "PART_RECEIVED"} \X {"CLOSED", "CANCELLED"})

Line(row) == <<row.qty, row.rate, row.amount>>

\* In this step the line of p is written by a request that read another order.
EditElsewhere(p) ==
    \E r \in Requests : /\ AtWrite(r, "editPo") /\ request'[r].pc # "write"
                        /\ request[r].dto.line = p /\ request[r].doc # p

\* A purchase order moves along its life cycle and its line changes only while it
\* is a draft, except by a request that read it before its last change, and but
\* that an edit of another draft may name this order's line.
PoLifeCycle ==
    [][\A p \in Pos : po[p] # NoPo =>
         /\ po'[p].status # po[p].status =>
              LateWrite(p) \/ <<po[p].status, po'[p].status>> \in PoMoves
         /\ Line(po'[p]) # Line(po[p]) =>
              LateWrite(p) \/ EditElsewhere(p) \/ po[p].status = "DRAFT"]_po

\* The amount of a line is its quantity times its rate, whatever edits overlap, as
\* long as the last one that gave either gave both.
AmountsOfLines ==
    \A p \in Present : ~ po[p].partly => po[p].amount = po[p].qty * po[p].rate

=============================================================================

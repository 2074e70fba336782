--------------------------- MODULE DocumentsProofs ---------------------------
(***************************************************************************)
(* Theorems about orders, purchase orders and production (accounts are in  *)
(* AuthProofs), and how the steps of any handler change the requests: what *)
(* survives requests that write by its id a document they read before.     *)
(* Each service has an inductive invariant of its own, whose key part says *)
(* what a request that waits to write still knows: as long as no other     *)
(* request has written its document, the copy it read is the document.     *)
(***************************************************************************)
EXTENDS Documents, FiniteSetTheorems, FunctionTheorems, TLAPS

-----------------------------------------------------------------------------
(* What the steps of a handler do to the requests.                         *)

\* Requests whose fields are taken from these sets.
RequestsIn(Ops, Docs, Dtos, Copies) ==
    [Requests -> [pc : {"idle", "write", "emit", "done"}, op : Ops \cup {None},
                  doc : Docs \cup {None}, dto : Dtos \cup {None},
                  was : Copies \cup {None}, late : BOOLEAN]]

\* q stays what it is, but that its copy may have become old.
Same(q) ==
    /\ request'[q].pc = request[q].pc
    /\ request'[q].op = request[q].op
    /\ request'[q].doc = request[q].doc
    /\ request'[q].dto = request[q].dto
    /\ request'[q].was = request[q].was

\* The other requests after r wrote the documents docs.
OthersAfter(r, docs) ==
    \A q \in Requests \ {r} :
      /\ Same(q)
      /\ request[q].late => request'[q].late
      /\ (request[q].pc = "write" /\ request[q].doc \in docs) => request'[q].late
      /\ request[q].doc \notin docs => request'[q].late = request[q].late

\* A request that is served holds nothing.
LEMMA ServedFields ==
    ASSUME NEW O, NEW D, NEW T, NEW C
    PROVE  /\ Served \in [pc : {"idle", "write", "emit", "done"}, op : O \cup {None},
                          doc : D \cup {None}, dto : T \cup {None}, was : C \cup {None},
                          late : BOOLEAN]
           /\ Served.pc = "done"
BY DEF Served, Idle

\* Requests are typed to begin with.
LEMMA RequestsStart ==
    ASSUME NEW O, NEW D, NEW T, NEW C, HandlersInit
    PROVE  /\ request \in RequestsIn(O, D, T, C)
           /\ \A r \in Requests : request[r].pc = "idle"
BY DEF HandlersInit, RequestsIn, Idle

\* A request that is refused is served and disturbs no other.
LEMMA RefuseKeeps ==
    ASSUME NEW O, NEW D, NEW T, NEW C, request \in RequestsIn(O, D, T, C),
           NEW r \in Requests, request' = [request EXCEPT ![r] = Served]
    PROVE  /\ request' \in RequestsIn(O, D, T, C)
           /\ request'[r].pc = "done"
           /\ OthersAfter(r, {})
           /\ \A q \in Requests \ {r} : request'[q] = request[q]
<1>1. /\ Served \in [pc : {"idle", "write", "emit", "done"}, op : O \cup {None},
                     doc : D \cup {None}, dto : T \cup {None}, was : C \cup {None},
                     late : BOOLEAN]
      /\ Served.pc = "done"
  BY ServedFields
<1> QED
  BY <1>1 DEF RequestsIn, OthersAfter, Same

\* A request that writes goes on as next; who read what it wrote has an old copy.
LEMMA WriteKeeps ==
    ASSUME NEW O, NEW D, NEW T, NEW C, request \in RequestsIn(O, D, T, C),
           NEW r \in Requests, NEW STATE docs, NEW STATE next, WrittenAll(r, docs, next),
           next \in [pc : {"idle", "write", "emit", "done"}, op : O \cup {None},
                     doc : D \cup {None}, dto : T \cup {None},
                     was : C \cup {None}, late : BOOLEAN]
    PROVE  /\ request' \in RequestsIn(O, D, T, C)
           /\ request'[r] = next
           /\ OthersAfter(r, docs)
<1> DEFINE R == [pc : {"idle", "write", "emit", "done"}, op : O \cup {None},
                 doc : D \cup {None}, dto : T \cup {None}, was : C \cup {None}, late : BOOLEAN]
<1>1. request'[r] = next
  BY DEF WrittenAll
<1>2. ASSUME NEW q \in Requests, q # r
      PROVE  /\ request'[q] \in R
             /\ Same(q)
             /\ request[q].late => request'[q].late
             /\ (request[q].pc = "write" /\ request[q].doc \in docs) => request'[q].late
             /\ request[q].doc \notin docs => request'[q].late = request[q].late
  <2>1. request[q] \in R
    BY DEF RequestsIn
  <2>2. CASE request[q].pc = "write" /\ request[q].doc \in docs
    <3>1. request'[q] = [request[q] EXCEPT !.late = TRUE]
      BY <1>2, <2>2 DEF WrittenAll
    <3> QED
      BY <2>1, <2>2, <3>1 DEF Same
  <2>3. CASE ~ (request[q].pc = "write" /\ request[q].doc \in docs)
    <3>1. request'[q] = request[q]
      BY <1>2, <2>3 DEF WrittenAll
    <3> QED
      BY <2>1, <2>3, <3>1 DEF Same
  <2> QED
    BY <2>2, <2>3
<1>3. request' \in RequestsIn(O, D, T, C)
  <2>1. request' = [q \in Requests |-> request'[q]]
    BY DEF WrittenAll
  <2>2. \A q \in Requests : request'[q] \in R
    BY <1>1, <1>2
  <2> QED
    BY <2>1, <2>2 DEF RequestsIn
<1> QED
  BY <1>1, <1>2, <1>3 DEF OthersAfter

\* The same for the document that was read, when the request is served by it.
LEMMA WriteServes ==
    ASSUME NEW O, NEW D, NEW T, NEW C, request \in RequestsIn(O, D, T, C),
           NEW r \in Requests, Written(r, Served)
    PROVE  /\ request' \in RequestsIn(O, D, T, C)
           /\ request'[r].pc = "done"
           /\ OthersAfter(r, {request[r].doc})
<1>1. /\ Served \in [pc : {"idle", "write", "emit", "done"}, op : O \cup {None},
                     doc : D \cup {None}, dto : T \cup {None}, was : C \cup {None},
                     late : BOOLEAN]
      /\ Served.pc = "done"
  BY ServedFields
<1>2. WrittenAll(r, {request[r].doc}, Served)
  BY DEF Written
<1> HIDE DEF Written
<1> QED
  BY <1>1, <1>2, WriteKeeps

-----------------------------------------------------------------------------
(* Orders.                                                                 *)

OrderOps == {"update", "confirm", "cancel", "dispatch"}

OrderRows ==
    [status : OrderStatuses \cup {None}, revision : Nat, lines : LineSets \cup {None},
     totals : LineSets \cup {None}, linesJson : LineSets \cup {None}, late : BOOLEAN]

OrdersTypeOK ==
    /\ order \in [Orders -> OrderRows]
    /\ revisions \subseteq [order : Orders, revision : Nat \ {0}, lines : LineSets]
    /\ history \in [Orders -> Seq(LineSets)]
    /\ request \in RequestsIn(OrderOps, Orders, LineSets, OrderRows)

\* An order has as many revisions in its history as its number says, shows the
\* last one, and its totals are of it.
OrderSound(o) ==
    /\ Len(history[o]) = order[o].revision
    /\ order[o].status = None => order[o].revision = 0
    /\ order[o].status # None =>
         /\ order[o].revision > 0
         /\ order[o].lines = history[o][order[o].revision]
    /\ order[o].totals = order[o].lines
    /\ ~ order[o].late => order[o].linesJson = order[o].lines

\* The kept revisions are those before the current one, with their lines.
RevisionsSound ==
    /\ \A x \in revisions :
         x.revision < order[x.order].revision /\ x.lines = history[x.order][x.revision]
    /\ \A o \in Orders : \A n \in 1 .. (order[o].revision - 1) :
         \E x \in revisions : x.order = o /\ x.revision = n

\* What a request still knows when it writes: the lines and totals of the revision
\* it read, and the whole order if nobody wrote it since.
OrderKnown(r) ==
    request[r].pc = "write" =>
      LET o == request[r].doc
          was == request[r].was
      IN  /\ request[r].op \in OrderOps
          /\ o \in Orders /\ order[o].status # None
          /\ was \in OrderRows
          /\ was.revision \in 1 .. order[o].revision
          /\ was.lines = history[o][was.revision] /\ was.totals = was.lines
          /\ ~ request[r].late => was = order[o]
          /\ request[r].op = "update" => was.status \notin {None, "CANCELLED", "DISPATCHED"}
          /\ request[r].op = "confirm" => was.status = "DRAFT"
          /\ request[r].op = "cancel" => was.status \notin {None, "CANCELLED", "DISPATCHED"}
          /\ request[r].op = "dispatch" => was.status = "QC_PASSED"

OrdersInv ==
    /\ OrdersTypeOK
    /\ \A o \in Orders : OrderSound(o)
    /\ RevisionsSound
    /\ \A r \in Requests : OrderKnown(r)

LEMMA OrdersStart ==
    ASSUME HandlersInit, OrdersInit
    PROVE  OrdersInv
<1>1. request \in RequestsIn(OrderOps, Orders, LineSets, OrderRows)
      /\ \A r \in Requests : request[r].pc = "idle"
  BY RequestsStart
<1>2. NoOrder \in OrderRows /\ NoOrder.status = None /\ NoOrder.revision = 0
      /\ NoOrder.totals = None /\ NoOrder.lines = None /\ NoOrder.linesJson = None
  BY DEF NoOrder, OrderRows
<1>3. ASSUME NEW s \in LoadedOrders, NEW l \in LineSets
      PROVE  /\ NewOrder(s, l) \in OrderRows
             /\ NewOrder(s, l).status = s /\ s # None
             /\ NewOrder(s, l).revision = 1
             /\ NewOrder(s, l).lines = l /\ NewOrder(s, l).totals = l
             /\ NewOrder(s, l).linesJson = l
  BY OrdersAssumption DEF NewOrder, OrderRows
<1>4. ASSUME NEW o \in Orders
      PROVE  order[o] \in OrderRows /\ history[o] \in Seq(LineSets) /\ OrderSound(o)
             /\ order[o].revision \in {0, 1}
  <2>1. CASE order[o] = NoOrder
    <3>1. history[o] = <<>>
      BY <2>1 DEF OrdersInit
    <3> QED
      BY <1>2, <2>1, <3>1 DEF OrderSound
  <2>2. CASE order[o] # NoOrder
    <3>1. PICK s \in LoadedOrders, l \in LineSets : order[o] = NewOrder(s, l)
      BY <2>2 DEF OrdersInit
    <3>2. history[o] = <<l>>
      BY <1>3, <2>2, <3>1 DEF OrdersInit
    <3>3. history[o] \in Seq(LineSets) /\ Len(history[o]) = 1 /\ history[o][1] = l
      BY <3>2
    <3> QED
      BY <1>3, <3>1, <3>3 DEF OrderSound
  <2> QED
    BY <2>1, <2>2
<1>5. order \in [Orders -> OrderRows] /\ history \in [Orders -> Seq(LineSets)]
  <2>1. DOMAIN order = Orders /\ order = [o \in Orders |-> order[o]]
    BY DEF OrdersInit
  <2>2. DOMAIN history = Orders /\ history = [o \in Orders |-> history[o]]
    BY DEF OrdersInit
  <2> QED
    BY <1>4, <2>1, <2>2
<1>6. RevisionsSound
  BY <1>4 DEF RevisionsSound, OrdersInit
<1> QED
  BY <1>1, <1>4, <1>5, <1>6 DEF OrdersInv, OrdersTypeOK, OrderKnown, OrdersInit

\* What another request knows stays true while orders only advance, and an order
\* whose row changes makes the copies of it old.
LEMMA OrderKnownStays ==
    ASSUME OrdersInv, NEW q \in Requests, Same(q), request[q].late => request'[q].late,
           \A o \in Orders : order[o].status # None =>
             /\ order'[o].status # None
             /\ order'[o].revision \in Nat /\ order'[o].revision >= order[o].revision
             /\ \A n \in 1 .. order[o].revision : history'[o][n] = history[o][n]
             /\ \/ order'[o] = order[o]
                \/ (request[q].pc = "write" /\ request[q].doc = o) => request'[q].late
    PROVE  OrderKnown(q)'
<1> SUFFICES ASSUME request[q].pc = "write"
             PROVE  OrderKnown(q)'
  BY DEF OrderKnown, Same
<1>1. PICK o \in Orders : o = request[q].doc
  BY DEF OrdersInv, OrderKnown
<1>2. PICK was \in OrderRows : was = request[q].was
  BY DEF OrdersInv, OrderKnown
<1>3. /\ request[q].op \in OrderOps
      /\ order[o].status # None
      /\ was.revision \in 1 .. order[o].revision
      /\ was.lines = history[o][was.revision] /\ was.totals = was.lines
      /\ ~ request[q].late => was = order[o]
      /\ request[q].op = "update" => was.status \notin {None, "CANCELLED", "DISPATCHED"}
      /\ request[q].op = "confirm" => was.status = "DRAFT"
      /\ request[q].op = "cancel" => was.status \notin {None, "CANCELLED", "DISPATCHED"}
      /\ request[q].op = "dispatch" => was.status = "QC_PASSED"
  BY <1>1, <1>2 DEF OrdersInv, OrderKnown
<1>4. order[o].revision \in Nat
  BY DEF OrdersInv, OrdersTypeOK, OrderRows
<1>5. was.revision \in 1 .. order'[o].revision
      /\ history'[o][was.revision] = history[o][was.revision]
  BY <1>3, <1>4
<1>6. ~ request'[q].late => was = order'[o]
  BY <1>1, <1>3
<1>7. request'[q].doc = o /\ request'[q].was = was /\ request'[q].op = request[q].op
  BY <1>1, <1>2 DEF Same
<1> QED
  BY <1>1, <1>2, <1>3, <1>5, <1>6, <1>7 DEF OrderKnown

\* A step that writes no order keeps the invariant, if the request it is of knows
\* what it should.
LEMMA OrdersUnwritten ==
    ASSUME OrdersInv, NEW r \in Requests, UNCHANGED <<order, revisions, history>>,
           request' \in RequestsIn(OrderOps, Orders, LineSets, OrderRows),
           OthersAfter(r, {}), OrderKnown(r)'
    PROVE  OrdersInv'
<1>1. ASSUME NEW q \in Requests
      PROVE  OrderKnown(q)'
  <2>1. CASE q = r
    BY <2>1
  <2>2. CASE q # r
    <3>1. Same(q) /\ (request[q].late => request'[q].late)
      BY <2>2 DEF OthersAfter
    <3>2. \A o \in Orders : order[o].revision \in Nat
      BY DEF OrdersInv, OrdersTypeOK, OrderRows
    <3> QED
      BY <3>1, <3>2, OrderKnownStays
  <2> QED
    BY <2>1, <2>2
<1> QED
  BY <1>1 DEF OrdersInv, OrdersTypeOK, OrderSound, RevisionsSound

\* A step that writes the row of an order and leaves its lines and revision.
LEMMA OrderRowWritten ==
    ASSUME OrdersInv, NEW r \in Requests, NEW o \in Orders,
           order[o].status # None,
           order' \in [Orders -> OrderRows],
           \A p \in Orders \ {o} : order'[p] = order[p],
           order'[o].status # None,
           order'[o].revision = order[o].revision,
           order'[o].lines = order[o].lines, order'[o].totals = order[o].totals,
           ~ order'[o].late => order'[o].linesJson = order'[o].lines,
           UNCHANGED <<revisions, history>>,
           request' \in RequestsIn(OrderOps, Orders, LineSets, OrderRows),
           OthersAfter(r, {o}), request'[r].pc # "write"
    PROVE  OrdersInv'
<1>1. ASSUME NEW q \in Requests
      PROVE  OrderKnown(q)'
  <2>1. CASE q = r
    BY <2>1 DEF OrderKnown
  <2>2. CASE q # r
    <3>1. Same(q) /\ (request[q].late => request'[q].late)
      BY <2>2 DEF OthersAfter
    <3>2. (request[q].pc = "write" /\ request[q].doc = o) => request'[q].late
      BY <2>2 DEF OthersAfter
    <3>3. ASSUME NEW p \in Orders, order[p].status # None
          PROVE  /\ order'[p].status # None
                 /\ order'[p].revision \in Nat /\ order'[p].revision >= order[p].revision
                 /\ \A n \in 1 .. order[p].revision : history'[p][n] = history[p][n]
                 /\ \/ order'[p] = order[p]
                    \/ (request[q].pc = "write" /\ request[q].doc = p) => request'[q].late
      BY <3>2, <3>3 DEF OrdersInv, OrdersTypeOK, OrderRows
    <3> QED
      BY <3>1, <3>3, OrderKnownStays
  <2> QED
    BY <2>1, <2>2
<1>2. ASSUME NEW p \in Orders
      PROVE  OrderSound(p)'
  BY DEF OrdersInv, OrderSound
<1>3. \A p \in Orders : order'[p].revision = order[p].revision
  OBVIOUS
<1>4. RevisionsSound'
  <2>1. ASSUME NEW x \in revisions
        PROVE  x.revision < order'[x.order].revision /\ x.lines = history'[x.order][x.revision]
    BY <1>3 DEF OrdersInv, OrdersTypeOK, RevisionsSound
  <2>2. ASSUME NEW p \in Orders, NEW n \in 1 .. (order'[p].revision - 1)
        PROVE  \E x \in revisions : x.order = p /\ x.revision = n
    BY <1>3 DEF OrdersInv, RevisionsSound
  <2> QED
    BY <2>1, <2>2 DEF RevisionsSound
<1> QED
  BY <1>1, <1>2, <1>4 DEF OrdersInv, OrdersTypeOK

LEMMA CreateOrderKeeps ==
    ASSUME OrdersInv, NEW r \in Requests, NEW o \in Orders, NEW dto \in CreateOrderDto,
           CreateOrder(r, o, dto)
    PROVE  OrdersInv'
<1> DEFINE row == NewOrder("DRAFT", dto.lines)
<1>1. /\ row \in OrderRows /\ row.status = "DRAFT" /\ row.revision = 1
      /\ row.lines = dto.lines /\ row.totals = dto.lines /\ row.linesJson = dto.lines
      /\ dto.lines \in LineSets /\ "DRAFT" # None
  BY OrdersAssumption DEF CreateOrderDto, NewOrder, OrderRows, OrderStatuses
<1>2. order[o].status = None /\ order[o].revision = 0
  BY DEF CreateOrder, NoOrder
<1>3. order' = [order EXCEPT ![o] = row] /\ history' = [history EXCEPT ![o] = <<dto.lines>>]
      /\ revisions' = revisions
  BY DEF CreateOrder
<1> HIDE DEF row
<1>4. /\ request' \in RequestsIn(OrderOps, Orders, LineSets, OrderRows)
      /\ OthersAfter(r, {}) /\ request'[r].pc = "done"
  BY RefuseKeeps DEF OrdersInv, OrdersTypeOK, CreateOrder
<1>5. order' \in [Orders -> OrderRows] /\ history' \in [Orders -> Seq(LineSets)]
  <2>1. <<dto.lines>> \in Seq(LineSets)
    BY <1>1
  <2> QED
    BY <1>1, <1>3, <2>1 DEF OrdersInv, OrdersTypeOK
<1>6. order'[o] = row /\ history'[o] = <<dto.lines>>
  BY <1>3 DEF OrdersInv, OrdersTypeOK
<1>7. \A p \in Orders \ {o} : order'[p] = order[p] /\ history'[p] = history[p]
  BY <1>3 DEF OrdersInv, OrdersTypeOK
<1>8. ASSUME NEW q \in Requests
      PROVE  OrderKnown(q)'
  <2>1. CASE q = r
    BY <1>4, <2>1 DEF OrderKnown
  <2>2. CASE q # r
    <3>1. Same(q) /\ (request[q].late => request'[q].late)
      BY <1>4, <2>2 DEF OthersAfter
    <3>2. ASSUME NEW p \in Orders, order[p].status # None
          PROVE  order'[p] = order[p] /\ order[p].revision \in Nat /\ history'[p] = history[p]
      BY <1>2, <1>7, <3>2 DEF OrdersInv, OrdersTypeOK, OrderRows
    <3> QED
      BY <3>1, <3>2, OrderKnownStays
  <2> QED
    BY <2>1, <2>2
<1>9. ASSUME NEW p \in Orders
      PROVE  OrderSound(p)'
  <2>1. CASE p = o
    <3>1. Len(history'[o]) = 1 /\ history'[o][1] = dto.lines
      BY <1>6
    <3>2. /\ order'[o].status = "DRAFT" /\ order'[o].revision = 1
          /\ order'[o].lines = dto.lines /\ order'[o].totals = dto.lines
          /\ order'[o].linesJson = dto.lines
      BY <1>1, <1>6
    <3> QED
      BY <1>1, <2>1, <3>1, <3>2 DEF OrderSound
  <2>2. CASE p # o
    BY <1>7, <2>2 DEF OrdersInv, OrderSound
  <2> QED
    BY <2>1, <2>2
<1>10. RevisionsSound'
  <2>1. \A x \in revisions : x.order # o
    BY <1>2 DEF OrdersInv, OrdersTypeOK, RevisionsSound
  <2>2. \A x \in revisions :
          x.revision < order'[x.order].revision /\ x.lines = history'[x.order][x.revision]
    BY <1>7, <2>1 DEF OrdersInv, OrdersTypeOK, RevisionsSound
  <2>3. ASSUME NEW p \in Orders, NEW n \in 1 .. (order'[p].revision - 1)
        PROVE  \E x \in revisions : x.order = p /\ x.revision = n
    <3>1. p # o
      BY <1>1, <1>6
    <3> QED
      BY <1>7, <3>1 DEF OrdersInv, RevisionsSound
  <2> QED
    BY <1>3, <2>2, <2>3 DEF RevisionsSound
<1> QED
  BY <1>3, <1>4, <1>5, <1>8, <1>9, <1>10 DEF OrdersInv, OrdersTypeOK

\* Each of the four reads.
LEMMA OrderReadKeeps ==
    ASSUME OrdersInv, NEW r \in Requests, NEW o \in Orders, NEW op \in OrderOps,
           NEW dto \in LineSets \cup {None}, Read(r, op, o, dto, order[o]),
           UNCHANGED orderVars,
           op = "update" => order[o].status \notin {None, "CANCELLED", "DISPATCHED"},
           op = "confirm" => order[o].status = "DRAFT",
           op = "cancel" => order[o].status \notin {None, "CANCELLED", "DISPATCHED"},
           op = "dispatch" => order[o].status = "QC_PASSED"
    PROVE  OrdersInv'
<1>1. order[o] \in OrderRows /\ order[o].status # None
  <2>1. "DRAFT" # None /\ "QC_PASSED" # None
    BY OrdersAssumption DEF OrderStatuses
  <2> QED
    BY <2>1 DEF OrdersInv, OrdersTypeOK, OrderOps
<1>2. /\ request' \in RequestsIn(OrderOps, Orders, LineSets, OrderRows)
      /\ request'[r].op = op /\ request'[r].doc = o /\ request'[r].was = order[o]
      /\ OthersAfter(r, {})
  <2>1. request \in RequestsIn(OrderOps, Orders, LineSets, OrderRows)
    BY DEF OrdersInv, OrdersTypeOK
  <2>2. /\ op \in OrderOps \cup {None} /\ o \in Orders \cup {None}
        /\ order[o] \in OrderRows \cup {None}
    BY <1>1
  <2> QED
    BY <2>1, <2>2 DEF RequestsIn, Read, OthersAfter, Same
<1>3. order' = order /\ history' = history /\ revisions' = revisions
  BY DEF orderVars
<1>4. /\ order[o].revision \in 1 .. order[o].revision
      /\ order[o].lines = history[o][order[o].revision]
      /\ order[o].totals = order[o].lines
  BY <1>1 DEF OrdersInv, OrderSound, OrdersTypeOK, OrderRows
<1>5. OrderKnown(r)'
  BY <1>1, <1>2, <1>3, <1>4 DEF OrderKnown
<1> QED
  BY <1>2, <1>3, <1>5, OrdersUnwritten

\* confirmOrder(), cancelOrder() and dispatchOrder() write the status alone.
StatusWritten(o, s, json, late) ==
    order' = [order EXCEPT ![o].status = s, ![o].linesJson = json, ![o].late = @ \/ late]

LEMMA OrderStatusKeeps ==
    ASSUME OrdersInv, NEW r \in Requests, request[r].pc = "write",
           NEW s \in OrderStatuses, NEW STATE json,
           StatusWritten(request[r].doc, s, json, request[r].late),
           json \in LineSets \cup {None},
           ~ (order[request[r].doc].late \/ request[r].late) =>
              json = order[request[r].doc].lines,
           UNCHANGED <<revisions, history>>,
           request' \in RequestsIn(OrderOps, Orders, LineSets, OrderRows),
           OthersAfter(r, {request[r].doc}), request'[r].pc # "write"
    PROVE  OrdersInv'
<1>1. PICK o \in Orders : o = request[r].doc
  BY DEF OrdersInv, OrderKnown
<1>2. order[o].status # None /\ order[o] \in OrderRows /\ request[r].late \in BOOLEAN
  BY <1>1 DEF OrdersInv, OrderKnown, OrdersTypeOK, RequestsIn
<1>3. s # None
  BY OrdersAssumption
<1>4. PICK late \in BOOLEAN : late = (order[o].late \/ request[r].late)
  OBVIOUS
<1>5. /\ order'[o] = [order[o] EXCEPT !.status = s, !.linesJson = json, !.late = late]
      /\ \A p \in Orders \ {o} : order'[p] = order[p]
      /\ DOMAIN order' = Orders
  BY <1>1, <1>4 DEF OrdersInv, OrdersTypeOK, StatusWritten
<1>6. /\ order'[o] \in OrderRows
      /\ order'[o].status = s /\ order'[o].revision = order[o].revision
      /\ order'[o].lines = order[o].lines /\ order'[o].totals = order[o].totals
      /\ order'[o].linesJson = json
      /\ order'[o].late = late
  BY <1>2, <1>5 DEF OrderRows
<1>7. order' \in [Orders -> OrderRows]
  <2>1. order' = [p \in Orders |-> order'[p]]
    BY DEF OrdersInv, OrdersTypeOK, StatusWritten
  <2>2. \A p \in Orders : order'[p] \in OrderRows
    BY <1>5, <1>6 DEF OrdersInv, OrdersTypeOK
  <2> QED
    BY <2>1, <2>2
<1>8. ~ order'[o].late => order'[o].linesJson = order'[o].lines
  BY <1>1, <1>4, <1>6
<1>9. order'[o].status # None /\ OthersAfter(r, {o})
  BY <1>1, <1>3, <1>6
<1> QED
  BY <1>2, <1>5, <1>6, <1>7, <1>8, <1>9, OrderRowWritten

LEMMA ConfirmOrderKeeps ==
    ASSUME OrdersInv, NEW r \in Requests, ConfirmOrder(r)
    PROVE  OrdersInv'
<1>1. PICK o \in Orders : o = request[r].doc
  BY DEF OrdersInv, OrderKnown, ConfirmOrder, AtWrite
<1>2. request[r].pc = "write" /\ request[r] \in [pc : {"idle", "write", "emit", "done"},
        op : OrderOps \cup {None}, doc : Orders \cup {None}, dto : LineSets \cup {None},
        was : OrderRows \cup {None}, late : BOOLEAN]
  BY DEF OrdersInv, OrdersTypeOK, RequestsIn, ConfirmOrder, AtWrite
<1>3. PICK json \in LineSets \cup {None} : json = request[r].was.lines
  BY <1>2 DEF OrdersInv, OrderKnown, OrderRows
<1>4. StatusWritten(request[r].doc, "CONFIRMED", json, request[r].late)
  BY <1>3 DEF ConfirmOrder, StatusWritten
<1>5. ~ (order[request[r].doc].late \/ request[r].late) => json = order[request[r].doc].lines
  BY <1>2, <1>3 DEF OrdersInv, OrderKnown
<1>6. /\ request' \in RequestsIn(OrderOps, Orders, LineSets, OrderRows)
      /\ OthersAfter(r, {request[r].doc}) /\ request'[r].pc # "write"
  <2> DEFINE next == [request[r] EXCEPT !.pc = "emit"]
  <2>1. /\ next \in [pc : {"idle", "write", "emit", "done"}, op : OrderOps \cup {None},
                     doc : Orders \cup {None}, dto : LineSets \cup {None},
                     was : OrderRows \cup {None}, late : BOOLEAN]
        /\ next.pc = "emit"
    BY <1>2
  <2>2. WrittenAll(r, {request[r].doc}, next)
    BY DEF ConfirmOrder, Written
  <2> HIDE DEF next
  <2>3. request \in RequestsIn(OrderOps, Orders, LineSets, OrderRows)
    BY DEF OrdersInv, OrdersTypeOK
  <2> QED
    BY <2>1, <2>2, <2>3, WriteKeeps
<1>7. "CONFIRMED" \in OrderStatuses
  BY DEF OrderStatuses
<1> QED
  BY <1>2, <1>4, <1>5, <1>6, <1>7, OrderStatusKeeps DEF ConfirmOrder

\* The status alone, in a request that is served by it.
LEMMA OrderEndKeeps ==
    ASSUME OrdersInv, NEW r \in Requests, NEW op, AtWrite(r, op), NEW s \in OrderStatuses,
           order' = [order EXCEPT ![request[r].doc].status = s,
                                  ![request[r].doc].late = @ \/ request[r].late],
           Written(r, Served), UNCHANGED <<revisions, history>>
    PROVE  OrdersInv'
<1>1. PICK o \in Orders : o = request[r].doc
  BY DEF OrdersInv, OrderKnown, AtWrite
<1>2. PICK json \in LineSets \cup {None} : json = order[o].linesJson
  BY DEF OrdersInv, OrdersTypeOK, OrderRows
<1>3. StatusWritten(request[r].doc, s, json, request[r].late)
  <2>1. order = [p \in Orders |-> order[p]] /\ order[o] \in OrderRows
    BY DEF OrdersInv, OrdersTypeOK
  <2> QED
    BY <1>1, <1>2, <2>1 DEF StatusWritten, OrderRows
<1>4. ~ (order[request[r].doc].late \/ request[r].late) => json = order[request[r].doc].lines
  BY <1>1, <1>2 DEF OrdersInv, OrderSound
<1>5. /\ request' \in RequestsIn(OrderOps, Orders, LineSets, OrderRows)
      /\ OthersAfter(r, {request[r].doc}) /\ request'[r].pc # "write"
  <2>1. request \in RequestsIn(OrderOps, Orders, LineSets, OrderRows)
    BY DEF OrdersInv, OrdersTypeOK
  <2> QED
    BY <2>1, WriteServes
<1>6. request[r].pc = "write"
  BY DEF AtWrite
<1> QED
  BY <1>3, <1>4, <1>5, <1>6, OrderStatusKeeps

\* The unique key makes an update write the revision after the one it read.
LEMMA UpdateIsNext ==
    ASSUME OrdersInv, NEW r \in Requests, UpdateOrder(r)
    PROVE  /\ request[r].doc \in Orders
           /\ request[r].was.revision = order[request[r].doc].revision
           /\ request[r].was.lines = order[request[r].doc].lines
           /\ request[r].was.totals = order[request[r].doc].lines
<1>1. PICK o \in Orders : o = request[r].doc
  BY DEF OrdersInv, OrderKnown, UpdateOrder, AtWrite
<1>2. /\ request[r].was.revision \in 1 .. order[o].revision
      /\ request[r].was.lines = history[o][request[r].was.revision]
      /\ request[r].was.totals = request[r].was.lines
      /\ order[o].status # None
  BY <1>1 DEF OrdersInv, OrderKnown, UpdateOrder, AtWrite
<1>3. \A x \in revisions : ~ (x.order = o /\ x.revision = request[r].was.revision)
  BY <1>1 DEF UpdateOrder, RevisionFree
<1>4. request[r].was.revision \notin 1 .. (order[o].revision - 1)
  BY <1>3 DEF OrdersInv, RevisionsSound
<1>5. order[o].revision \in Nat
  BY DEF OrdersInv, OrdersTypeOK, OrderRows
<1>6. request[r].was.revision = order[o].revision
  BY <1>2, <1>4, <1>5
<1> QED
  BY <1>1, <1>2, <1>6 DEF OrdersInv, OrderSound

LEMMA UpdateOrderKeeps ==
    ASSUME OrdersInv, NEW r \in Requests, UpdateOrder(r)
    PROVE  OrdersInv'
<1>1. PICK o \in Orders : o = request[r].doc
  BY UpdateIsNext
<1>2. PICK was \in OrderRows : was = request[r].was
  BY DEF OrdersInv, OrderKnown, UpdateOrder, AtWrite
<1>3. /\ was.revision = order[o].revision /\ was.lines = order[o].lines
      /\ was.totals = order[o].lines
  BY <1>1, <1>2, UpdateIsNext
<1>4. /\ order[o].status # None /\ order[o] \in OrderRows
      /\ order[o].revision \in Nat \ {0} /\ order[o].lines \in LineSets
      /\ ~ request[r].late => was = order[o]
      /\ Len(history[o]) = order[o].revision /\ history[o] \in Seq(LineSets)
      /\ order[o].lines = history[o][order[o].revision]
  <2>1. /\ order[o].status # None /\ order[o] \in OrderRows
        /\ order[o].revision \in Nat /\ order[o].revision > 0
        /\ Len(history[o]) = order[o].revision /\ history[o] \in Seq(LineSets)
        /\ order[o].lines = history[o][order[o].revision]
    BY <1>1 DEF OrdersInv, OrdersTypeOK, OrderKnown, OrderSound, UpdateOrder, AtWrite,
                OrderRows
  <2>2. ~ request[r].late => was = order[o]
    BY <1>1, <1>2 DEF OrdersInv, OrderKnown, UpdateOrder, AtWrite
  <2>3. order[o].lines \in LineSets
    BY <2>1
  <2> QED
    BY <2>1, <2>2, <2>3
<1>5. PICK sent \in LineSets \cup {None} : sent = request[r].dto
  BY DEF OrdersInv, OrdersTypeOK, RequestsIn
<1>6. PICK late \in BOOLEAN : late = (order[o].late \/ request[r].late)
  OBVIOUS
<1>7. PICK lines \in LineSets : lines = IF sent # None THEN sent ELSE order[o].lines
  BY <1>4
<1>8. PICK totals \in LineSets : totals = IF sent # None THEN lines ELSE was.totals
  BY <1>3, <1>4
<1>9. PICK json \in LineSets \cup {None} :
        json = IF sent # None THEN lines ELSE was.linesJson
  BY DEF OrderRows
<1>10. /\ order'[o] = [order[o] EXCEPT !.revision = order[o].revision + 1, !.lines = lines,
                         !.totals = totals, !.linesJson = json, !.late = late]
       /\ \A p \in Orders \ {o} : order'[p] = order[p]
       /\ DOMAIN order' = Orders
       /\ order' = [p \in Orders |-> order'[p]]
  <2>1. order = [p \in Orders |-> order[p]]
    BY DEF OrdersInv, OrdersTypeOK
  <2> QED
    BY <1>1, <1>2, <1>5, <1>6, <1>7, <1>8, <1>9, <2>1 DEF UpdateOrder
<1>11. /\ order'[o] \in OrderRows /\ order'[o].status = order[o].status
       /\ order'[o].revision = order[o].revision + 1 /\ order'[o].lines = lines
       /\ order'[o].totals = totals /\ order'[o].linesJson = json /\ order'[o].late = late
  <2>1. PICK next \in Nat : next = order[o].revision + 1
    BY <1>4
  <2>2. order'[o] = [order[o] EXCEPT !.revision = next, !.lines = lines,
                       !.totals = totals, !.linesJson = json, !.late = late]
    BY <1>10, <2>1
  <2>3. /\ order'[o] \in OrderRows /\ order'[o].status = order[o].status
        /\ order'[o].revision = next /\ order'[o].lines = lines
        /\ order'[o].totals = totals /\ order'[o].linesJson = json /\ order'[o].late = late
    BY <1>4, <2>2 DEF OrderRows
  <2> QED
    BY <2>1, <2>3
<1>12. order' \in [Orders -> OrderRows]
  <2>1. \A p \in Orders : order'[p] \in OrderRows
    BY <1>10, <1>11 DEF OrdersInv, OrdersTypeOK
  <2> QED
    BY <1>10, <2>1
<1>13. /\ history'[o] = Append(history[o], lines)
       /\ \A p \in Orders \ {o} : history'[p] = history[p]
       /\ history' \in [Orders -> Seq(LineSets)]
  <2>1. history' = [history EXCEPT ![o] = Append(history[o], lines)]
    BY <1>1, <1>5, <1>7 DEF UpdateOrder, OrdersInv, OrdersTypeOK
  <2>2. Append(history[o], lines) \in Seq(LineSets)
    BY <1>4
  <2>3. history \in [Orders -> Seq(LineSets)]
    BY DEF OrdersInv, OrdersTypeOK
  <2> QED
    BY <2>1, <2>2, <2>3
<1>14. /\ Len(history'[o]) = order[o].revision + 1
       /\ history'[o][order[o].revision + 1] = lines
       /\ \A n \in 1 .. order[o].revision : history'[o][n] = history[o][n]
  BY <1>4, <1>13
<1>15. PICK kept \in [order : Orders, revision : Nat \ {0}, lines : LineSets] :
         /\ kept.order = o /\ kept.revision = order[o].revision
         /\ kept.lines = order[o].lines
         /\ revisions' = revisions \cup {kept}
  <2> DEFINE kept == [order |-> o, revision |-> order[o].revision, lines |-> order[o].lines]
  <2>1. kept \in [order : Orders, revision : Nat \ {0}, lines : LineSets]
    BY <1>4
  <2>2. revisions' = revisions \cup {kept}
    BY <1>1, <1>2, <1>3 DEF UpdateOrder, Snapshot
  <2> QED
    BY <2>1, <2>2
<1>16. /\ request' \in RequestsIn(OrderOps, Orders, LineSets, OrderRows)
       /\ OthersAfter(r, {o}) /\ request'[r].pc = "done"
  <2>1. request \in RequestsIn(OrderOps, Orders, LineSets, OrderRows) /\ Written(r, Served)
    BY DEF OrdersInv, OrdersTypeOK, UpdateOrder
  <2> QED
    BY <1>1, <2>1, WriteServes
<1>17. ASSUME NEW q \in Requests
       PROVE  OrderKnown(q)'
  <2>1. CASE q = r
    BY <1>16, <2>1 DEF OrderKnown
  <2>2. CASE q # r
    <3>1. Same(q) /\ (request[q].late => request'[q].late)
          /\ ((request[q].pc = "write" /\ request[q].doc = o) => request'[q].late)
      BY <1>16, <2>2 DEF OthersAfter
    <3>2. ASSUME NEW p \in Orders, order[p].status # None
          PROVE  /\ order'[p].status # None
                 /\ order'[p].revision \in Nat /\ order'[p].revision >= order[p].revision
                 /\ \A n \in 1 .. order[p].revision : history'[p][n] = history[p][n]
                 /\ \/ order'[p] = order[p]
                    \/ (request[q].pc = "write" /\ request[q].doc = p) => request'[q].late
      <4>1. order[p].revision \in Nat
        BY DEF OrdersInv, OrdersTypeOK, OrderRows
      <4>2. CASE p = o
        BY <1>4, <1>11, <1>14, <3>1, <4>1, <4>2
      <4>3. CASE p # o
        BY <1>10, <1>13, <3>2, <4>1, <4>3
      <4> QED
        BY <4>2, <4>3
    <3> QED
      BY <3>1, <3>2, OrderKnownStays
  <2> QED
    BY <2>1, <2>2
<1>18. ASSUME NEW p \in Orders
       PROVE  OrderSound(p)'
  <2>1. CASE p = o
    <3>1. totals = lines
      BY <1>3, <1>7, <1>8
    <3>2. ~ late => json = lines
      <4>1. ~ late => was = order[o] /\ order[o].linesJson = order[o].lines
        BY <1>4, <1>6 DEF OrdersInv, OrderSound
      <4> QED
        BY <1>7, <1>9, <4>1
    <3> QED
      BY <1>4, <1>11, <1>14, <2>1, <3>1, <3>2 DEF OrderSound
  <2>2. CASE p # o
    BY <1>10, <1>13, <2>2 DEF OrdersInv, OrderSound
  <2> QED
    BY <2>1, <2>2
<1>19. RevisionsSound'
  <2>1. ASSUME NEW x \in revisions'
        PROVE  x.revision < order'[x.order].revision /\ x.lines = history'[x.order][x.revision]
    <3>1. CASE x = kept
      <4>1. order[o].revision \in 1 .. order[o].revision
        BY <1>4
      <4>2. history'[o][order[o].revision] = order[o].lines
        BY <1>4, <1>14, <4>1
      <4> QED
        BY <1>4, <1>11, <1>15, <3>1, <4>2
    <3>2. CASE x \in revisions
      <4>1. /\ x.revision < order[x.order].revision /\ x.revision \in Nat \ {0}
            /\ x.lines = history[x.order][x.revision]
            /\ x.order \in Orders /\ order[x.order].revision \in Nat
        BY <3>2 DEF OrdersInv, OrdersTypeOK, OrderRows, RevisionsSound
      <4>2. CASE x.order = o
        <5>1. x.revision \in 1 .. order[o].revision
          BY <1>4, <4>1, <4>2
        <5> QED
          BY <1>4, <1>11, <1>14, <4>1, <4>2, <5>1
      <4>3. CASE x.order # o
        BY <1>10, <1>13, <4>1, <4>3
      <4> QED
        BY <4>2, <4>3
    <3> QED
      BY <1>15, <3>1, <3>2
  <2>2. ASSUME NEW p \in Orders, NEW n \in 1 .. (order'[p].revision - 1)
        PROVE  \E x \in revisions' : x.order = p /\ x.revision = n
    <3>1. CASE p = o /\ n = order[o].revision
      BY <1>15, <3>1
    <3>2. CASE ~ (p = o /\ n = order[o].revision)
      <4>1. n \in 1 .. (order[p].revision - 1)
        <5>1. CASE p = o
          BY <1>4, <1>11, <3>2, <5>1
        <5>2. CASE p # o
          BY <1>10, <5>2
        <5> QED
          BY <5>1, <5>2
      <4>2. \E x \in revisions : x.order = p /\ x.revision = n
        BY <4>1 DEF OrdersInv, RevisionsSound
      <4> QED
        BY <1>15, <4>2
    <3> QED
      BY <3>1, <3>2
  <2> QED
    BY <2>1, <2>2 DEF RevisionsSound
<1>20. revisions' \subseteq [order : Orders, revision : Nat \ {0}, lines : LineSets]
  BY <1>15 DEF OrdersInv, OrdersTypeOK
<1> QED
  BY <1>12, <1>13, <1>16, <1>17, <1>18, <1>19, <1>20 DEF OrdersInv, OrdersTypeOK

LEMMA OrdersStep ==
    ASSUME OrdersInv, OrdersNext
    PROVE  OrdersInv'
<1>1. PICK r \in Requests :
        \/ \E o \in Orders :
             \/ \E dto \in CreateOrderDto : CreateOrder(r, o, dto)
             \/ \E dto \in UpdateOrderDto : ReadToUpdate(r, o, dto)
             \/ ReadToConfirm(r, o)
             \/ ReadToCancel(r, o)
             \/ ReadToDispatch(r, o)
        \/ UpdateOrder(r)
        \/ RefuseUpdate(r)
        \/ ConfirmOrder(r)
        \/ EmitConfirmed(r)
        \/ LoseConfirmed(r)
        \/ CancelOrder(r)
        \/ DispatchOrder(r)
  BY DEF OrdersNext
<1>2. ASSUME NEW o \in Orders, NEW dto \in CreateOrderDto, CreateOrder(r, o, dto)
      PROVE  OrdersInv'
  BY <1>2, CreateOrderKeeps
<1>3. ASSUME NEW o \in Orders, NEW dto \in UpdateOrderDto, ReadToUpdate(r, o, dto)
      PROVE  OrdersInv'
  <2>1. dto.lines \in LineSets \cup {None}
    BY DEF UpdateOrderDto
  <2> QED
    BY <1>3, <2>1, OrderReadKeeps DEF ReadToUpdate, OrderOps
<1>4. ASSUME NEW o \in Orders, ReadToConfirm(r, o)
      PROVE  OrdersInv'
  BY <1>4, OrderReadKeeps DEF ReadToConfirm, OrderOps
<1>5. ASSUME NEW o \in Orders, ReadToCancel(r, o)
      PROVE  OrdersInv'
  BY <1>5, OrderReadKeeps DEF ReadToCancel, OrderOps
<1>6. ASSUME NEW o \in Orders, ReadToDispatch(r, o)
      PROVE  OrdersInv'
  BY <1>6, OrderReadKeeps DEF ReadToDispatch, OrderOps
<1>7. CASE UpdateOrder(r)
  BY <1>7, UpdateOrderKeeps
<1>8. CASE ConfirmOrder(r)
  BY <1>8, ConfirmOrderKeeps
<1>9. CASE CancelOrder(r)
  <2>1. "CANCELLED" \in OrderStatuses
    BY DEF OrderStatuses
  <2> QED
    BY <1>9, <2>1, OrderEndKeeps DEF CancelOrder
<1>10. CASE DispatchOrder(r)
  <2>1. "DISPATCHED" \in OrderStatuses
    BY DEF OrderStatuses
  <2> QED
    BY <1>10, <2>1, OrderEndKeeps DEF DispatchOrder
<1>11. CASE RefuseUpdate(r) \/ EmitConfirmed(r) \/ LoseConfirmed(r)
  <2>1. /\ request' = [request EXCEPT ![r] = Served]
        /\ UNCHANGED <<order, revisions, history>>
    BY <1>11 DEF RefuseUpdate, Refuse, EmitConfirmed, LoseConfirmed, orderVars
  <2>2. request \in RequestsIn(OrderOps, Orders, LineSets, OrderRows)
    BY DEF OrdersInv, OrdersTypeOK
  <2>3. /\ request' \in RequestsIn(OrderOps, Orders, LineSets, OrderRows)
        /\ request'[r].pc = "done"
        /\ OthersAfter(r, {})
    BY <2>1, <2>2, RefuseKeeps
  <2>4. OrderKnown(r)'
    BY <2>3 DEF OrderKnown
  <2> QED
    BY <2>1, <2>3, <2>4, OrdersUnwritten
<1> QED
  BY <1>1, <1>2, <1>3, <1>4, <1>5, <1>6, <1>7, <1>8, <1>9, <1>10, <1>11

\* The revisions that are kept of an order are one for each number.
LEMMA OrdersImply ==
    ASSUME OrdersInv
    PROVE  RevisionsAreHistory /\ TotalsOfLines
<1>1. TotalsOfLines
  BY DEF OrdersInv, OrderSound, TotalsOfLines
<1>2. ASSUME NEW o \in Orders
      PROVE  LET kept == {x \in revisions : x.order = o}
             IN  /\ Cardinality(kept) = Cardinality({x.revision : x \in kept})
                 /\ {x.revision : x \in kept} = 1 .. (order[o].revision - 1)
                 /\ \A x \in kept : x.lines = history[o][x.revision]
  <2> DEFINE kept == {x \in revisions : x.order = o}
             numbers == {x.revision : x \in kept}
  <2>1. numbers = 1 .. (order[o].revision - 1)
    <3>1. ASSUME NEW x \in kept
          PROVE  x.revision \in 1 .. (order[o].revision - 1)
      BY DEF OrdersInv, OrdersTypeOK, OrderRows, RevisionsSound
    <3>2. ASSUME NEW n \in 1 .. (order[o].revision - 1)
          PROVE  \E x \in kept : x.revision = n
      BY DEF OrdersInv, RevisionsSound
    <3> QED
      BY <3>1, <3>2
  <2>2. \A x \in kept : x.lines = history[o][x.revision]
    BY DEF OrdersInv, RevisionsSound
  <2>3. \A x, y \in kept : x.revision = y.revision => x = y
    <3>1. \A x \in kept : x = [order |-> o, revision |-> x.revision,
                               lines |-> history[o][x.revision]]
      BY <2>2 DEF OrdersInv, OrdersTypeOK
    <3> QED
      BY <3>1
  <2>4. Cardinality(kept) = Cardinality(numbers)
    <3> DEFINE f == [x \in kept |-> x.revision]
    <3>1. f \in Bijection(kept, numbers)
      BY <2>3 DEF Bijection, Injection, Surjection, IsInjective
    <3>2. IsFiniteSet(numbers)
      <4>1. order[o].revision - 1 \in Int
        BY DEF OrdersInv, OrdersTypeOK, OrderRows
      <4>2. IsFiniteSet(1 .. (order[o].revision - 1))
        BY <4>1, FS_Interval
      <4> QED
        BY <2>1, <4>2
    <3>3. ExistsBijection(kept, numbers)
      BY <3>1 DEF ExistsBijection
    <3>4. ExistsBijection(numbers, kept)
      BY <3>3, Fun_ExistsBijSymmetric
    <3>5. IsFiniteSet(kept)
      BY <3>2, <3>4, FS_Bijection
    <3> QED
      BY <3>2, <3>4, FS_Bijection
  <2> QED
    BY <2>1, <2>2, <2>4
<1> QED
  BY <1>1, <1>2 DEF RevisionsAreHistory

\* A request that confirms, cancels or dispatches moves its order as the life cycle
\* has it, or read the order before its last change.
LEMMA OrderEndMoves ==
    ASSUME OrdersInv, NEW r \in Requests, NEW op, NEW s, AtWrite(r, op),
           <<op, s>> \in {<<"confirm", "CONFIRMED">>, <<"cancel", "CANCELLED">>,
                          <<"dispatch", "DISPATCHED">>},
           order'[request[r].doc].status = s,
           \A p \in Orders : p # request[r].doc => order'[p] = order[p],
           request'[r].pc # "write",
           NEW o \in Orders, order'[o].status # order[o].status
    PROVE  <<order[o].status, order'[o].status>> \in OrderMoves \/ LateWrite(o)
<1>1. request[r].doc = o
  OBVIOUS
<1>2. request[r].pc = "write" /\ request[r].op = op
  BY DEF AtWrite
<1>3. CASE request[r].late
  BY <1>1, <1>2, <1>3 DEF LateWrite
<1>4. CASE ~ request[r].late
  <2>1. /\ order[o].status \in OrderStatuses
        /\ op = "confirm" => order[o].status = "DRAFT"
        /\ op = "cancel" => order[o].status \notin {None, "CANCELLED", "DISPATCHED"}
        /\ op = "dispatch" => order[o].status = "QC_PASSED"
    BY <1>1, <1>2, <1>4 DEF OrdersInv, OrdersTypeOK, OrderKnown, OrderRows
  <2>2. \/ op = "confirm" /\ s = "CONFIRMED"
        \/ op = "cancel" /\ s = "CANCELLED"
        \/ op = "dispatch" /\ s = "DISPATCHED"
    OBVIOUS
  <2>3. order'[o].status = s
    BY <1>1
  <2> QED
    BY <2>1, <2>2, <2>3 DEF OrderMoves, OrderStatuses
<1> QED
  BY <1>3, <1>4

LEMMA OrdersMove ==
    ASSUME OrdersInv, OrdersNext, NEW o \in Orders, order[o] # NoOrder,
           order'[o].status # order[o].status
    PROVE  <<order[o].status, order'[o].status>> \in OrderMoves \/ LateWrite(o)
<1>1. PICK r \in Requests :
        \/ \E p \in Orders, dto \in CreateOrderDto : CreateOrder(r, p, dto)
        \/ UNCHANGED order
        \/ UpdateOrder(r) \/ ConfirmOrder(r) \/ CancelOrder(r) \/ DispatchOrder(r)
  BY DEF OrdersNext, ReadToUpdate, ReadToConfirm, ReadToCancel, ReadToDispatch,
         RefuseUpdate, EmitConfirmed, LoseConfirmed, orderVars
<1>2. order \in [Orders -> OrderRows] /\ order[o] \in OrderRows
  BY DEF OrdersInv, OrdersTypeOK
<1>3. ASSUME NEW p \in Orders, NEW dto \in CreateOrderDto, CreateOrder(r, p, dto)
      PROVE  order'[o] = order[o]
  BY <1>2, <1>3 DEF CreateOrder
<1>4. CASE UNCHANGED order
  BY <1>4
<1>5. CASE UpdateOrder(r)
  <2>1. order'[o].status = order[o].status
    BY <1>2, <1>5 DEF UpdateOrder, OrderRows
  <2> QED
    BY <2>1
<1>6. ASSUME AtWrite(r, "confirm") \/ AtWrite(r, "cancel") \/ AtWrite(r, "dispatch")
      PROVE  request[r].doc \in Orders /\ order[request[r].doc] \in OrderRows
  BY <1>2, <1>6 DEF AtWrite, OrdersInv, OrderKnown
<1>7. Served.pc # "write"
  BY DEF Served, Idle
<1>8. request \in RequestsIn(OrderOps, Orders, LineSets, OrderRows)
  BY DEF OrdersInv, OrdersTypeOK
<1>9. CASE ConfirmOrder(r)
  <2>1. /\ order'[request[r].doc].status = "CONFIRMED"
        /\ \A p \in Orders : p # request[r].doc => order'[p] = order[p]
    BY <1>2, <1>6, <1>9 DEF ConfirmOrder, OrderRows
  <2>2. request'[r].pc # "write"
    BY <1>8, <1>9 DEF ConfirmOrder, Written, WrittenAll, RequestsIn
  <2> QED
    BY <1>9, <2>1, <2>2, OrderEndMoves DEF ConfirmOrder
<1>10. CASE CancelOrder(r)
  <2>1. /\ order'[request[r].doc].status = "CANCELLED"
        /\ \A p \in Orders : p # request[r].doc => order'[p] = order[p]
    BY <1>2, <1>6, <1>10 DEF CancelOrder, OrderRows
  <2>2. request'[r].pc # "write"
    BY <1>7, <1>10 DEF CancelOrder, Written, WrittenAll
  <2> QED
    BY <1>10, <2>1, <2>2, OrderEndMoves DEF CancelOrder
<1>11. CASE DispatchOrder(r)
  <2>1. /\ order'[request[r].doc].status = "DISPATCHED"
        /\ \A p \in Orders : p # request[r].doc => order'[p] = order[p]
    BY <1>2, <1>6, <1>11 DEF DispatchOrder, OrderRows
  <2>2. request'[r].pc # "write"
    BY <1>7, <1>11 DEF DispatchOrder, Written, WrittenAll
  <2> QED
    BY <1>11, <2>1, <2>2, OrderEndMoves DEF DispatchOrder
<1> QED
  BY <1>1, <1>3, <1>4, <1>5, <1>9, <1>10, <1>11

-----------------------------------------------------------------------------
(* Purchase orders.                                                        *)

PosOps == PoOps \cup {"createPo", "editPo"}

PoRows ==
    [status : PoStatuses \cup {None}, number : Nat, qty : Nat, rate : Nat, amount : Nat,
     overtaken : BOOLEAN, partly : BOOLEAN]

Counts == [number : Nat]

PoLineDtos == CreatePoLineDto \cup UpdatePoLineDto

PosTypeOK ==
    /\ po \in [Pos -> PoRows]
    /\ request \in RequestsIn(PosOps, Pos \cup {"purchase_orders"}, PoLineDtos,
                              PoRows \cup Counts)

\* The amount of a line that was given whole is its quantity times its rate.
PoSound(p) ==
    /\ po[p].status = None => po[p] = NoPo
    /\ ~ po[p].partly => po[p].amount = po[p].qty * po[p].rate

\* Numbers do not exceed the orders there are, so that a count that is not old
\* gives a new one.
PoNumbersSound ==
    /\ IsFiniteSet(Present)
    /\ \A p \in Present : po[p].number <= Cardinality(Present)
    /\ PoNumbersDistinct

PoKnown(r) ==
    request[r].pc = "write" =>
      LET was == request[r].was
          p   == request[r].doc
      IN  /\ request[r].op \in PosOps
          /\ request[r].op = "createPo" =>
               /\ p = "purchase_orders"
               /\ request[r].dto \in CreatePoLineDto
               /\ was \in Counts /\ was.number <= Cardinality(Present) + 1
               /\ ~ request[r].late => was.number = Cardinality(Present) + 1
          /\ request[r].op # "createPo" =>
               /\ p \in Pos /\ po[p].status # None
               /\ was \in PoRows
               /\ ~ request[r].late => was = po[p]
          /\ request[r].op = "editPo" =>
               /\ request[r].dto \in UpdatePoLineDto
               /\ request[r].dto.line \in Pos /\ po[request[r].dto.line].status # None
               /\ was.status = "DRAFT"
          /\ request[r].op \in PoOps => MayMove(request[r].op, was.status)

PosInv ==
    /\ PosTypeOK
    /\ \A p \in Pos : PoSound(p)
    /\ PoNumbersSound
    /\ \A r \in Requests : PoKnown(r)

LEMMA NoPoFields ==
    /\ NoPo \in PoRows /\ NoPo.status = None /\ NoPo.partly = FALSE
    /\ NoPo.qty = 0 /\ NoPo.rate = 0 /\ NoPo.amount = 0 /\ NoPo.number = 0
BY DEF NoPo, PoRows

\* The orders there are are those with a status.
LEMMA PresentHaveStatus ==
    ASSUME po \in [Pos -> PoRows], \A p \in Pos : PoSound(p)
    PROVE  Present = {p \in Pos : po[p].status # None}
BY NoPoFields DEF Present, PoSound

LEMMA PosStart ==
    ASSUME HandlersInit, PosInit \/ po = [p \in Pos |-> NoPo]
    PROVE  PosInv
<1>1. request \in RequestsIn(PosOps, Pos \cup {"purchase_orders"}, PoLineDtos,
                             PoRows \cup Counts)
      /\ \A r \in Requests : request[r].pc = "idle"
  BY RequestsStart
<1>2. \A r \in Requests : PoKnown(r)
  BY <1>1 DEF PoKnown
<1>3. CASE po = [p \in Pos |-> NoPo]
  <2>1. po \in [Pos -> PoRows] /\ \A p \in Pos : PoSound(p)
    BY <1>3, NoPoFields DEF PoSound
  <2>2. Present = {}
    BY <1>3 DEF Present
  <2>3. PoNumbersSound
    BY <2>2, FS_EmptySet DEF PoNumbersSound, PoNumbersDistinct
  <2> QED
    BY <1>1, <1>2, <2>1, <2>3 DEF PosInv, PosTypeOK
<1>4. CASE PosInit
  <2>1. PICK p \in Pos, s \in LoadedPos \cup {None}, v \in PoValues :
          po = [x \in Pos |-> IF x = p /\ s # None THEN NewPo(s, 1, v, v, FALSE) ELSE NoPo]
    BY <1>4 DEF PosInit
  <2>2. CASE s = None
    BY <1>3, <2>1, <2>2
  <2>3. CASE s # None
    <3>1. PICK row : row = NewPo(s, 1, v, v, FALSE)
      OBVIOUS
    <3>2. /\ row \in PoRows /\ row.status # None /\ row.number = 1
          /\ row.qty = v /\ row.rate = v /\ row.amount = v * v
      <4>1. s \in PoStatuses /\ v \in Nat
        BY <2>3, PosAssumption
      <4>2. PICK a \in Nat : a = v * v
        BY <4>1
      <4>3. row = [NoPo EXCEPT !.status = s, !.number = 1, !.qty = v, !.rate = v,
                               !.amount = a, !.overtaken = FALSE]
        BY <3>1, <4>2 DEF NewPo
      <4> QED
        BY <2>3, <4>1, <4>2, <4>3, NoPoFields DEF PoRows
    <3>3. po = [x \in Pos |-> IF x = p THEN row ELSE NoPo]
      BY <2>1, <2>3, <3>1
    <3>4. po \in [Pos -> PoRows] /\ \A x \in Pos : PoSound(x)
      BY <3>2, <3>3, NoPoFields DEF PoSound
    <3>5. Present = {p}
      BY <3>2, <3>3, NoPoFields DEF Present
    <3>6. IsFiniteSet(Present) /\ Cardinality(Present) = 1
      BY <3>5, FS_Singleton
    <3>7. PoNumbersSound
      BY <3>2, <3>3, <3>5, <3>6 DEF PoNumbersSound, PoNumbersDistinct
    <3> QED
      BY <1>1, <1>2, <3>4, <3>7 DEF PosInv, PosTypeOK
  <2> QED
    BY <2>2, <2>3
<1> QED
  BY <1>3, <1>4

\* What another request knows stays true while the orders there are stay, and one
\* whose row changes makes the copies of it old.
LEMMA PoUnwritten ==
    ASSUME PosInv, NEW r \in Requests, po' = po,
           request' \in RequestsIn(PosOps, Pos \cup {"purchase_orders"}, PoLineDtos,
                                   PoRows \cup Counts),
           OthersAfter(r, {}), PoKnown(r)'
    PROVE  PosInv'
<1>1. Present' = Present
  BY DEF Present
<1>2. ASSUME NEW q \in Requests
      PROVE  PoKnown(q)'
  <2>1. CASE q = r
    BY <2>1
  <2>2. CASE q # r
    <3>1. Same(q) /\ (request[q].late => request'[q].late)
      BY <2>2 DEF OthersAfter
    <3> QED
      BY <1>1, <3>1 DEF PosInv, PoKnown, Same
  <2> QED
    BY <2>1, <2>2
<1> QED
  BY <1>1, <1>2 DEF PosInv, PosTypeOK, PoSound, PoNumbersSound, PoNumbersDistinct

LEMMA PoRowWritten ==
    ASSUME PosInv, NEW r \in Requests, NEW p \in Pos,
           po[p].status # None, po' \in [Pos -> PoRows],
           \A x \in Pos \ {p} : po'[x] = po[x],
           po'[p].status # None, po'[p].number = po[p].number,
           po'[p].overtaken = po[p].overtaken,
           ~ po'[p].partly => po'[p].amount = po'[p].qty * po'[p].rate,
           request' \in RequestsIn(PosOps, Pos \cup {"purchase_orders"}, PoLineDtos,
                                   PoRows \cup Counts),
           OthersAfter(r, {p}), request'[r].pc # "write"
    PROVE  PosInv'
<1>1. \A x \in Pos : PoSound(x)'
  BY DEF PosInv, PoSound
<1>2. Present' = Present
  <2>1. Present = {x \in Pos : po[x].status # None}
    BY PresentHaveStatus DEF PosInv, PosTypeOK
  <2>2. po'[p] # NoPo /\ po[p] # NoPo
    BY NoPoFields
  <2> QED
    BY <2>2 DEF Present
<1>3. PoNumbersSound'
  <2>1. \A x \in Present : po'[x].number = po[x].number /\ po'[x].overtaken = po[x].overtaken
    BY DEF Present
  <2> QED
    BY <1>2, <2>1 DEF PosInv, PoNumbersSound, PoNumbersDistinct
<1>4. ASSUME NEW q \in Requests
      PROVE  PoKnown(q)'
  <2>1. CASE q = r
    BY <2>1 DEF PoKnown
  <2>2. CASE q # r
    <3>1. Same(q) /\ (request[q].late => request'[q].late)
          /\ ((request[q].pc = "write" /\ request[q].doc = p) => request'[q].late)
      BY <2>2 DEF OthersAfter
    <3>2. PoKnown(q)
      BY DEF PosInv
    <3>3. \A x \in Pos : po[x].status # None => po'[x].status # None
      OBVIOUS
    <3> QED
      BY <1>2, <3>1, <3>2, <3>3 DEF PoKnown, Same
  <2> QED
    BY <2>1, <2>2
<1> QED
  BY <1>1, <1>3, <1>4 DEF PosInv, PosTypeOK

LEMMA CountPosKeeps ==
    ASSUME PosInv, NEW r \in Requests, NEW dto \in CreatePoLineDto, CountPos(r, dto)
    PROVE  PosInv'
<1>1. Cardinality(Present) \in Nat
  BY FS_CardinalityType DEF PosInv, PoNumbersSound
<1>2. PICK was \in Counts : was = [number |-> Cardinality(Present) + 1]
  <2>1. PICK n \in Nat : n = Cardinality(Present) + 1
    BY <1>1
  <2>2. [number |-> n] \in Counts
    BY DEF Counts
  <2> QED
    BY <2>1, <2>2
<1>3. was.number = Cardinality(Present) + 1
  BY <1>2
<1>4. dto \in PoLineDtos
  BY DEF PoLineDtos
<1>5. request \in RequestsIn(PosOps, Pos \cup {"purchase_orders"}, PoLineDtos,
                             PoRows \cup Counts)
  BY DEF PosInv, PosTypeOK
<1>6. Read(r, "createPo", "purchase_orders", dto, was) /\ po' = po
  BY <1>2 DEF CountPos
<1>7. "createPo" \in PosOps /\ "createPo" \notin PoOps
  BY DEF PosOps, PoOps
<1>8. request' \in RequestsIn(PosOps, Pos \cup {"purchase_orders"}, PoLineDtos,
                              PoRows \cup Counts)
  BY <1>4, <1>5, <1>6, <1>7 DEF RequestsIn, Read
<1>9. /\ request'[r].op = "createPo" /\ request'[r].doc = "purchase_orders"
      /\ request'[r].dto = dto /\ request'[r].was = was
      /\ OthersAfter(r, {})
  BY <1>5, <1>6 DEF RequestsIn, Read, OthersAfter, Same
<1>10. Present' = Present
  BY <1>6 DEF Present
<1>11. PoKnown(r)'
  BY <1>1, <1>3, <1>7, <1>9, <1>10 DEF PoKnown
<1> QED
  BY <1>6, <1>8, <1>9, <1>11, PoUnwritten

\* Reading an order to edit it, or to move it on.
LEMMA PoReadKeeps ==
    ASSUME PosInv, NEW r \in Requests, NEW p \in Pos, NEW op \in PosOps, op # "createPo",
           NEW dto \in UpdatePoLineDto \cup {None}, Read(r, op, p, dto, po[p]), po' = po,
           op = "editPo" =>
             dto \in UpdatePoLineDto /\ po[dto.line] # NoPo /\ po[p].status = "DRAFT",
           op \in PoOps => MayMove(op, po[p].status)
    PROVE  PosInv'
<1>1. po[p] \in PoRows /\ po[p].status # None
  <2>1. None \notin {"DRAFT", "SENT", "ACKNOWLEDGED", "PART_RECEIVED"}
    BY PosAssumption DEF PoStatuses
  <2> QED
    BY <2>1 DEF PosInv, PosTypeOK, PosOps, PoOps, MayMove
<1>2. request \in RequestsIn(PosOps, Pos \cup {"purchase_orders"}, PoLineDtos,
                             PoRows \cup Counts)
  BY DEF PosInv, PosTypeOK
<1>3. request' \in RequestsIn(PosOps, Pos \cup {"purchase_orders"}, PoLineDtos,
                              PoRows \cup Counts)
  <2>1. dto \in PoLineDtos \cup {None}
    BY DEF PoLineDtos
  <2> QED
    BY <1>1, <1>2, <2>1 DEF RequestsIn, Read
<1>4. /\ request'[r].op = op /\ request'[r].doc = p
      /\ request'[r].dto = dto /\ request'[r].was = po[p]
      /\ OthersAfter(r, {})
  BY <1>2 DEF RequestsIn, Read, OthersAfter, Same
<1>5. op = "editPo" => dto.line \in Pos /\ po[dto.line].status # None
  BY DEF UpdatePoLineDto, PosInv, PoSound
<1>6. PoKnown(r)'
  BY <1>1, <1>4, <1>5 DEF PoKnown
<1> QED
  BY <1>3, <1>4, <1>6, PoUnwritten

LEMMA InsertPoKeeps ==
    ASSUME PosInv, NEW r \in Requests, NEW p \in Pos, InsertPo(r, p)
    PROVE  PosInv'
<1>1. /\ request[r].dto \in CreatePoLineDto /\ request[r].was \in Counts
      /\ request[r].was.number <= Cardinality(Present) + 1
      /\ ~ request[r].late => request[r].was.number = Cardinality(Present) + 1
      /\ request[r].doc = "purchase_orders"
      /\ request[r].late \in BOOLEAN
  BY DEF PosInv, PosTypeOK, PoKnown, InsertPo, AtWrite, RequestsIn
<1>2. PICK n \in Nat : n = request[r].was.number
  BY <1>1 DEF Counts
<1>3. PICK q \in PoValues, v \in PoValues : q = request[r].dto.qty /\ v = request[r].dto.rate
  BY <1>1 DEF CreatePoLineDto
<1>4. PICK late \in BOOLEAN : late = request[r].late
  BY <1>1
<1>5. q \in Nat /\ v \in Nat /\ "DRAFT" \in PoStatuses /\ "DRAFT" # None
  BY PosAssumption DEF PoStatuses
<1>6. PICK a \in Nat : a = q * v
  BY <1>5
<1>7. /\ po'[p] = [NoPo EXCEPT !.status = "DRAFT", !.number = n, !.qty = q, !.rate = v,
                               !.amount = a, !.overtaken = late]
      /\ \A x \in Pos \ {p} : po'[x] = po[x]
      /\ po' = [x \in Pos |-> po'[x]]
  BY <1>2, <1>3, <1>4, <1>6 DEF InsertPo, NewPo, PosInv, PosTypeOK
<1>8. /\ po'[p] \in PoRows /\ po'[p].status = "DRAFT" /\ po'[p].number = n
      /\ po'[p].qty = q /\ po'[p].rate = v /\ po'[p].amount = a
      /\ po'[p].overtaken = late
  BY <1>5, <1>7, NoPoFields DEF PoRows
<1>9. po' \in [Pos -> PoRows]
  <2>1. \A x \in Pos : po'[x] \in PoRows
    BY <1>7, <1>8 DEF PosInv, PosTypeOK
  <2> QED
    BY <1>7, <2>1
<1>10. ASSUME NEW x \in Pos
       PROVE  PoSound(x)'
  <2>1. CASE x = p
    BY <1>5, <1>6, <1>8, <2>1 DEF PoSound
  <2>2. CASE x # p
    BY <1>7, <2>2 DEF PosInv, PoSound
  <2> QED
    BY <2>1, <2>2
<1>11. po[p].status = None /\ p \notin Present
  BY NoPoFields DEF InsertPo, Present
<1>12. Present' = Present \cup {p}
  <2>1. po'[p] # NoPo
    BY <1>5, <1>8, NoPoFields
  <2> QED
    BY <1>7, <2>1 DEF Present
<1>13. /\ IsFiniteSet(Present') /\ Cardinality(Present') = Cardinality(Present) + 1
       /\ Cardinality(Present) \in Nat
  <2>1. IsFiniteSet(Present)
    BY DEF PosInv, PoNumbersSound
  <2> QED
    BY <1>11, <1>12, <2>1, FS_AddElement, FS_CardinalityType
<1>14. ASSUME NEW x \in Present
       PROVE  x # p /\ x \in Pos /\ po'[x] = po[x] /\ po[x].number \in Nat
              /\ po[x].number <= Cardinality(Present)
  BY <1>7, <1>11 DEF PosInv, PosTypeOK, PoRows, PoNumbersSound, Present
<1>15. PoNumbersSound'
  <2>1. \A x \in Present' : po'[x].number <= Cardinality(Present')
    BY <1>1, <1>2, <1>8, <1>12, <1>13, <1>14
  <2>2. ASSUME NEW x \in Present', NEW y \in Present', x # y, po'[x].number = po'[y].number
        PROVE  po'[x].overtaken \/ po'[y].overtaken
    <3>1. CASE x \in Present /\ y \in Present
      BY <1>14, <2>2, <3>1 DEF PosInv, PoNumbersSound, PoNumbersDistinct
    <3>2. CASE x = p \/ y = p
      <4>1. n <= Cardinality(Present)
        BY <1>8, <1>12, <1>14, <2>2, <3>2
      <4>2. late
        BY <1>1, <1>2, <1>4, <1>13, <4>1
      <4> QED
        BY <1>8, <3>2, <4>2
    <3> QED
      BY <1>12, <3>1, <3>2
  <2> QED
    BY <1>13, <2>1, <2>2 DEF PoNumbersSound, PoNumbersDistinct
<1>16. /\ request' \in RequestsIn(PosOps, Pos \cup {"purchase_orders"}, PoLineDtos,
                                  PoRows \cup Counts)
       /\ OthersAfter(r, {"purchase_orders"}) /\ request'[r].pc = "done"
  <2>1. request \in RequestsIn(PosOps, Pos \cup {"purchase_orders"}, PoLineDtos,
                               PoRows \cup Counts)
        /\ Written(r, Served)
    BY DEF PosInv, PosTypeOK, InsertPo
  <2> QED
    BY <1>1, <2>1, WriteServes
<1>17. ASSUME NEW z \in Requests
       PROVE  PoKnown(z)'
  <2>1. CASE z = r
    BY <1>16, <2>1 DEF PoKnown
  <2>2. CASE z # r
    <3>1. /\ Same(z) /\ (request[z].late => request'[z].late)
          /\ (request[z].pc = "write" /\ request[z].doc = "purchase_orders") => request'[z].late
      BY <1>16, <2>2 DEF OthersAfter
    <3>2. PoKnown(z)
      BY DEF PosInv
    <3>3. ASSUME request[z].pc = "write", request[z].op = "createPo"
          PROVE  request[z].was.number <= Cardinality(Present') + 1
      <4>1. request[z].was.number \in Nat
            /\ request[z].was.number <= Cardinality(Present) + 1
        BY <3>2, <3>3 DEF PoKnown, Counts
      <4> QED
        BY <1>13, <4>1
    <3>4. ASSUME request[z].pc = "write", request[z].op # "createPo"
          PROVE  request[z].doc \in Pos /\ po'[request[z].doc] = po[request[z].doc]
      BY <1>7, <1>11, <3>2, <3>4 DEF PoKnown
    <3>5. \A x \in Pos : po[x].status # None => po'[x].status # None
      BY <1>7, <1>11
    <3> QED
      BY <3>1, <3>2, <3>3, <3>4, <3>5 DEF PoKnown, Same
  <2> QED
    BY <2>1, <2>2
<1> QED
  BY <1>9, <1>10, <1>15, <1>16, <1>17 DEF PosInv, PosTypeOK

LEMMA EditLinesKeeps ==
    ASSUME PosInv, NEW r \in Requests, EditLines(r)
    PROVE  PosInv'
<1>1. PICK p \in Pos : p = request[r].dto.line
  BY DEF PosInv, PoKnown, EditLines, AtWrite
<1>2. PICK dto \in UpdatePoLineDto : dto = request[r].dto
  BY DEF PosInv, PoKnown, EditLines, AtWrite
<1>3. po[p] \in PoRows /\ po[p].status # None /\ PoSound(p)
  BY <1>1 DEF PosInv, PosTypeOK, PoKnown, EditLines, AtWrite
<1>4. /\ dto.qty # None => dto.qty \in Nat
      /\ dto.rate # None => dto.rate \in Nat
      /\ po[p].qty \in Nat /\ po[p].rate \in Nat /\ po[p].amount \in Nat
      /\ po[p].partly \in BOOLEAN
  BY <1>3, PosAssumption DEF UpdatePoLineDto, PoRows
<1>5. PICK qty \in Nat : qty = OrElse(dto.qty, po[p].qty)
  BY <1>4 DEF OrElse
<1>6. PICK rate \in Nat : rate = OrElse(dto.rate, po[p].rate)
  BY <1>4 DEF OrElse
<1>7. PICK amount \in Nat : amount = EditedAmount(po[p], dto)
  <2>1. CASE dto.qty = None
    BY <1>4, <2>1 DEF EditedAmount
  <2>2. CASE dto.qty # None /\ dto.rate = None
    <3>1. EditedAmount(po[p], dto) = 0
      BY <1>4, <2>2 DEF EditedAmount, OrElse
    <3> QED
      BY <3>1
  <2>3. CASE dto.qty # None /\ dto.rate # None
    <3>1. dto.qty * dto.rate \in Nat
      BY <1>4, <2>3
    <3> QED
      BY <2>3, <3>1 DEF EditedAmount, OrElse
  <2> QED
    BY <2>1, <2>2, <2>3
<1>8. PICK partly \in BOOLEAN :
        partly = (Partial(dto) \/ (po[p].partly /\ dto.qty = None))
  OBVIOUS
<1>9. /\ \A x \in Pos \ {p} : po'[x] = po[x]
      /\ po' = [x \in Pos |-> po'[x]]
  BY <1>1 DEF EditLines, PosInv, PosTypeOK
<1>10. /\ po'[p] \in PoRows /\ po'[p].status = po[p].status
       /\ po'[p].number = po[p].number /\ po'[p].overtaken = po[p].overtaken
       /\ po'[p].qty = qty /\ po'[p].rate = rate /\ po'[p].amount = amount
       /\ po'[p].partly = partly
  <2> DEFINE d == request[r].dto.line
             sent == request[r].dto
  <2>1. po'[d] = [po[d] EXCEPT !.qty = OrElse(sent.qty, @), !.rate = OrElse(sent.rate, @),
                               !.amount = EditedAmount(po[d], sent),
                               !.partly = Partial(sent) \/ (@ /\ sent.qty = None)]
    <3>1. DOMAIN po = Pos /\ d \in Pos
      BY <1>1 DEF PosInv, PosTypeOK
    <3> QED
      BY <3>1 DEF EditLines
  <2>2. /\ OrElse(sent.qty, po[d].qty) = qty /\ OrElse(sent.rate, po[d].rate) = rate
        /\ EditedAmount(po[d], sent) = amount
        /\ partly = (Partial(sent) \/ (po[d].partly /\ sent.qty = None))
    BY <1>1, <1>2, <1>5, <1>6, <1>7, <1>8
  <2>3. po[d] \in PoRows
    BY <1>1, <1>3
  <2> HIDE DEF d, sent
  <2>4. /\ po'[d] \in PoRows /\ po'[d].status = po[d].status
        /\ po'[d].number = po[d].number /\ po'[d].overtaken = po[d].overtaken
        /\ po'[d].qty = qty /\ po'[d].rate = rate /\ po'[d].amount = amount
        /\ po'[d].partly = partly
    BY <2>1, <2>2, <2>3 DEF PoRows
  <2> QED
    BY <1>1, <2>4 DEF d
<1>11. po' \in [Pos -> PoRows]
  <2>1. \A x \in Pos : po'[x] \in PoRows
    BY <1>9, <1>10 DEF PosInv, PosTypeOK
  <2> QED
    BY <1>9, <2>1
<1>12. ~ partly => amount = qty * rate
  <2>1. CASE dto.qty = None /\ dto.rate = None
    BY <1>3, <1>5, <1>6, <1>7, <1>8, <2>1 DEF OrElse, EditedAmount, PoSound
  <2>2. CASE dto.qty # None /\ dto.rate # None
    BY <1>5, <1>6, <1>7, <2>2 DEF OrElse, EditedAmount
  <2>3. CASE (dto.qty = None) # (dto.rate = None)
    BY <1>8, <2>3 DEF Partial
  <2> QED
    BY <2>1, <2>2, <2>3
<1>13. /\ request' \in RequestsIn(PosOps, Pos \cup {"purchase_orders"}, PoLineDtos,
                                  PoRows \cup Counts)
       /\ OthersAfter(r, {p}) /\ request'[r].pc = "done"
  <2>1. request \in RequestsIn(PosOps, Pos \cup {"purchase_orders"}, PoLineDtos,
                               PoRows \cup Counts)
        /\ WrittenAll(r, {p}, Served)
    BY <1>1 DEF PosInv, PosTypeOK, EditLines
  <2> QED
    BY <2>1, ServedFields, WriteKeeps
<1> QED
  BY <1>3, <1>9, <1>10, <1>11, <1>12, <1>13, PoRowWritten

LEMMA MovePoKeeps ==
    ASSUME PosInv, NEW r \in Requests, MovePo(r)
    PROVE  PosInv'
<1>1. "createPo" \notin PoOps
  BY DEF PoOps
<1>2. PICK p \in Pos : p = request[r].doc
  BY <1>1 DEF PosInv, PoKnown, MovePo
<1>3. po[p] \in PoRows /\ po[p].status # None /\ PoSound(p)
  BY <1>1, <1>2 DEF PosInv, PosTypeOK, PoKnown, MovePo
<1>4. PICK s \in PoStatuses : s = NextStatus(request[r].op)
  BY DEF MovePo, PoOps, NextStatus, PoStatuses
<1>5. /\ po'[p] = [po[p] EXCEPT !.status = s]
      /\ \A x \in Pos \ {p} : po'[x] = po[x]
      /\ po' = [x \in Pos |-> po'[x]]
  BY <1>2, <1>4 DEF MovePo, PosInv, PosTypeOK
<1>6. /\ po'[p] \in PoRows /\ po'[p].status = s /\ s # None
      /\ po'[p].number = po[p].number /\ po'[p].overtaken = po[p].overtaken
      /\ po'[p].qty = po[p].qty /\ po'[p].rate = po[p].rate
      /\ po'[p].amount = po[p].amount /\ po'[p].partly = po[p].partly
  BY <1>3, <1>5, PosAssumption DEF PoRows
<1>7. po' \in [Pos -> PoRows]
  <2>1. \A x \in Pos : po'[x] \in PoRows
    BY <1>5, <1>6 DEF PosInv, PosTypeOK
  <2> QED
    BY <1>5, <2>1
<1>8. /\ request' \in RequestsIn(PosOps, Pos \cup {"purchase_orders"}, PoLineDtos,
                                 PoRows \cup Counts)
      /\ OthersAfter(r, {p}) /\ request'[r].pc = "done"
  <2>1. request \in RequestsIn(PosOps, Pos \cup {"purchase_orders"}, PoLineDtos,
                               PoRows \cup Counts)
        /\ Written(r, Served)
    BY DEF PosInv, PosTypeOK, MovePo
  <2> QED
    BY <1>2, <2>1, WriteServes
<1>9. ~ po'[p].partly => po'[p].amount = po'[p].qty * po'[p].rate
  BY <1>3, <1>6 DEF PoSound
<1> QED
  BY <1>3, <1>5, <1>6, <1>7, <1>8, <1>9, PoRowWritten

LEMMA PosStep ==
    ASSUME PosInv, PosNext
    PROVE  PosInv'
<1>1. PICK r \in Requests :
        \/ \E dto \in CreatePoLineDto : CountPos(r, dto)
        \/ \E p \in Pos :
             \/ InsertPo(r, p)
             \/ \E dto \in UpdatePoLineDto : ReadToEdit(r, p, dto)
             \/ \E op \in PoOps : ReadToMove(r, p, op)
        \/ EditLines(r)
        \/ MovePo(r)
  BY DEF PosNext
<1>2. ASSUME NEW dto \in CreatePoLineDto, CountPos(r, dto)
      PROVE  PosInv'
  BY <1>2, CountPosKeeps
<1>3. ASSUME NEW p \in Pos, InsertPo(r, p)
      PROVE  PosInv'
  BY <1>3, InsertPoKeeps
<1>4. ASSUME NEW p \in Pos, NEW dto \in UpdatePoLineDto, ReadToEdit(r, p, dto)
      PROVE  PosInv'
  <2>1. "editPo" \in PosOps /\ "editPo" \notin PoOps
    BY DEF PosOps, PoOps
  <2> QED
    BY <1>4, <2>1, PoReadKeeps DEF ReadToEdit
<1>5. ASSUME NEW p \in Pos, NEW op \in PoOps, ReadToMove(r, p, op)
      PROVE  PosInv'
  <2>1. op \in PosOps /\ op # "createPo" /\ op # "editPo"
    BY DEF PosOps, PoOps
  <2> QED
    BY <1>5, <2>1, PoReadKeeps DEF ReadToMove
<1> QED
  BY <1>1, <1>2, <1>3, <1>4, <1>5, EditLinesKeeps, MovePoKeeps

LEMMA PosImply ==
    ASSUME PosInv
    PROVE  AmountsOfLines /\ PoNumbersDistinct
BY DEF PosInv, PoSound, PoNumbersSound, AmountsOfLines, Present

\* Whoever changes an order that is there moves it as the life cycle has it, and
\* its line only while it is a draft, or read it before its last change, or reads
\* another order and names this one's line.
LEMMA PosMove ==
    ASSUME PosInv, PosNext, NEW p \in Pos, po[p] # NoPo
    PROVE  /\ po'[p].status # po[p].status =>
                LateWrite(p) \/ <<po[p].status, po'[p].status>> \in PoMoves
           /\ Line(po'[p]) # Line(po[p]) =>
                LateWrite(p) \/ EditElsewhere(p) \/ po[p].status = "DRAFT"
<1>1. PICK r \in Requests :
        \/ \E x \in Pos : InsertPo(r, x)
        \/ po' = po
        \/ EditLines(r) \/ MovePo(r)
  BY DEF PosNext, CountPos, ReadToEdit, ReadToMove
<1>2. po \in [Pos -> PoRows] /\ po[p] \in PoRows /\ po[p].status \in PoStatuses
  BY DEF PosInv, PosTypeOK, PoSound, PoRows
<1>3. CASE \E x \in Pos : InsertPo(r, x)
  <2>1. po'[p] = po[p]
    BY <1>2, <1>3 DEF InsertPo
  <2> QED
    BY <2>1
<1>4. CASE po' = po
  BY <1>4
<1>5. Served.pc # "write" /\ "createPo" \notin PoOps /\ "editPo" \notin PoOps
  BY DEF Served, Idle, PoOps
<1>6. CASE EditLines(r)
  <2>1. /\ request[r].pc = "write" /\ request[r].op = "editPo" /\ request'[r].pc # "write"
        /\ \A x \in Pos : x # request[r].dto.line => po'[x] = po[x]
        /\ po'[p].status = po[p].status
    BY <1>2, <1>5, <1>6 DEF EditLines, AtWrite, WrittenAll, PoRows
  <2>2. CASE request[r].dto.line # p
    BY <2>1, <2>2
  <2>3. CASE request[r].dto.line = p /\ request[r].doc # p
    BY <2>1, <2>3 DEF EditElsewhere, AtWrite
  <2>4. CASE request[r].doc = p /\ request[r].late
    BY <2>1, <2>4 DEF LateWrite
  <2>5. CASE request[r].doc = p /\ ~ request[r].late
    <3>1. po[p].status = "DRAFT"
      BY <2>1, <2>5 DEF PosInv, PoKnown
    <3> QED
      BY <2>1, <3>1
  <2> QED
    BY <2>2, <2>3, <2>4, <2>5
<1>7. CASE MovePo(r)
  <2>1. /\ request[r].pc = "write" /\ request[r].op \in PoOps /\ request'[r].pc # "write"
        /\ \A x \in Pos : x # request[r].doc => po'[x] = po[x]
    BY <1>2, <1>5, <1>7 DEF MovePo, Written, WrittenAll
  <2>2. CASE request[r].doc # p
    BY <2>1, <2>2
  <2>3. CASE request[r].doc = p /\ request[r].late
    BY <2>1, <2>3 DEF LateWrite
  <2>4. CASE request[r].doc = p /\ ~ request[r].late
    <3>1. MayMove(request[r].op, po[p].status)
      BY <1>5, <2>1, <2>4 DEF PosInv, PoKnown
    <3>2. /\ po'[p].status = NextStatus(request[r].op)
          /\ po'[p].qty = po[p].qty /\ po'[p].rate = po[p].rate /\ po'[p].amount = po[p].amount
      BY <1>2, <1>7, <2>4 DEF MovePo, PoRows
    <3>3. <<po[p].status, NextStatus(request[r].op)>> \in PoMoves
      BY <1>2, <2>1, <3>1 DEF MayMove, NextStatus, PoOps, PoMoves, PoStatuses
    <3> QED
      BY <3>2, <3>3 DEF Line
  <2> QED
    BY <2>2, <2>3, <2>4
<1> QED
  BY <1>1, <1>3, <1>4, <1>6, <1>7

-----------------------------------------------------------------------------
(* Cut orders and line plans.                                              *)

WorkStatuses == CutOrderStatus \cup LinePlanStatus

WorkRows ==
    [status : WorkStatuses \cup {None}, year : Nat, number : Nat,
     figures : Figures \cup {None}]

CutCounts == [number : Nat, year : Nat]

WorkDtos == [status : WorkStatuses \cup {None}, figures : Figures \cup {None}]

WorkRequests ==
    RequestsIn({"createCut", "updateWork"}, Cuts \cup Plans \cup {"cut_orders"}, WorkDtos,
               WorkRows \cup CutCounts)

WorkTypeOK ==
    /\ work \in [Cuts \cup Plans -> WorkRows]
    /\ request \in WorkRequests
    /\ year \in Nat

WorkSound(d) ==
    work[d] # NoWork => work[d].status \in Statuses(d) /\ (d \in Cuts => work[d].number > 0)

WorkKnown(r) ==
    request[r].pc = "write" =>
      LET was == request[r].was
          d   == request[r].doc
          dto == request[r].dto
      IN  /\ request[r].op \in {"createCut", "updateWork"}
          /\ request[r].op = "createCut" =>
               /\ d = "cut_orders"
               /\ was \in CutCounts /\ was.number \in 1 .. (Cardinality(CutsThereAre) + 1)
          /\ request[r].op = "updateWork" =>
               /\ d \in Cuts \cup Plans /\ work[d] # NoWork
               /\ dto \in WorkDtos /\ was \in WorkRows
               /\ was.status \notin Finished
               /\ dto.status # None => <<was.status, dto.status>> \in Moves(d)
               /\ ~ request[r].late => was = work[d]

WorkInv ==
    /\ WorkTypeOK
    /\ \A d \in Cuts \cup Plans : WorkSound(d)
    /\ IsFiniteSet(CutsThereAre) /\ CutNumbersContiguous
    /\ \A r \in Requests : WorkKnown(r)

LEMMA WorkNames ==
    /\ None \notin WorkStatuses /\ None \notin Figures
    /\ \A d : Statuses(d) \subseteq WorkStatuses
    /\ \A d, s, t : <<s, t>> \in Moves(d) => t \in Statuses(d)
    /\ NoWork \in WorkRows /\ NoWork.status = None /\ NoWork.number = 0
<1>1. None \notin WorkStatuses /\ None \notin Figures
  BY ProductionAssumption DEF WorkStatuses
<1>2. \A d : Statuses(d) \subseteq WorkStatuses
  BY DEF Statuses, WorkStatuses
<1>3. \A d, s, t : <<s, t>> \in Moves(d) => t \in Statuses(d)
  BY DEF Moves, CutMoves, PlanMoves, Statuses, CutOrderStatus, LinePlanStatus
<1>4. NoWork \in WorkRows /\ NoWork.status = None /\ NoWork.number = 0
  BY DEF NoWork, WorkRows
<1> QED
  BY <1>1, <1>2, <1>3, <1>4

LEMMA WorkStart ==
    ASSUME HandlersInit, ProductionInit
    PROVE  WorkInv
<1>1. /\ request \in WorkRequests /\ \A r \in Requests : request[r].pc = "idle"
      /\ year \in Nat
  BY RequestsStart DEF WorkRequests, ProductionInit
<1>2. \A r \in Requests : WorkKnown(r)
  BY <1>1 DEF WorkKnown
<1>3. CASE work = [d \in Cuts \cup Plans |-> NoWork]
  <2>1. CutsThereAre = {}
    BY <1>3 DEF CutsThereAre
  <2>2. IsFiniteSet(CutsThereAre) /\ Cardinality(CutsThereAre) = 0
    BY <2>1, FS_EmptySet
  <2>3. CutNumbersContiguous
    BY <2>1, <2>2 DEF CutNumbersContiguous
  <2> QED
    BY <1>1, <1>2, <1>3, <2>2, <2>3, WorkNames DEF WorkInv, WorkTypeOK, WorkSound
<1>4. CASE work # [d \in Cuts \cup Plans |-> NoWork]
  <2>1. PICK d \in Cuts \cup Plans : \E s \in Statuses(d), f \in Figures :
          work = [x \in Cuts \cup Plans |->
                    IF x = d THEN [status |-> s, figures |-> f, year |-> 0,
                                   number |-> IF d \in Cuts THEN 1 ELSE 0]
                    ELSE NoWork]
    BY <1>4 DEF ProductionInit
  <2>2. PICK s \in Statuses(d), f \in Figures :
          work = [x \in Cuts \cup Plans |->
                    IF x = d THEN [status |-> s, figures |-> f, year |-> 0,
                                   number |-> IF d \in Cuts THEN 1 ELSE 0]
                    ELSE NoWork]
    BY <2>1
  <2>3. PICK n \in {0, 1} : n = IF d \in Cuts THEN 1 ELSE 0
    OBVIOUS
  <2>4. PICK row \in WorkRows : row.status = s /\ row.number = n
                                /\ row = [status |-> s, figures |-> f, year |-> 0, number |-> n]
    <3>1. [status |-> s, figures |-> f, year |-> 0, number |-> n] \in WorkRows
      BY WorkNames DEF WorkRows
    <3> QED
      BY <3>1
  <2>5. work = [x \in Cuts \cup Plans |-> IF x = d THEN row ELSE NoWork]
    BY <2>2, <2>3, <2>4
  <2>6. row # NoWork
    BY <2>4, WorkNames
  <2>7. work \in [Cuts \cup Plans -> WorkRows] /\ \A x \in Cuts \cup Plans : WorkSound(x)
    BY <2>3, <2>4, <2>5, WorkNames DEF WorkSound
  <2>8. CASE d \in Cuts
    <3>1. CutsThereAre = {d}
      BY <2>5, <2>6, <2>8 DEF CutsThereAre
    <3>2. IsFiniteSet(CutsThereAre) /\ Cardinality(CutsThereAre) = 1
      BY <3>1, FS_Singleton
    <3>3. work[d].number = 1
      BY <2>3, <2>4, <2>5, <2>8
    <3>4. CutNumbersContiguous
      BY <3>1, <3>2, <3>3 DEF CutNumbersContiguous
    <3> QED
      BY <1>1, <1>2, <2>7, <3>2, <3>4 DEF WorkInv, WorkTypeOK
  <2>9. CASE d \notin Cuts
    <3>1. CutsThereAre = {}
      BY <2>5, <2>9 DEF CutsThereAre
    <3>2. IsFiniteSet(CutsThereAre) /\ Cardinality(CutsThereAre) = 0
      BY <3>1, FS_EmptySet
    <3>3. CutNumbersContiguous
      BY <3>1, <3>2 DEF CutNumbersContiguous
    <3> QED
      BY <1>1, <1>2, <2>7, <3>2, <3>3 DEF WorkInv, WorkTypeOK
  <2> QED
    BY <2>8, <2>9
<1> QED
  BY <1>3, <1>4

LEMMA WorkUnwritten ==
    ASSUME WorkInv, NEW r \in Requests, work' = work, year' \in Nat,
           request' \in WorkRequests, OthersAfter(r, {}), WorkKnown(r)'
    PROVE  WorkInv'
<1>1. CutsThereAre' = CutsThereAre
  BY DEF CutsThereAre
<1>2. ASSUME NEW q \in Requests
      PROVE  WorkKnown(q)'
  <2>1. CASE q = r
    BY <2>1
  <2>2. CASE q # r
    <3>1. Same(q) /\ (request[q].late => request'[q].late)
      BY <2>2 DEF OthersAfter
    <3> QED
      BY <1>1, <3>1 DEF WorkInv, WorkKnown, Same
  <2> QED
    BY <2>1, <2>2
<1> QED
  BY <1>1, <1>2 DEF WorkInv, WorkTypeOK, WorkSound, CutNumbersContiguous, WorkRequests

\* A new row: the documents there are stay as they are, and requests that counted
\* them count no more than there are now.
LEMMA WorkInserted ==
    ASSUME WorkInv, NEW r \in Requests, NEW d \in Cuts \cup Plans, work[d] = NoWork,
           NEW row \in WorkRows, row.status \in Statuses(d), d \in Cuts => row.number > 0,
           work' = [work EXCEPT ![d] = row],
           year' = year, request' \in WorkRequests, request'[r].pc # "write",
           \A q \in Requests \ {r} : Same(q) /\ (request[q].late => request'[q].late),
           IsFiniteSet(CutsThereAre'), CutNumbersContiguous',
           Cardinality(CutsThereAre') >= Cardinality(CutsThereAre)
    PROVE  WorkInv'
<1>1. /\ work' \in [Cuts \cup Plans -> WorkRows] /\ work'[d] = row
      /\ \A x \in (Cuts \cup Plans) \ {d} : work'[x] = work[x]
  BY DEF WorkInv, WorkTypeOK
<1>2. \A x \in Cuts \cup Plans : WorkSound(x)'
  BY <1>1 DEF WorkInv, WorkSound
<1>3. ASSUME NEW q \in Requests
      PROVE  WorkKnown(q)'
  <2>1. CASE q = r
    BY <2>1 DEF WorkKnown
  <2>2. CASE q # r
    <3>1. Same(q) /\ (request[q].late => request'[q].late) /\ WorkKnown(q)
      BY <2>2 DEF WorkInv
    <3>2. ASSUME request[q].pc = "write", request[q].op = "createCut"
          PROVE  request[q].was.number \in 1 .. (Cardinality(CutsThereAre') + 1)
      <4>1. Cardinality(CutsThereAre) \in Nat /\ Cardinality(CutsThereAre') \in Nat
        BY FS_CardinalityType DEF WorkInv
      <4> QED
        BY <3>1, <3>2, <4>1 DEF WorkKnown
    <3>3. ASSUME request[q].pc = "write", request[q].op = "updateWork"
          PROVE  request[q].doc # d /\ work'[request[q].doc] = work[request[q].doc]
      BY <1>1, <3>1, <3>3 DEF WorkKnown
    <3> QED
      BY <3>1, <3>2, <3>3 DEF WorkKnown, Same
  <2> QED
    BY <2>1, <2>2
<1> QED
  BY <1>1, <1>2, <1>3 DEF WorkInv, WorkTypeOK

LEMMA CountCutsKeeps ==
    ASSUME WorkInv, NEW r \in Requests, CountCuts(r)
    PROVE  WorkInv'
<1>1. Cardinality(CutsThereAre) \in Nat /\ year \in Nat
  BY FS_CardinalityType DEF WorkInv, WorkTypeOK
<1>2. PICK was \in CutCounts :
        /\ was = [number |-> Cardinality(CutsThereAre) + 1, year |-> year]
        /\ was.number = Cardinality(CutsThereAre) + 1
  <2>1. PICK n \in Nat : n = Cardinality(CutsThereAre) + 1
    BY <1>1
  <2>2. [number |-> n, year |-> year] \in CutCounts
    BY <1>1 DEF CutCounts
  <2> QED
    BY <2>1, <2>2
<1>3. Read(r, "createCut", "cut_orders", None, was) /\ work' = work /\ year' \in Nat
  BY <1>1, <1>2 DEF CountCuts, productionVars
<1>4. request \in WorkRequests
  BY DEF WorkInv, WorkTypeOK
<1>5. request' \in WorkRequests
  BY <1>3, <1>4 DEF WorkRequests, RequestsIn, Read
<1>6. /\ request'[r].op = "createCut" /\ request'[r].doc = "cut_orders"
      /\ request'[r].was = was /\ OthersAfter(r, {})
  BY <1>3, <1>4 DEF WorkRequests, RequestsIn, Read, OthersAfter, Same
<1>7. CutsThereAre' = CutsThereAre
  BY <1>3 DEF CutsThereAre
<1>8. WorkKnown(r)'
  BY <1>1, <1>2, <1>6, <1>7 DEF WorkKnown
<1> QED
  BY <1>3, <1>5, <1>6, <1>8, WorkUnwritten

LEMMA InsertCutKeeps ==
    ASSUME WorkInv, NEW r \in Requests, NEW c \in Cuts, NEW f \in Figures, InsertCut(r, c, f)
    PROVE  WorkInv'
<1> DEFINE k == Cardinality(CutsThereAre)
<1>1. k \in Nat /\ request[r].was.number \in 1 .. (k + 1) /\ request[r].was.year \in Nat
  BY FS_CardinalityType DEF WorkInv, WorkKnown, InsertCut, AtWrite, CutCounts
<1>2. PICK n \in 1 .. (k + 1) : n = request[r].was.number
  BY <1>1
<1>3. PICK y \in Nat :
        /\ NumberFree(n, y)
        /\ work' = [work EXCEPT ![c] = [status |-> "PLANNED", year |-> y, figures |-> f,
                                        number |-> n]]
  <2>1. year \in Nat
    BY DEF WorkInv, WorkTypeOK
  <2>2. \A y \in YearsRead(r) : y \in Nat
    BY <1>1, <2>1 DEF YearsRead
  <2> QED
    BY <1>2, <2>2 DEF InsertCut
<1>4. PICK row \in WorkRows :
        /\ row = [status |-> "PLANNED", year |-> y, figures |-> f, number |-> n]
        /\ row.status = "PLANNED" /\ row.number = n /\ row.year = y
  <2>1. n \in Nat
    BY <1>1
  <2>2. [status |-> "PLANNED", year |-> y, figures |-> f, number |-> n] \in WorkRows
    BY <2>1 DEF WorkRows, WorkStatuses, CutOrderStatus
  <2> QED
    BY <2>2
<1>5. /\ work[c] = NoWork /\ work' = [work EXCEPT ![c] = row] /\ year' = year
      /\ work'[c] = row /\ \A x \in (Cuts \cup Plans) \ {c} : work'[x] = work[x]
  BY <1>3, <1>4 DEF InsertCut, WorkInv, WorkTypeOK
<1>6. row # NoWork /\ c \notin CutsThereAre
  BY <1>4, <1>5, WorkNames DEF WorkStatuses, CutOrderStatus, CutsThereAre
<1>7. CutsThereAre' = CutsThereAre \cup {c}
  BY <1>5, <1>6 DEF CutsThereAre
<1>8. IsFiniteSet(CutsThereAre') /\ Cardinality(CutsThereAre') = k + 1
  <2>1. IsFiniteSet(CutsThereAre)
    BY DEF WorkInv
  <2> QED
    BY <1>6, <1>7, <2>1, FS_AddElement
<1>9. CutNumbersContiguous'
  <2> DEFINE numbers == {work[x].number : x \in CutsThereAre}
  <2>1. \A x \in CutsThereAre : work'[x] = work[x] /\ x # c
    BY <1>5, <1>6 DEF CutsThereAre
  <2>2. {work'[x].number : x \in CutsThereAre'} = numbers \cup {n}
    BY <1>4, <1>5, <1>7, <2>1
  <2>3. numbers \subseteq 1 .. k
    BY DEF WorkInv, CutNumbersContiguous
  <2>4. ASSUME \A x, z \in CutsThereAre' : work'[x].year = work'[z].year
        PROVE  numbers \cup {n} = 1 .. (k + 1)
    <3>1. \A x \in CutsThereAre : work[x].year = y
      BY <1>4, <1>5, <1>7, <2>1, <2>4
    <3>2. numbers = 1 .. k
      BY <3>1 DEF WorkInv, CutNumbersContiguous
    <3>3. n \notin numbers
      BY <1>3, <3>1 DEF NumberFree
    <3> QED
      BY <1>1, <3>2, <3>3
  <2>5. numbers \cup {n} \subseteq 1 .. (k + 1)
    <3> HIDE DEF numbers
    <3>1. 1 .. k \subseteq 1 .. (k + 1)
      BY <1>1
    <3> QED
      BY <2>3, <3>1
  <2> QED
    BY <1>8, <2>2, <2>4, <2>5 DEF CutNumbersContiguous
<1>10. /\ request' \in WorkRequests /\ request'[r].pc = "done"
       /\ OthersAfter(r, {request[r].doc})
  <2>1. request \in WorkRequests /\ Written(r, Served)
    BY DEF WorkInv, WorkTypeOK, InsertCut
  <2> QED
    BY <2>1, WriteServes DEF WorkRequests
<1>11. /\ row.status \in Statuses(c) /\ row.number > 0 /\ c \in Cuts \cup Plans
       /\ Cardinality(CutsThereAre') >= Cardinality(CutsThereAre)
  BY <1>1, <1>4, <1>8 DEF Statuses, CutOrderStatus
<1>12. \A q \in Requests \ {r} : Same(q) /\ (request[q].late => request'[q].late)
  BY <1>10 DEF OthersAfter
<1> QED
  BY <1>5, <1>8, <1>9, <1>10, <1>11, <1>12, WorkInserted

LEMMA CreateLinePlanKeeps ==
    ASSUME WorkInv, NEW r \in Requests, NEW p \in Plans, NEW f \in Figures,
           CreateLinePlan(r, p, f)
    PROVE  WorkInv'
<1>1. PICK row \in WorkRows :
        /\ row = [NoWork EXCEPT !.status = "SCHEDULED", !.figures = f]
        /\ row.status = "SCHEDULED"
  <2> DEFINE new == [NoWork EXCEPT !.status = "SCHEDULED", !.figures = f]
  <2>1. NoWork \in WorkRows
    BY WorkNames
  <2>2. new \in WorkRows /\ new.status = "SCHEDULED"
    BY <2>1 DEF WorkRows, WorkStatuses, LinePlanStatus
  <2> QED
    BY <2>2
<1>2. p \notin Cuts
  BY ProductionAssumption
<1>3. /\ work[p] = NoWork /\ work' = [work EXCEPT ![p] = row] /\ year' = year
      /\ \A x \in (Cuts \cup Plans) \ {p} : work'[x] = work[x]
  BY <1>1 DEF CreateLinePlan, WorkInv, WorkTypeOK
<1>4. CutsThereAre' = CutsThereAre
  BY <1>2, <1>3 DEF CutsThereAre
<1>5. CutNumbersContiguous'
  <2>1. \A x \in CutsThereAre : work'[x] = work[x]
    BY <1>2, <1>3 DEF CutsThereAre
  <2> QED
    BY <1>4, <2>1 DEF WorkInv, CutNumbersContiguous
<1>6. /\ request' \in WorkRequests /\ request'[r].pc = "done"
      /\ \A q \in Requests \ {r} : request'[q] = request[q]
  <2>1. request \in WorkRequests /\ request' = [request EXCEPT ![r] = Served]
    BY DEF WorkInv, WorkTypeOK, CreateLinePlan
  <2> QED
    BY <2>1, RefuseKeeps DEF WorkRequests
<1>7. row.status \in Statuses(p)
  BY <1>1, <1>2 DEF Statuses, LinePlanStatus
<1>8. /\ IsFiniteSet(CutsThereAre')
      /\ Cardinality(CutsThereAre') >= Cardinality(CutsThereAre)
  <2>1. IsFiniteSet(CutsThereAre) /\ Cardinality(CutsThereAre) \in Nat
    BY FS_CardinalityType DEF WorkInv
  <2> QED
    BY <1>4, <2>1
<1>9. \A q \in Requests \ {r} : Same(q) /\ (request[q].late => request'[q].late)
  BY <1>6 DEF Same
<1> QED
  BY <1>2, <1>3, <1>5, <1>6, <1>7, <1>8, <1>9, WorkInserted

LEMMA ReadWorkKeeps ==
    ASSUME WorkInv, NEW r \in Requests, NEW d \in Cuts \cup Plans, NEW dto \in WorkDtos,
           ReadWork(r, d, dto)
    PROVE  WorkInv'
<1>1. /\ work[d] \in WorkRows /\ work[d] # NoWork /\ work[d].status \notin Finished
      /\ dto.status # None => <<work[d].status, dto.status>> \in Moves(d)
  BY WorkNames DEF WorkInv, WorkTypeOK, ReadWork
<1>2. Read(r, "updateWork", d, dto, work[d]) /\ work' = work /\ year' \in Nat
  BY DEF ReadWork, productionVars, WorkInv, WorkTypeOK
<1>3. request \in WorkRequests
  BY DEF WorkInv, WorkTypeOK
<1>4. request' \in WorkRequests
  BY <1>1, <1>2, <1>3 DEF WorkRequests, RequestsIn, Read
<1>5. /\ request'[r].op = "updateWork" /\ request'[r].doc = d /\ request'[r].dto = dto
      /\ request'[r].was = work[d] /\ OthersAfter(r, {})
  BY <1>2, <1>3 DEF WorkRequests, RequestsIn, Read, OthersAfter, Same
<1>6. WorkKnown(r)'
  BY <1>1, <1>2, <1>5 DEF WorkKnown
<1> QED
  BY <1>2, <1>4, <1>5, <1>6, WorkUnwritten

\* The two updates do the same to a document of their kind.
LEMMA UpdateWorkKeeps ==
    ASSUME WorkInv, NEW r \in Requests, UpdateCutOrder(r) \/ UpdateLinePlan(r)
    PROVE  WorkInv'
<1>1. PICK d \in Cuts \cup Plans : d = request[r].doc
  BY DEF UpdateCutOrder, UpdateLinePlan
<1>2. PICK dto \in WorkDtos : dto = request[r].dto
  BY DEF UpdateCutOrder, UpdateLinePlan, AtWrite, WorkInv, WorkKnown
<1>3. /\ work[d] \in WorkRows /\ work[d] # NoWork /\ work[d].status \in Statuses(d)
      /\ d \in Cuts => work[d].number > 0
      /\ dto.status # None => dto.status \in Statuses(d)
  <2>1. work[d] \in WorkRows /\ WorkSound(d)
    BY DEF WorkInv, WorkTypeOK
  <2>2. work[d] # NoWork
    BY <1>1 DEF UpdateCutOrder, UpdateLinePlan, AtWrite, WorkInv, WorkKnown
  <2>3. dto.status # None => dto.status \in Statuses(d)
    <3>1. WorkKnown(r) /\ AtWrite(r, "updateWork")
      BY DEF UpdateCutOrder, UpdateLinePlan, WorkInv
    <3>2. dto.status # None => <<request[r].was.status, dto.status>> \in Moves(d)
      BY <1>1, <1>2, <3>1 DEF AtWrite, WorkKnown
    <3> QED
      BY <3>2, WorkNames
  <2> QED
    BY <2>1, <2>2, <2>3 DEF WorkSound
<1>4. PICK s \in Statuses(d) : s = IF dto.status # None THEN dto.status ELSE work[d].status
  BY <1>3
<1>5. PICK f \in Figures \cup {None} :
        f = IF dto.figures # None THEN dto.figures ELSE work[d].figures
  BY <1>3 DEF WorkDtos, WorkRows
<1>6. /\ work'[d] = [work[d] EXCEPT !.status = s, !.figures = f]
      /\ \A x \in (Cuts \cup Plans) \ {d} : work'[x] = work[x]
      /\ work' = [x \in Cuts \cup Plans |-> work'[x]]
  BY <1>1, <1>2, <1>4, <1>5 DEF UpdateCutOrder, UpdateLinePlan, WorkInv, WorkTypeOK
<1>7. /\ work'[d] \in WorkRows /\ work'[d].status = s /\ work'[d].number = work[d].number
      /\ work'[d].year = work[d].year
  <2>1. s \in WorkStatuses
    BY WorkNames
  <2> QED
    BY <1>3, <1>6, <2>1 DEF WorkRows
<1>8. work'[d] # NoWork
  BY <1>7, WorkNames
<1>9. work' \in [Cuts \cup Plans -> WorkRows]
  <2>1. \A x \in Cuts \cup Plans : work'[x] \in WorkRows
    BY <1>6, <1>7 DEF WorkInv, WorkTypeOK
  <2> QED
    BY <1>6, <2>1
<1>10. \A x \in Cuts \cup Plans : WorkSound(x)'
  BY <1>3, <1>6, <1>7 DEF WorkInv, WorkSound
<1>11. CutsThereAre' = CutsThereAre
  BY <1>3, <1>6, <1>8 DEF CutsThereAre
<1>12. CutNumbersContiguous' /\ IsFiniteSet(CutsThereAre')
  <2>1. \A x \in CutsThereAre :
          work'[x].number = work[x].number /\ work'[x].year = work[x].year
    BY <1>6, <1>7 DEF CutsThereAre
  <2> QED
    BY <1>11, <2>1 DEF WorkInv, CutNumbersContiguous
<1>13. /\ request' \in WorkRequests /\ request'[r].pc = "done" /\ OthersAfter(r, {d})
  <2>1. request \in WorkRequests /\ Written(r, Served)
    BY DEF WorkInv, WorkTypeOK, UpdateCutOrder, UpdateLinePlan
  <2> QED
    BY <1>1, <2>1, WriteServes DEF WorkRequests
<1>14. ASSUME NEW q \in Requests
       PROVE  WorkKnown(q)'
  <2>1. CASE q = r
    BY <1>13, <2>1 DEF WorkKnown
  <2>2. CASE q # r
    <3>1. /\ Same(q) /\ (request[q].late => request'[q].late) /\ WorkKnown(q)
          /\ (request[q].pc = "write" /\ request[q].doc = d) => request'[q].late
      BY <1>13, <2>2 DEF OthersAfter, WorkInv
    <3>2. ASSUME request[q].pc = "write", request[q].op = "updateWork"
          PROVE  /\ work'[request[q].doc] # NoWork
                 /\ ~ request'[q].late => work'[request[q].doc] = work[request[q].doc]
      BY <1>6, <1>8, <3>1, <3>2 DEF WorkKnown
    <3> QED
      BY <1>11, <3>1, <3>2 DEF WorkKnown, Same
  <2> QED
    BY <2>1, <2>2
<1> QED
  <2>1. year' \in Nat
    BY DEF WorkInv, WorkTypeOK, UpdateCutOrder, UpdateLinePlan
  <2> QED
    BY <1>9, <1>10, <1>12, <1>13, <1>14, <2>1 DEF WorkInv, WorkTypeOK

\* The passing of a year changes no row and no request.
LEMMA WorkStays ==
    ASSUME WorkInv, UNCHANGED <<request, work>>, year' \in Nat
    PROVE  WorkInv'
BY DEF WorkInv, WorkTypeOK, WorkSound, WorkKnown, CutsThereAre, CutNumbersContiguous

LEMMA WorkStep ==
    ASSUME WorkInv, WorkNext
    PROVE  WorkInv'
<1>0. CASE NewYear
  BY <1>0, WorkStays DEF NewYear, WorkInv, WorkTypeOK
<1> SUFFICES ASSUME ~ NewYear
             PROVE  WorkInv'
  BY <1>0
<1>1. PICK r \in Requests :
        \/ CountCuts(r)
        \/ RefuseCut(r)
        \/ \E c \in Cuts, f \in Figures : InsertCut(r, c, f)
        \/ \E p \in Plans, f \in Figures : CreateLinePlan(r, p, f)
        \/ \E c \in Cuts, dto \in UpdateCutOrderDto : ReadWork(r, c, dto)
        \/ \E p \in Plans, dto \in UpdateLinePlanDto : ReadWork(r, p, dto)
        \/ UpdateCutOrder(r)
        \/ UpdateLinePlan(r)
  BY DEF WorkNext
<1>2. CASE RefuseCut(r)
  <2>1. request' = [request EXCEPT ![r] = Served] /\ work' = work /\ year' \in Nat
        /\ request \in WorkRequests
    BY <1>2 DEF RefuseCut, Refuse, productionVars, WorkInv, WorkTypeOK
  <2>2. request' \in WorkRequests /\ request'[r].pc = "done" /\ OthersAfter(r, {})
    BY <2>1, RefuseKeeps DEF WorkRequests
  <2>3. WorkKnown(r)'
    BY <2>2 DEF WorkKnown
  <2> QED
    BY <2>1, <2>2, <2>3, WorkUnwritten
<1>3. ASSUME NEW c \in Cuts, NEW f \in Figures, InsertCut(r, c, f)
      PROVE  WorkInv'
  BY <1>3, InsertCutKeeps
<1>4. ASSUME NEW p \in Plans, NEW f \in Figures, CreateLinePlan(r, p, f)
      PROVE  WorkInv'
  BY <1>4, CreateLinePlanKeeps
<1>5. UpdateCutOrderDto \subseteq WorkDtos /\ UpdateLinePlanDto \subseteq WorkDtos
  BY DEF UpdateCutOrderDto, UpdateLinePlanDto, WorkDtos, WorkStatuses
<1>6. ASSUME NEW c \in Cuts, NEW dto \in UpdateCutOrderDto, ReadWork(r, c, dto)
      PROVE  WorkInv'
  BY <1>5, <1>6, ReadWorkKeeps
<1>7. ASSUME NEW p \in Plans, NEW dto \in UpdateLinePlanDto, ReadWork(r, p, dto)
      PROVE  WorkInv'
  BY <1>5, <1>7, ReadWorkKeeps
<1> QED
  BY <1>1, <1>2, <1>3, <1>4, <1>6, <1>7, CountCutsKeeps, UpdateWorkKeeps

LEMMA WorkMove ==
    ASSUME WorkInv, WorkNext, NEW d \in Cuts \cup Plans, work[d] # NoWork,
           work'[d] # work[d]
    PROVE  \/ LateWrite(d)
           \/ /\ work[d].status \notin Finished
              /\ \/ work'[d].status = work[d].status
                 \/ <<work[d].status, work'[d].status>> \in Moves(d)
<1>1. PICK r \in Requests :
        \/ \E c \in Cuts, f \in Figures : InsertCut(r, c, f)
        \/ \E p \in Plans, f \in Figures : CreateLinePlan(r, p, f)
        \/ UpdateCutOrder(r) \/ UpdateLinePlan(r)
  BY DEF WorkNext, NewYear, CountCuts, RefuseCut, ReadWork, productionVars
<1>2. work \in [Cuts \cup Plans -> WorkRows] /\ work[d] \in WorkRows
  BY DEF WorkInv, WorkTypeOK
<1>3. CASE UpdateCutOrder(r) \/ UpdateLinePlan(r)
  <2>1. /\ request[r].pc = "write" /\ request[r].op = "updateWork" /\ WorkKnown(r)
        /\ request[r].doc = d
    BY <1>2, <1>3 DEF UpdateCutOrder, UpdateLinePlan, AtWrite, WorkInv
  <2>2. request'[r].pc # "write"
    BY <1>3 DEF UpdateCutOrder, UpdateLinePlan, Written, WrittenAll, Served, Idle
  <2>3. CASE request[r].late
    BY <2>1, <2>2, <2>3 DEF LateWrite
  <2>4. CASE ~ request[r].late
    <3>1. /\ work[d].status \notin Finished
          /\ request[r].dto.status # None =>
               <<work[d].status, request[r].dto.status>> \in Moves(d)
      BY <2>1, <2>4 DEF WorkKnown
    <3>2. work'[d].status = IF request[r].dto.status # None THEN request[r].dto.status
                            ELSE work[d].status
      BY <1>2, <1>3, <2>1 DEF UpdateCutOrder, UpdateLinePlan, WorkRows
    <3> QED
      BY <3>1, <3>2
  <2> QED
    BY <2>3, <2>4
<1>4. CASE \/ \E c \in Cuts, f \in Figures : InsertCut(r, c, f)
           \/ \E p \in Plans, f \in Figures : CreateLinePlan(r, p, f)
  BY <1>2, <1>4 DEF InsertCut, CreateLinePlan
<1> QED
  BY <1>1, <1>3, <1>4

-----------------------------------------------------------------------------
(* WIP records.                                                            *)

WipRows == [input : Nat, output : Nat, reject : Nat, present : BOOLEAN, late : BOOLEAN]

WipRequests == RequestsIn({"updateWip"}, Wips, UpdateWipRecordDto, WipRows)

\* The check that was made on the copy of a record still speaks of its input, which
\* no update changes, and of all of it if nobody wrote it since.
WipKnown(r) ==
    request[r].pc = "write" =>
      LET was == request[r].was
          w   == request[r].doc
          dto == request[r].dto
      IN  /\ w \in Wips /\ dto \in UpdateWipRecordDto /\ was \in WipRows
          /\ was.input = wip[w].input
          /\ Sent(dto.output, was.output) + Sent(dto.reject, was.reject) <= was.input
          /\ ~ request[r].late => was = wip[w]
          /\ wip[w].present

WipInv ==
    /\ wip \in [Wips -> WipRows]
    /\ request \in WipRequests
    /\ WipBalanced
    /\ \A r \in Requests : WipKnown(r)

LEMMA WipStart ==
    ASSUME HandlersInit, wip = [w \in Wips |-> NoWip]
    PROVE  WipInv
<1>1. request \in WipRequests /\ \A r \in Requests : request[r].pc = "idle"
  BY RequestsStart DEF WipRequests
<1>2. /\ NoWip \in WipRows /\ NoWip.input = 0 /\ NoWip.output = 0 /\ NoWip.reject = 0
  BY DEF NoWip, WipRows
<1> QED
  BY <1>1, <1>2 DEF WipInv, WipKnown, WipBalanced

LEMMA CreateWipKeeps ==
    ASSUME WipInv, NEW r \in Requests, NEW w \in Wips, NEW dto \in CreateWipRecordDto,
           CreateWip(r, w, dto)
    PROVE  WipInv'
<1>1. dto.input \in Nat /\ dto.output \in Nat /\ dto.reject \in Nat
  BY ProductionAssumption DEF CreateWipRecordDto
<1>2. PICK row \in WipRows :
        /\ row = NewWip(dto.input, dto.output, dto.reject)
        /\ row.input = dto.input /\ row.output = dto.output /\ row.reject = dto.reject
        /\ row.present /\ ~ row.late
  <2>1. NewWip(dto.input, dto.output, dto.reject) \in WipRows
    BY <1>1 DEF NewWip, WipRows
  <2> QED
    BY <2>1 DEF NewWip
<1>3. wip' = [wip EXCEPT ![w] = row] /\ ~ wip[w].present
  BY <1>2 DEF CreateWip
<1>4. /\ wip' \in [Wips -> WipRows] /\ wip'[w] = row
      /\ \A x \in Wips \ {w} : wip'[x] = wip[x]
  BY <1>3 DEF WipInv
<1>5. dto.output + dto.reject <= dto.input
  BY DEF CreateWip
<1>6. WipBalanced'
  BY <1>1, <1>2, <1>4, <1>5 DEF WipInv, WipBalanced
<1>7. /\ request' \in WipRequests /\ request'[r].pc = "done"
      /\ \A q \in Requests \ {r} : request'[q] = request[q]
  <2>1. request \in WipRequests /\ request' = [request EXCEPT ![r] = Served]
    BY DEF WipInv, CreateWip
  <2> QED
    BY <2>1, RefuseKeeps DEF WipRequests
<1>8. ASSUME NEW q \in Requests
      PROVE  WipKnown(q)'
  <2>1. CASE q = r
    BY <1>7, <2>1 DEF WipKnown
  <2>2. CASE q # r
    <3>1. request'[q] = request[q] /\ WipKnown(q)
      BY <1>7, <2>2 DEF WipInv
    <3>2. request[q].pc = "write" => request[q].doc # w
      BY <1>3, <3>1 DEF WipKnown
    <3> QED
      BY <1>4, <3>1, <3>2 DEF WipKnown
  <2> QED
    BY <2>1, <2>2
<1> QED
  BY <1>4, <1>6, <1>7, <1>8 DEF WipInv

LEMMA ReadWipKeeps ==
    ASSUME WipInv, NEW r \in Requests, NEW w \in Wips, NEW dto \in UpdateWipRecordDto,
           ReadWip(r, w, dto)
    PROVE  WipInv'
<1>1. wip[w] \in WipRows /\ wip[w].present
      /\ Sent(dto.output, wip[w].output) + Sent(dto.reject, wip[w].reject) <= wip[w].input
  BY DEF WipInv, ReadWip
<1>2. Read(r, "updateWip", w, dto, wip[w]) /\ wip' = wip /\ request \in WipRequests
  BY DEF ReadWip, productionVars, WipInv
<1>3. request' \in WipRequests
  BY <1>1, <1>2 DEF WipRequests, RequestsIn, Read
<1>4. /\ request'[r].doc = w /\ request'[r].dto = dto /\ request'[r].was = wip[w]
      /\ OthersAfter(r, {})
  BY <1>2 DEF WipRequests, RequestsIn, Read, OthersAfter, Same
<1>5. ASSUME NEW q \in Requests
      PROVE  WipKnown(q)'
  <2>1. CASE q = r
    BY <1>1, <1>2, <1>4, <2>1 DEF WipKnown
  <2>2. CASE q # r
    <3>1. Same(q) /\ (request[q].late => request'[q].late) /\ WipKnown(q)
      BY <1>4, <2>2 DEF OthersAfter, WipInv
    <3> QED
      BY <1>2, <3>1 DEF WipKnown, Same
  <2> QED
    BY <2>1, <2>2
<1> QED
  BY <1>2, <1>3, <1>5 DEF WipInv, WipBalanced

LEMMA UpdateWipKeeps ==
    ASSUME WipInv, NEW r \in Requests, UpdateWip(r)
    PROVE  WipInv'
<1>1. PICK w \in Wips : w = request[r].doc
  BY DEF WipInv, WipKnown, UpdateWip, AtWrite
<1>2. PICK dto \in UpdateWipRecordDto : dto = request[r].dto
  BY DEF WipInv, WipKnown, UpdateWip, AtWrite
<1>3. PICK was \in WipRows : was = request[r].was
  BY DEF WipInv, WipKnown, UpdateWip, AtWrite
<1>4. /\ was.input = wip[w].input
      /\ Sent(dto.output, was.output) + Sent(dto.reject, was.reject) <= was.input
      /\ ~ request[r].late => was = wip[w]
      /\ wip[w] \in WipRows /\ wip[w].present
      /\ wip[w].output <= wip[w].input /\ wip[w].reject <= wip[w].input
  BY <1>1, <1>2, <1>3 DEF WipInv, WipKnown, WipBalanced, UpdateWip, AtWrite
<1>5. /\ was.input \in Nat /\ was.output \in Nat /\ was.reject \in Nat
      /\ wip[w].input \in Nat /\ wip[w].output \in Nat /\ wip[w].reject \in Nat
      /\ dto.output # None => dto.output \in Nat
      /\ dto.reject # None => dto.reject \in Nat
  BY <1>4, ProductionAssumption DEF WipRows, UpdateWipRecordDto
<1>6. PICK output \in Nat : output = Sent(dto.output, wip[w].output)
  BY <1>5 DEF Sent
<1>7. PICK reject \in Nat : reject = Sent(dto.reject, wip[w].reject)
  BY <1>5 DEF Sent
<1>8. PICK late \in BOOLEAN : late = (wip[w].late \/ request[r].late)
  OBVIOUS
<1>9. /\ wip'[w] = [wip[w] EXCEPT !.output = output, !.reject = reject, !.late = late]
      /\ \A x \in Wips \ {w} : wip'[x] = wip[x]
      /\ wip' = [x \in Wips |-> wip'[x]]
  BY <1>1, <1>2, <1>4, <1>6, <1>7, <1>8 DEF UpdateWip, WipInv, WipRows
<1>10. /\ wip'[w] \in WipRows /\ wip'[w].input = wip[w].input
       /\ wip'[w].output = output /\ wip'[w].reject = reject
       /\ wip'[w].late = late /\ wip'[w].present = wip[w].present
  BY <1>4, <1>9 DEF WipRows
<1>11. wip' \in [Wips -> WipRows]
  <2>1. \A x \in Wips : wip'[x] \in WipRows
    BY <1>9, <1>10 DEF WipInv
  <2> QED
    BY <1>9, <2>1
<1>12. output <= wip[w].input /\ reject <= wip[w].input
  <2>1. Sent(dto.output, was.output) \in Nat /\ Sent(dto.reject, was.reject) \in Nat
    BY <1>5 DEF Sent
  <2>2. Sent(dto.output, was.output) <= wip[w].input
        /\ Sent(dto.reject, was.reject) <= wip[w].input
    BY <1>4, <1>5, <2>1
  <2>3. output <= wip[w].input
    BY <1>4, <1>6, <2>2 DEF Sent
  <2>4. reject <= wip[w].input
    BY <1>4, <1>7, <2>2 DEF Sent
  <2> QED
    BY <2>3, <2>4
<1>13. ~ late => output + reject <= wip[w].input
  BY <1>4, <1>6, <1>7, <1>8
<1>14. WipBalanced'
  <2>1. ASSUME NEW x \in Wips
        PROVE  /\ wip'[x].output <= wip'[x].input /\ wip'[x].reject <= wip'[x].input
               /\ ~ wip'[x].late => wip'[x].output + wip'[x].reject <= wip'[x].input
    <3>1. CASE x = w
      BY <1>10, <1>12, <1>13, <3>1
    <3>2. CASE x # w
      BY <1>9, <3>2 DEF WipInv, WipBalanced
    <3> QED
      BY <3>1, <3>2
  <2> QED
    BY <2>1 DEF WipBalanced
<1>15. request' \in WipRequests /\ request'[r].pc = "done" /\ OthersAfter(r, {w})
  <2>1. request \in WipRequests /\ Written(r, Served)
    BY DEF WipInv, UpdateWip
  <2> QED
    BY <1>1, <2>1, WriteServes DEF WipRequests
<1>16. ASSUME NEW q \in Requests
       PROVE  WipKnown(q)'
  <2>1. CASE q = r
    BY <1>15, <2>1 DEF WipKnown
  <2>2. CASE q # r
    <3>1. /\ Same(q) /\ (request[q].late => request'[q].late) /\ WipKnown(q)
          /\ (request[q].pc = "write" /\ request[q].doc = w) => request'[q].late
      BY <1>15, <2>2 DEF OthersAfter, WipInv
    <3>2. ASSUME request[q].pc = "write"
          PROVE  /\ wip'[request[q].doc].input = wip[request[q].doc].input
                 /\ wip'[request[q].doc].present
                 /\ ~ request'[q].late => wip'[request[q].doc] = wip[request[q].doc]
      BY <1>4, <1>9, <1>10, <3>1, <3>2 DEF WipKnown
    <3> QED
      BY <3>1, <3>2 DEF WipKnown, Same
  <2> QED
    BY <2>1, <2>2
<1> QED
  BY <1>11, <1>14, <1>15, <1>16 DEF WipInv

LEMMA WipStep ==
    ASSUME WipInv, WipNext
    PROVE  WipInv'
BY CreateWipKeeps, ReadWipKeeps, UpdateWipKeeps DEF WipNext

-----------------------------------------------------------------------------
(* All services.                                                           *)

NoWorkYet == work = [d \in Cuts \cup Plans |-> NoWork]
NoWipYet == wip = [w \in Wips |-> NoWip]

\* The service that is exercised keeps its invariant, the tables of the others are
\* as they were.
DocumentsInv ==
    /\ IF service = "orders" THEN OrdersInv ELSE NoOrders
    /\ IF service = "suppliers" THEN PosInv ELSE po = [p \in Pos |-> NoPo]
    /\ IF service = "production" THEN WorkInv ELSE NoWorkYet
    /\ IF service = "wip" THEN WipInv ELSE NoWipYet

LEMMA DocumentsStart ==
    ASSUME Init
    PROVE  DocumentsInv
<1>1. HandlersInit /\ ProductionInit /\ NoWipYet
  BY DEF Init, ProductionInit, NoWipYet
<1>2. IF service = "orders" THEN OrdersInv ELSE NoOrders
  BY <1>1, OrdersStart DEF Init
<1>3. IF service = "suppliers" THEN PosInv ELSE po = [p \in Pos |-> NoPo]
  BY <1>1, PosStart DEF Init
<1>4. IF service = "production" THEN WorkInv ELSE NoWorkYet
  BY <1>1, WorkStart DEF Init, NoWorkYet
<1>5. IF service = "wip" THEN WipInv ELSE NoWipYet
  BY <1>1, WipStart DEF NoWipYet
<1> QED
  BY <1>2, <1>3, <1>4, <1>5 DEF DocumentsInv

\* The invariant of a service speaks of its own tables and of the requests alone.
LEMMA DocumentsStutter ==
    /\ (OrdersInv /\ UNCHANGED <<request, orderVars>>) => OrdersInv'
    /\ (PosInv /\ UNCHANGED <<request, po>>) => PosInv'
    /\ (WorkInv /\ UNCHANGED <<request, work, year>>) => WorkInv'
    /\ (WipInv /\ UNCHANGED <<request, wip>>) => WipInv'
<1>1. (OrdersInv /\ UNCHANGED <<request, orderVars>>) => OrdersInv'
  <2> SUFFICES ASSUME OrdersInv, UNCHANGED <<request, orderVars>>
               PROVE  OrdersInv'
    OBVIOUS
  <2>1. OrdersTypeOK' /\ RevisionsSound'
    BY DEF OrdersInv, OrdersTypeOK, RevisionsSound, orderVars
  <2>2. \A o \in Orders : OrderSound(o)'
    BY DEF OrdersInv, OrderSound, orderVars
  <2>3. ASSUME NEW r \in Requests PROVE OrderKnown(r)'
    <3>1. OrderKnown(r)
      BY DEF OrdersInv
    <3> QED
      BY <3>1 DEF OrderKnown, orderVars
  <2> QED
    BY <2>1, <2>2, <2>3 DEF OrdersInv
<1>2. (PosInv /\ UNCHANGED <<request, po>>) => PosInv'
  BY DEF PosInv, PosTypeOK, PoSound, PoNumbersSound, PoKnown, Present, PoNumbersDistinct
<1>3. (WorkInv /\ UNCHANGED <<request, work, year>>) => WorkInv'
  BY WorkStays DEF WorkInv, WorkTypeOK
<1>4. (WipInv /\ UNCHANGED <<request, wip>>) => WipInv'
  BY DEF WipInv, WipKnown, WipBalanced
<1> QED
  BY <1>1, <1>2, <1>3, <1>4

LEMMA DocumentsStep ==
    ASSUME DocumentsInv, [Next]_vars
    PROVE  DocumentsInv'
<1>1. service' = service
  BY DEF Next, vars
<1>2. (UNCHANGED orderVars /\ NoOrders) => NoOrders'
  BY DEF NoOrders, orderVars
<1>3. CASE UNCHANGED vars
  <2>1. UNCHANGED <<request, orderVars>> /\ UNCHANGED <<request, po>>
        /\ UNCHANGED <<request, work, year>> /\ UNCHANGED <<request, wip>>
    BY <1>3 DEF vars, productionVars
  <2>2. UNCHANGED orderVars /\ po' = po /\ work' = work /\ wip' = wip
    BY <2>1
  <2> QED
    BY <1>1, <1>2, <2>1, <2>2, DocumentsStutter DEF DocumentsInv, NoWorkYet, NoWipYet
<1>4. CASE service = "orders" /\ PlanningNext /\ UNCHANGED <<po, productionVars, authVars>>
  <2>1. po' = po /\ work' = work /\ wip' = wip
    BY <1>4 DEF productionVars
  <2>2. OrdersInv'
    <3>1. OrdersInv
      BY <1>4 DEF DocumentsInv
    <3>2. OrdersNext \/ UNCHANGED <<request, orderVars>>
      BY <1>4 DEF PlanningNext
    <3> QED
      BY <3>1, <3>2, OrdersStep, DocumentsStutter
  <2> QED
    BY <1>1, <1>4, <2>1, <2>2 DEF DocumentsInv, NoWorkYet, NoWipYet
<1>5. CASE service = "suppliers" /\ PosNext
           /\ UNCHANGED <<orderVars, queueVars, productionVars, authVars>>
  <2>1. UNCHANGED orderVars /\ work' = work /\ wip' = wip
    BY <1>5 DEF productionVars
  <2>2. PosInv'
    BY <1>5, PosStep DEF DocumentsInv
  <2> QED
    BY <1>1, <1>2, <1>5, <2>1, <2>2 DEF DocumentsInv, NoWorkYet, NoWipYet
<1>6. CASE service = "production" /\ WorkNext
           /\ UNCHANGED <<orderVars, queueVars, po, authVars>>
  <2>1. UNCHANGED orderVars /\ po' = po
    BY <1>6
  <2>2. wip' = wip
    BY <1>6 DEF WorkNext, NewYear, CountCuts, RefuseCut, InsertCut, CreateLinePlan, ReadWork,
                UpdateCutOrder, UpdateLinePlan, productionVars
  <2>3. WorkInv'
    BY <1>6, WorkStep DEF DocumentsInv
  <2> QED
    BY <1>1, <1>2, <1>6, <2>1, <2>2, <2>3 DEF DocumentsInv, NoWorkYet, NoWipYet
<1>7. CASE service = "wip" /\ WipNext
           /\ UNCHANGED <<orderVars, queueVars, po, authVars>>
  <2>1. UNCHANGED orderVars /\ po' = po
    BY <1>7
  <2>2. work' = work
    BY <1>7 DEF WipNext, CreateWip, ReadWip, UpdateWip, productionVars
  <2>3. WipInv'
    BY <1>7, WipStep DEF DocumentsInv
  <2> QED
    BY <1>1, <1>2, <1>7, <2>1, <2>2, <2>3 DEF DocumentsInv, NoWorkYet, NoWipYet
<1>8. CASE service = "auth" /\ AuthNext
           /\ UNCHANGED <<orderVars, queueVars, po, productionVars>>
  <2>1. UNCHANGED orderVars /\ po' = po /\ work' = work /\ wip' = wip
    BY <1>8 DEF productionVars
  <2> QED
    BY <1>1, <1>2, <1>8, <2>1 DEF DocumentsInv, NoWorkYet, NoWipYet
<1> QED
  BY <1>3, <1>4, <1>5, <1>6, <1>7, <1>8 DEF Next

\* Whatever services a behaviour exercises, their invariants hold.
THEOREM DocumentsHold == Spec => []DocumentsInv
<1>1. Init => DocumentsInv
  BY DocumentsStart
<1>2. DocumentsInv /\ [Next]_vars => DocumentsInv'
  BY DocumentsStep
<1> QED
  BY <1>1, <1>2, PTL DEF Spec

\* What the invariants say of every state.
LEMMA DocumentsImply ==
    ASSUME DocumentsInv
    PROVE  RevisionsAreHistory /\ DerivedFromLines /\ CountedNumbers /\ WipBalanced
<1>1. RevisionsAreHistory /\ TotalsOfLines
  <2>1. CASE service = "orders"
    BY <2>1, OrdersImply DEF DocumentsInv
  <2>2. CASE service # "orders"
    <3>1. NoOrders
      BY <2>2 DEF DocumentsInv
    <3>2. \A o \in Orders : order[o] = NoOrder
      BY <3>1 DEF NoOrders
    <3>3. TotalsOfLines
      BY <3>2 DEF TotalsOfLines, NoOrder
    <3>4. ASSUME NEW o \in Orders
          PROVE  LET kept == {x \in revisions : x.order = o}
                 IN  /\ Cardinality(kept) = Cardinality({x.revision : x \in kept})
                     /\ {x.revision : x \in kept} = 1 .. (order[o].revision - 1)
                     /\ \A x \in kept : x.lines = history[o][x.revision]
      <4> DEFINE kept == {x \in revisions : x.order = o}
      <4>1. kept = {} /\ {x.revision : x \in kept} = {}
        BY <3>1 DEF NoOrders
      <4>2. order[o].revision = 0
        BY <3>2 DEF NoOrder
      <4>3. 1 .. (order[o].revision - 1) = {}
        BY <4>2
      <4> QED
        BY <4>1, <4>3
    <3> QED
      BY <3>3, <3>4 DEF RevisionsAreHistory
  <2> QED
    BY <2>1, <2>2
<1>2. AmountsOfLines /\ PoNumbersDistinct
  <2>1. CASE service = "suppliers"
    BY <2>1, PosImply DEF DocumentsInv
  <2>2. CASE service # "suppliers"
    <3>1. po = [p \in Pos |-> NoPo]
      BY <2>2 DEF DocumentsInv
    <3>2. Present = {}
      BY <3>1 DEF Present
    <3> QED
      BY <3>2 DEF AmountsOfLines, PoNumbersDistinct
  <2> QED
    BY <2>1, <2>2
<1>3. CutNumbersContiguous
  <2>1. CASE service = "production"
    BY <2>1 DEF DocumentsInv, WorkInv
  <2>2. CASE service # "production"
    <3>1. CutsThereAre = {}
      BY <2>2 DEF DocumentsInv, NoWorkYet, CutsThereAre
    <3>2. Cardinality(CutsThereAre) = 0
      BY <3>1, FS_EmptySet
    <3>3. {work[c].number : c \in CutsThereAre} = {}
      BY <3>1
    <3>4. 1 .. Cardinality(CutsThereAre) = {}
      BY <3>2
    <3> QED
      BY <3>3, <3>4 DEF CutNumbersContiguous
  <2> QED
    BY <2>1, <2>2
<1>4. WipBalanced
  <2>1. CASE service = "wip"
    BY <2>1 DEF DocumentsInv, WipInv
  <2>2. CASE service # "wip"
    <3>1. \A w \in Wips : wip[w] = NoWip
      BY <2>2 DEF DocumentsInv, NoWipYet
    <3>2. NoWip.input = 0 /\ NoWip.output = 0 /\ NoWip.reject = 0
      BY DEF NoWip
    <3> QED
      BY <3>1, <3>2 DEF WipBalanced
  <2> QED
    BY <2>1, <2>2
<1> QED
  BY <1>1, <1>2, <1>3, <1>4 DEF DerivedFromLines, CountedNumbers

\* The kept revisions of an order are those before the current one, each once, with
\* the lines it had: an edit that overlaps another neither skips nor rewrites one
\* (updateOrder).
THEOREM RevisionsKeepHistory == Spec => []RevisionsAreHistory
<1>1. DocumentsInv => RevisionsAreHistory
  BY DocumentsImply
<1> QED
  BY <1>1, DocumentsHold, PTL

\* Totals of orders and amounts of purchase orders agree with the lines that are
\* stored beside them.
THEOREM FiguresAreDerived == Spec => []DerivedFromLines
<1>1. DocumentsInv => DerivedFromLines
  BY DocumentsImply
<1> QED
  BY <1>1, DocumentsHold, PTL

\* Cut orders of one year are numbered without gaps; purchase orders share a number only when
\* one was created while another was (nextCutOrderNumber, createPurchaseOrder).
THEOREM NumbersCount == Spec => []CountedNumbers
<1>1. DocumentsInv => CountedNumbers
  BY DocumentsImply
<1> QED
  BY <1>1, DocumentsHold, PTL

\* Output and reject of a WIP record stay within its input, together unless two
\* updates overlapped (updateWipRecord).
THEOREM WipStaysBalanced == Spec => []WipBalanced
<1>1. DocumentsInv => WipBalanced
  BY DocumentsImply
<1> QED
  BY <1>1, DocumentsHold, PTL

\* A step of any service moves every document along the life cycle of its kind,
\* except by a request that holds an old copy.
LEMMA DocumentsMove ==
    ASSUME DocumentsInv, Next
    PROVE  /\ \A o \in Orders :
                (order[o] # NoOrder /\ order'[o].status # order[o].status) =>
                   <<order[o].status, order'[o].status>> \in OrderMoves \/ LateWrite(o)
           /\ \A p \in Pos : po[p] # NoPo =>
                /\ po'[p].status # po[p].status =>
                     LateWrite(p) \/ <<po[p].status, po'[p].status>> \in PoMoves
                /\ Line(po'[p]) # Line(po[p]) =>
                     LateWrite(p) \/ EditElsewhere(p) \/ po[p].status = "DRAFT"
           /\ \A d \in Cuts \cup Plans : (work[d] # NoWork /\ work'[d] # work[d]) =>
                \/ LateWrite(d)
                \/ /\ work[d].status \notin Finished
                   /\ \/ work'[d].status = work[d].status
                      \/ <<work[d].status, work'[d].status>> \in Moves(d)
<1>1. ASSUME NEW o \in Orders, order[o] # NoOrder, order'[o].status # order[o].status
      PROVE  <<order[o].status, order'[o].status>> \in OrderMoves \/ LateWrite(o)
  <2>1. service = "orders" /\ OrdersNext
    BY <1>1 DEF Next, PlanningNext, orderVars
  <2>2. OrdersInv
    BY <2>1 DEF DocumentsInv
  <2> QED
    BY <1>1, <2>1, <2>2, OrdersMove
<1>2. ASSUME NEW p \in Pos, po[p] # NoPo
      PROVE  /\ po'[p].status # po[p].status =>
                  LateWrite(p) \/ <<po[p].status, po'[p].status>> \in PoMoves
             /\ Line(po'[p]) # Line(po[p]) =>
                  LateWrite(p) \/ EditElsewhere(p) \/ po[p].status = "DRAFT"
  <2>1. CASE po' = po
    BY <2>1 DEF Line
  <2>2. CASE po' # po
    <3>1. service = "suppliers" /\ PosNext
      BY <2>2 DEF Next
    <3>2. PosInv
      BY <3>1 DEF DocumentsInv
    <3> QED
      BY <1>2, <3>1, <3>2, PosMove
  <2> QED
    BY <2>1, <2>2
<1>3. ASSUME NEW d \in Cuts \cup Plans, work[d] # NoWork, work'[d] # work[d]
      PROVE  \/ LateWrite(d)
             \/ /\ work[d].status \notin Finished
                /\ \/ work'[d].status = work[d].status
                   \/ <<work[d].status, work'[d].status>> \in Moves(d)
  <2>1. service \in {"production", "wip"}
    BY <1>3 DEF Next, productionVars
  <2>2. service = "production" /\ WorkNext
    BY <1>3, <2>1 DEF Next, WipNext, CreateWip, ReadWip, UpdateWip, productionVars
  <2>3. WorkInv
    BY <2>2 DEF DocumentsInv
  <2> QED
    BY <1>3, <2>2, <2>3, WorkMove
<1> QED
  BY <1>1, <1>2, <1>3

\* Every document moves along the life cycle of its kind, except by a request that
\* holds an old copy of it; the line of a purchase order changes only while it is a
\* draft, except by such a request and by an edit of another draft that names it.
THEOREM DocumentsFollowLifeCycles == Spec => LifeCycles
<1>1. DocumentsInv /\ [Next]_vars =>
        [\A o \in Orders :
           (order[o] # NoOrder /\ order'[o].status # order[o].status) =>
             <<order[o].status, order'[o].status>> \in OrderMoves \/ LateWrite(o)]_orderVars
  BY DocumentsMove DEF vars
<1>2. DocumentsInv /\ [Next]_vars =>
        [\A p \in Pos : po[p] # NoPo =>
           /\ po'[p].status # po[p].status =>
                LateWrite(p) \/ <<po[p].status, po'[p].status>> \in PoMoves
           /\ Line(po'[p]) # Line(po[p]) =>
                LateWrite(p) \/ EditElsewhere(p) \/ po[p].status = "DRAFT"]_po
  BY DocumentsMove DEF vars
<1>3. DocumentsInv /\ [Next]_vars =>
        [\A d \in Cuts \cup Plans : (work[d] # NoWork /\ work'[d] # work[d]) =>
           \/ LateWrite(d)
           \/ /\ work[d].status \notin Finished
              /\ \/ work'[d].status = work[d].status
                 \/ <<work[d].status, work'[d].status>> \in Moves(d)]_work
  BY DocumentsMove DEF vars, productionVars
<1> QED
  BY <1>1, <1>2, <1>3, DocumentsHold, PTL
    DEF Spec, LifeCycles, OrderLifeCycle, PoLifeCycle, ProductionLifeCycle

=============================================================================

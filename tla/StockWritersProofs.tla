------------------------- MODULE StockWritersProofs -------------------------
(***************************************************************************)
(* No write to a stock row is lost, whoever writes it: the inventory       *)
(* service, the adjustments offline clients push, or MRP.                  *)
(***************************************************************************)
EXTENDS StockWriters, InventoryProofs

-----------------------------------------------------------------------------
(* Replaying the writes of a row.                                          *)

SetWrites == [op : {"set"}, onHand : Int]

LevelWrites == [op : {"levels"}, levels : MrpLevels]

AdjustWrites == [op : {"initial", "adjust"}, type : AdjustmentTypes, qty : Int]

Writings == SetWrites \cup LevelWrites \cup AdjustWrites

Replay(base, h) == FoldLeft(ReplayWrite, base, h)

LEMMA AdjustedType ==
    ASSUME NEW row \in Row, NEW type \in AdjustmentTypes, NEW q \in Int
    PROVE  /\ Adjusted(row, type, q) \in Row
           /\ Adjusted(row, type, q).present = row.present
  <1>1. CASE type \in {"RECEIPT", "ISSUE", "ALLOCATE", "DEALLOCATE", "PO_PLACED"}
    <2>1. /\ [row EXCEPT !.onHand = @ + q] \in Row /\ [row EXCEPT !.onHand = @ - q] \in Row
          /\ [row EXCEPT !.onHand = @ + q].present = row.present
          /\ [row EXCEPT !.onHand = @ - q].present = row.present
      BY DEF Row
    <2>2. /\ [row EXCEPT !.allocated = @ + q] \in Row /\ [row EXCEPT !.allocated = @ - q] \in Row
          /\ [row EXCEPT !.allocated = @ + q].present = row.present
          /\ [row EXCEPT !.allocated = @ - q].present = row.present
      BY DEF Row
    <2>3. /\ [row EXCEPT !.onOrder = @ + q] \in Row
          /\ [row EXCEPT !.onOrder = @ + q].present = row.present
      BY DEF Row
    <2>4. CASE type = "RECEIPT"
      BY <2>1, <2>4 DEF Adjusted
    <2>5. CASE type = "ISSUE"
      BY <2>1, <2>5 DEF Adjusted
    <2>6. CASE type = "ALLOCATE"
      BY <2>2, <2>6 DEF Adjusted
    <2>7. CASE type = "DEALLOCATE"
      BY <2>2, <2>7 DEF Adjusted
    <2>8. CASE type = "PO_PLACED"
      BY <2>3, <2>8 DEF Adjusted
    <2> QED
      BY <1>1, <2>4, <2>5, <2>6, <2>7, <2>8
  <1>2. CASE type = "PO_RECEIVED"
    <2> DEFINE new == [row EXCEPT !.onOrder = row.onOrder - q, !.onHand = row.onHand + q]
    <2>1. [row EXCEPT !.onOrder = @ - q, !.onHand = @ + q] = new
      BY DEF Row
    <2>2. row.onOrder - q \in Int /\ row.onHand + q \in Int
      BY DEF Row
    <2>3. \A onHand, onOrder \in Int :
             /\ [row EXCEPT !.onOrder = onOrder, !.onHand = onHand] \in Row
             /\ [row EXCEPT !.onOrder = onOrder, !.onHand = onHand].present = row.present
      BY DEF Row
    <2>4. new \in Row /\ new.present = row.present
      BY <2>2, <2>3
    <2> HIDE DEF new
    <2> QED
      BY <1>2, <2>1, <2>4 DEF Adjusted
  <1> QED
    BY <1>1, <1>2 DEF AdjustmentTypes

LEMMA ColumnsSet ==
    ASSUME NEW row \in Row, NEW onHand \in Int, NEW allocated \in Int, NEW onOrder \in Int
    PROVE  /\ [row EXCEPT !.present = TRUE, !.onHand = onHand, !.allocated = allocated,
                          !.onOrder = onOrder] \in Row
           /\ [row EXCEPT !.present = TRUE, !.onHand = onHand, !.allocated = allocated,
                          !.onOrder = onOrder].present = TRUE
  BY DEF Row

LEMMA InitialType ==
    ASSUME NEW type, NEW q \in Int
    PROVE  InitialRow(type, q) \in Row /\ InitialRow(type, q).present = TRUE
  <1>0. Absent \in Row
    BY DEF Absent, Row
  <1>1. PICK row \in Row : row = Absent
    BY <1>0
  <1>2. PICK onHand \in Int : onHand = IF type \in {"RECEIPT", "PO_RECEIVED"} THEN q ELSE 0
    OBVIOUS
  <1>3. PICK allocated \in Int : allocated = IF type = "ALLOCATE" THEN q ELSE 0
    OBVIOUS
  <1>4. PICK onOrder \in Int : onOrder = IF type = "PO_PLACED" THEN q ELSE 0
    OBVIOUS
  <1>5. InitialRow(type, q) = [row EXCEPT !.present = TRUE, !.onHand = onHand,
                                 !.allocated = allocated, !.onOrder = onOrder]
    BY <1>1, <1>2, <1>3, <1>4, Zenon DEF InitialRow
  <1>6. LET new == [row EXCEPT !.present = TRUE, !.onHand = onHand,
                               !.allocated = allocated, !.onOrder = onOrder]
        IN  new \in Row /\ new.present = TRUE
    BY ColumnsSet
  <1> QED
    BY <1>5, <1>6, Zenon

LEMMA LevelsType ==
    ASSUME NEW row \in Row, NEW lv \in MrpLevels
    PROVE  WithLevels(row, lv) \in Row /\ WithLevels(row, lv).present = TRUE
  <1>1. lv.onHand \in Int /\ lv.allocated \in Int /\ lv.onOrder \in Int
    BY WritersAssumption
  <1> QED
    BY <1>1, ColumnsSet DEF WithLevels

LEMMA ReplayWriteType ==
    ASSUME NEW row \in Row, NEW w \in Writings
    PROVE  ReplayWrite(row, w) \in Row
  <1>1. CASE w \in SetWrites
    BY <1>1 DEF SetWrites, ReplayWrite, Row
  <1>2. CASE w \in LevelWrites
    BY <1>2, LevelsType DEF LevelWrites, ReplayWrite
  <1>3. CASE w \in AdjustWrites
    <2>1. w.op \in {"initial", "adjust"} /\ w.type \in AdjustmentTypes /\ w.qty \in Int
      BY <1>3 DEF AdjustWrites
    <2> QED
      BY <2>1, AdjustedType, InitialType DEF ReplayWrite
  <1> QED
    BY <1>1, <1>2, <1>3 DEF Writings

\* The rows a replay goes through.
IsReplay(P, base, h) ==
    /\ P \in [0 .. Len(h) -> Row]
    /\ P[0] = base
    /\ \A i \in 1 .. Len(h) : P[i] = ReplayWrite(P[i - 1], h[i])

LEMMA ReplayGoes ==
    ASSUME NEW h \in Seq(Writings), NEW base \in Row
    PROVE  \E P : IsReplay(P, base, h) /\ Replay(base, h) = P[Len(h)]
  <1> DEFINE n == Len(h)
             Step(f) == [s \in SUBSET (1 .. n) |->
                IF s = {} THEN base ELSE ReplayWrite(f[s \ {Max(s)}], h[Max(s)])]
             F == CHOOSE f : f = Step(f)
             g == [i \in 1 .. n |-> [row \in Row |-> ReplayWrite(row, h[i])]]
             P == [k \in 0 .. n |-> F[1 .. k]]
  <1>1. n \in Nat /\ \A i \in 1 .. n : h[i] \in Writings
    OBVIOUS
  <1>2. Replay(base, h) = F[1 .. n]
    <2>1. DOMAIN h = 1 .. n
      OBVIOUS
    <2> QED
      BY <2>1 DEF Replay, FoldLeft, MapThenFoldSet
  <1> HIDE DEF n
  <1>3. \A i \in 1 .. n : \A row \in Row : g[i][row] = ReplayWrite(row, h[i])
    OBVIOUS
  <1>4. \A i \in 1 .. n : \A row \in Row : g[i][row] \in Row
    BY <1>1, <1>3, ReplayWriteType
  <1> HIDE DEF g
  <1>5. F = Step(F)
    <2>1. PICK f : IsFold(f, n, Row, base, g)
      BY <1>1, <1>4, FoldFunctionExists
    <2>2. \A s \in SUBSET (1 .. n) : s # {} => Max(s) \in 1 .. n
      BY <1>1, MaxIsMember
    <2>3. ASSUME NEW s \in SUBSET (1 .. n)
          PROVE  f[s] = IF s = {} THEN base ELSE ReplayWrite(f[s \ {Max(s)}], h[Max(s)])
      <3>1. f[s \ {Max(s)}] \in Row
        BY <2>1 DEF IsFold
      <3> QED
        BY <1>3, <2>1, <2>2, <3>1 DEF IsFold
    <2>4. f = Step(f)
      BY <2>1, <2>3 DEF IsFold
    <2> QED
      BY <2>4
  <1>6. \A s \in SUBSET (1 .. n) :
           F[s] = IF s = {} THEN base ELSE ReplayWrite(F[s \ {Max(s)}], h[Max(s)])
    BY <1>5
  <1> HIDE DEF F, Step
  <1>7. P[0] = base
    <2>1. 1 .. 0 = {} /\ {} \in SUBSET (1 .. n) /\ 0 \in 0 .. n
      BY <1>1
    <2>2. F[{}] = base
      BY <1>6, <2>1
    <2> QED
      BY <2>1, <2>2
  <1>8. ASSUME NEW i \in 1 .. n PROVE P[i] = ReplayWrite(P[i - 1], h[i])
    <2>1. i \in 0 .. n /\ i - 1 \in 0 .. n
      BY <1>1
    <2>2. F[1 .. i] = ReplayWrite(F[1 .. (i - 1)], h[i])
      BY <1>1, <1>6, IntervalLosesLast
    <2> QED
      BY <2>1, <2>2
  <1>9. DOMAIN P = 0 .. n /\ P = [k \in 0 .. n |-> P[k]] /\ P[n] = F[1 .. n]
    BY <1>1
  <1> HIDE DEF P
  <1>10. \A k \in 0 .. n : P[k] \in Row
    <2> DEFINE T == {k \in Nat : k <= n => P[k] \in Row}
    <2>1. 0 \in T
      BY <1>7
    <2>2. ASSUME NEW k \in T PROVE k + 1 \in T
      <3>1. k \in Nat
        OBVIOUS
      <3>2. k + 1 <= n => k <= n /\ k + 1 \in 1 .. n /\ (k + 1) - 1 = k
        BY <1>1, <3>1
      <3>3. k + 1 <= n => P[k + 1] = ReplayWrite(P[k], h[k + 1]) /\ h[k + 1] \in Writings
        BY <1>1, <1>8, <3>2
      <3> QED
        BY <3>1, <3>2, <3>3, ReplayWriteType
    <2>3. T = Nat
      BY <2>1, <2>2, SetInduction
    <2> TAKE k \in 0 .. n
    <2>4. k \in Nat /\ k <= n
      BY <1>1
    <2> HIDE DEF T
    <2>5. k \in T
      BY <2>3, <2>4
    <2> QED
      BY <2>4, <2>5 DEF T
  <1>11. IsReplay(P, base, h)
    BY <1>7, <1>8, <1>9, <1>10 DEF IsReplay, n
  <1> QED
    BY <1>2, <1>9, <1>11 DEF n

\* One more write is applied to the row the writes before it give.
LEMMA ReplayAppend ==
    ASSUME NEW h \in Seq(Writings), NEW base \in Row, NEW w \in Writings
    PROVE  /\ Replay(base, Append(h, w)) = ReplayWrite(Replay(base, h), w)
           /\ Replay(base, h) \in Row
  <1> DEFINE a == Append(h, w)
             n == Len(h)
  <1>1. /\ n \in Nat /\ a \in Seq(Writings) /\ Len(a) = n + 1 /\ a[n + 1] = w
        /\ \A i \in 1 .. n : a[i] = h[i]
    OBVIOUS
  <1> HIDE DEF a
  <1>2. PICK P : IsReplay(P, base, h) /\ Replay(base, h) = P[n]
    BY ReplayGoes
  <1>3. PICK Q : IsReplay(Q, base, a) /\ Replay(base, a) = Q[n + 1]
    BY <1>1, ReplayGoes
  <1> DEFINE T == {k \in Nat : k <= n => Q[k] = P[k]}
  <1>4. 0 \in T
    BY <1>2, <1>3 DEF IsReplay
  <1>5. ASSUME NEW k \in T PROVE k + 1 \in T
    <2>1. k \in Nat
      OBVIOUS
    <2>2. k + 1 <= n => k <= n /\ k + 1 \in 1 .. n /\ k + 1 \in 1 .. (n + 1) /\ (k + 1) - 1 = k
      BY <1>1, <2>1
    <2>3. k + 1 <= n => P[k + 1] = ReplayWrite(P[k], h[k + 1])
      BY <1>2, <2>2 DEF IsReplay
    <2>4. k + 1 <= n => Q[k + 1] = ReplayWrite(Q[k], a[k + 1])
      BY <1>1, <1>3, <2>2 DEF IsReplay
    <2> QED
      BY <1>1, <2>1, <2>2, <2>3, <2>4
  <1>6. T = Nat
    BY <1>4, <1>5, SetInduction
  <1> HIDE DEF T
  <1>7. n \in T
    BY <1>1, <1>6
  <1>8. Q[n] = P[n]
    BY <1>1, <1>7 DEF T
  <1>9. n + 1 \in 1 .. (n + 1) /\ (n + 1) - 1 = n /\ n \in 0 .. n
    BY <1>1
  <1>10. Q[n + 1] = ReplayWrite(Q[n], w)
    BY <1>1, <1>3, <1>9 DEF IsReplay
  <1>11. P[n] \in Row
    BY <1>2, <1>9 DEF IsReplay
  <1> QED
    BY <1>2, <1>3, <1>8, <1>10, <1>11 DEF a

\* A write leaves rows that agree on the columns it does not set in agreement.
LEMMA SameColumns ==
    ASSUME NEW row \in Row, NEW other \in Row, Columns(row) = Columns(other), NEW w \in Writings
    PROVE  Columns(ReplayWrite(row, w)) = Columns(ReplayWrite(other, w))
  <1>1. /\ row.onHand = other.onHand /\ row.allocated = other.allocated
        /\ row.onOrder = other.onOrder
    BY DEF Columns
  <1>2. CASE w \in SetWrites
    BY <1>1, <1>2 DEF SetWrites, ReplayWrite, Columns, Row
  <1>3. CASE w \in LevelWrites
    BY <1>3 DEF LevelWrites, ReplayWrite, WithLevels, Columns, Row
  <1>4. CASE w \in AdjustWrites
    <2>1. w.op \in {"initial", "adjust"} /\ w.type \in AdjustmentTypes /\ w.qty \in Int
      BY <1>4 DEF AdjustWrites
    <2>2. CASE w.op = "initial"
      BY <2>2 DEF ReplayWrite
    <2>3. CASE w.op = "adjust"
      BY <1>1, <2>1, <2>3 DEF ReplayWrite, Adjusted, AdjustmentTypes, Columns, Row
    <2> QED
      BY <2>1, <2>2, <2>3
  <1> QED
    BY <1>2, <1>3, <1>4 DEF Writings

-----------------------------------------------------------------------------
(* What the writers know of the rows they hold.                            *)

SyncRequest == [pc : SyncPCs, type : AdjustmentTypes, key : Keys \cup {None}, qty : Int]

WTypes ==
    /\ TablesInv
    /\ lock \in [Keys -> Requests \cup Mutations \cup {None}]
    /\ sync \in [Mutations -> SyncRequest]
    /\ history \in [Keys -> Seq(Writings)]

RowsOf(r, k) == {i \in DOMAIN req[r].rows : req[r].rows[i].leg.key = k}

\* The uncommitted row of an operation keeps the columns it does not set, and has
\* the on-hand quantity its commit will publish, unless its upsert is pending.
HeldByRequest(r, k) ==
    /\ req[r].pc \in {"read", "write", "commit"}
    /\ dirty[k].present
    /\ dirty[k].allocated = balance[k].allocated /\ dirty[k].onOrder = balance[k].onOrder
    /\ req[r].legs # <<>> => RowsOf(r, k) # {}
    /\ (req[r].pc = "write" => req[r].key # k) => dirty[k].onHand = Published(r, k)

\* The upsert that is pending writes the balance of the last row inserted.
PendingRow(r) ==
    (req[r].pc = "write" /\ req[r].legs # <<>>) =>
        /\ req[r].rows # <<>>
        /\ req[r].rows[Len(req[r].rows)].leg.key = req[r].key
        /\ req[r].rows[Len(req[r].rows)].balanceQty = req[r].onHand

\* The uncommitted row of a pushed adjustment is the committed one adjusted.
HeldByPush(p, k) ==
    /\ sync[p].pc = "commit" /\ sync[p].key = k
    /\ dirty[k] = IF balance[k].present THEN Adjusted(balance[k], sync[p].type, sync[p].qty)
                                        ELSE InitialRow(sync[p].type, sync[p].qty)

PushKnows(p) ==
    /\ SyncInTx(p) => sync[p].key \in Keys
    /\ sync[p].pc = "update" => balance[sync[p].key].present
    /\ sync[p].pc = "commit" => lock[sync[p].key] = p

AbsentIsEmpty(k) == ~balance[k].present => balance[k].allocated = 0 /\ balance[k].onOrder = 0

WInv ==
    /\ WTypes
    /\ \A k \in Keys : AbsentIsEmpty(k)
    /\ \A k \in Keys : \A r \in Requests : lock[k] = r => HeldByRequest(r, k)
    /\ \A k \in Keys : \A p \in Mutations : lock[k] = p => HeldByPush(p, k)
    /\ \A r \in Requests : PendingRow(r)
    /\ \A p \in Mutations : PushKnows(p)
    /\ RowsReplay

\* The row a key starts from.
Base(k) == [Absent EXCEPT !.onHand = Opening[k]]

LEMMA BaseType ==
    ASSUME NEW k \in Keys
    PROVE  /\ Base(k) \in Row
           /\ Base(k).onHand = Opening[k] /\ Base(k).allocated = 0 /\ Base(k).onOrder = 0
  <1>1. Absent \in Row /\ Absent.allocated = 0 /\ Absent.onOrder = 0
    BY DEF Absent, Row
  <1>2. PICK row \in Row : row = Absent
    BY <1>1
  <1>3. PICK n \in Int : n = Opening[k]
    BY InventoryAssumption
  <1>4. LET new == [row EXCEPT !.onHand = n]
        IN  /\ new \in Row /\ new.onHand = n
            /\ new.allocated = row.allocated /\ new.onOrder = row.onOrder
    BY DEF Row
  <1> QED
    BY <1>1, <1>2, <1>3, <1>4, Zenon DEF Base

LEMMA PublishedSame ==
    ASSUME NEW r, NEW k, req'[r] = req[r]
    PROVE  Published(r, k)' = Published(r, k) /\ RowsOf(r, k)' = RowsOf(r, k)
  BY DEF Published, RowsOf

\* What a request knows of the rows it holds stays true while others move.
LEMMA SameHolds ==
    ASSUME NEW r \in Requests, NEW k \in Keys, HeldByRequest(r, k), req'[r] = req[r],
           dirty'[k] = dirty[k], balance'[k] = balance[k]
    PROVE  HeldByRequest(r, k)'
  BY PublishedSame DEF HeldByRequest

LEMMA SamePush ==
    ASSUME NEW p \in Mutations, NEW k \in Keys, HeldByPush(p, k), sync'[p] = sync[p],
           dirty'[k] = dirty[k], balance'[k] = balance[k]
    PROVE  HeldByPush(p, k)'
  BY DEF HeldByPush

LEMMA WritersInit == WInit => WInv
  <1> SUFFICES ASSUME WInit PROVE WInv
    OBVIOUS
  <1>1. TablesInv
    BY InitType, TypedTables DEF WInit
  <1>2. /\ \A k \in Keys : lock[k] = None
        /\ lock \in [Keys -> Requests \cup Mutations \cup {None}]
    BY DEF WInit, Init
  <1>3. SyncIdle \in SyncRequest /\ sync = [p \in Mutations |-> SyncIdle] /\ SyncIdle.pc = "idle"
    BY DEF WInit, SyncIdle, SyncRequest, SyncPCs, AdjustmentTypes
  <1>4. \A k \in Keys : history[k] = <<>>
    BY DEF WInit
  <1>5. WTypes
    BY <1>1, <1>2, <1>3 DEF WTypes, WInit
  <1>6. ASSUME NEW k \in Keys
        PROVE  /\ balance[k].onHand = Opening[k]
               /\ balance[k].allocated = 0 /\ balance[k].onOrder = 0
    <2>1. Opening[k] \in Nat
      BY InventoryAssumption
    <2>2. balance[k] = IF Opening[k] = 0 THEN Absent ELSE Upserted(Absent, Opening[k], 0)
      BY DEF WInit, Init
    <2>3. Upserted(Absent, Opening[k], 0) =
            [present |-> TRUE, onHand |-> Opening[k], reserved |-> 0,
             available |-> AtLeastZero(Opening[k]), allocated |-> 0, onOrder |-> 0]
      BY DEF Upserted, Absent
    <2>4. Absent.onHand = 0 /\ Absent.allocated = 0 /\ Absent.onOrder = 0
      BY DEF Absent
    <2> QED
      BY <2>1, <2>2, <2>3, <2>4
  <1>7. RowsReplay
    <2> SUFFICES ASSUME NEW k \in Keys
                 PROVE  Columns(balance[k]) = Columns(Replay(Base(k), history[k]))
      BY DEF RowsReplay, Replay, Base
    <2>1. Replay(Base(k), <<>>) = Base(k)
      <3>0. <<>> \in Seq(Writings)
        OBVIOUS
      <3>1. PICK h \in Seq(Writings) : h = <<>>
        BY <3>0
      <3>2. PICK P : IsReplay(P, Base(k), h) /\ Replay(Base(k), h) = P[Len(h)]
        BY BaseType, ReplayGoes
      <3>3. P[0] = Base(k)
        BY <3>2 DEF IsReplay
      <3> QED
        BY <3>1, <3>2, <3>3
    <2>2. Columns(Base(k)) = <<Opening[k], 0, 0>>
      BY BaseType DEF Columns
    <2>3. Columns(balance[k]) = <<Opening[k], 0, 0>>
      BY <1>6 DEF Columns
    <2> QED
      BY <1>4, <2>1, <2>2, <2>3
  <1>8. \A r \in Requests : PendingRow(r)
    BY DEF WInit, Init, Idle, PendingRow
  <1>9. \A p \in Mutations : PushKnows(p)
    BY <1>3 DEF PushKnows, SyncInTx
  <1>10. \A k \in Keys : lock[k] \notin Requests /\ lock[k] \notin Mutations
    BY <1>2, InventoryAssumption, WritersAssumption
  <1> QED
    BY <1>5, <1>6, <1>7, <1>8, <1>9, <1>10 DEF WInv, AbsentIsEmpty

-----------------------------------------------------------------------------
(* The steps of the inventory service.                                     *)

\* A step of r leaves alone the rows that others hold.
LEMMA OthersRows ==
    ASSUME WTypes, NEW r \in Requests, Arrive(r) \/ Work(r) \/ Rollback(r),
           NEW k \in Keys, lock[k] \notin {r, None} \/ lock'[k] \notin {r, None}
    PROVE  lock'[k] = lock[k] /\ dirty'[k] = dirty[k] /\ balance'[k] = balance[k]
  <1>1. TablesInv /\ lock \in [Keys -> Requests \cup Mutations \cup {None}]
        /\ dirty \in [Keys -> Row] /\ balance \in [Keys -> Row]
    BY DEF WTypes, TablesInv, TablesOK
  <1>2. CASE Arrive(r) \/ BeginPostGrn(r) \/ ReadBalance(r) \/ SumLedger(r) \/ ReadReserved(r)
             \/ EmitGrnPosted(r) \/ DropGrnPosted(r)
    BY <1>2 DEF Arrive, BeginMovement, FetchGrn, BeginRebuild, BeginPostGrn, ReadBalance,
                SumLedger, ReadReserved, EmitGrnPosted, DropGrnPosted
  <1>3. CASE RefuseInsufficient(r) \/ AbortDeadlock(r) \/ Rollback(r)
    BY <1>3 DEF RefuseInsufficient, AbortDeadlock, Rollback, DropWrites
  <1>4. CASE Commit(r)
    BY <1>4 DEF Commit
  <1>5. CASE UpsertBalance(r)
    <2>1. PICK key : key = req[r].key
      OBVIOUS
    <2>2. /\ lock[key] \in {r, None} /\ lock' = [lock EXCEPT ![key] = r] /\ balance' = balance
          /\ dirty' = [dirty EXCEPT ![key] = Upserted(View(r, key), req[r].onHand, req[r].reserved)]
      BY <1>5, <2>1 DEF UpsertBalance
    <2>3. k # key
      BY <1>1, <2>2
    <2> QED
      BY <1>1, <2>2, <2>3
  <1> QED
    BY <1>2, <1>3, <1>4, <1>5 DEF Work

\* What remains to be shown of a step of r.
LEMMA ServiceKeeps ==
    ASSUME WInv, NEW r \in Requests, Next, Arrive(r) \/ Work(r) \/ Rollback(r), sync' = sync,
           history' \in [Keys -> Seq(Writings)],
           \A k \in Keys : lock'[k] = r => HeldByRequest(r, k)',
           PendingRow(r)',
           \A k \in Keys : AbsentIsEmpty(k)' /\ (balance[k].present => balance'[k].present),
           RowsReplay'
    PROVE  WInv'
  <1>1. WTypes /\ TablesInv /\ TablesInv'
    BY TablesStep DEF WInv, WTypes
  <1>2. \A k \in Keys : lock[k] \notin {r, None} \/ lock'[k] \notin {r, None} =>
           lock'[k] = lock[k] /\ dirty'[k] = dirty[k] /\ balance'[k] = balance[k]
    BY <1>1, OthersRows
  <1>3. lock' \in [Keys -> Requests \cup Mutations \cup {None}]
    <2>1. lock \in [Keys -> Requests \cup Mutations \cup {None}]
          /\ lock = [k \in Keys |-> lock[k]]
      BY <1>1 DEF WTypes
    <2>2. HoldersOpen
      BY DEF WInv, HoldersOpen, HeldByRequest, InTx
    <2>3. lock' = [k \in Keys |-> lock'[k]]
      BY <1>1, <2>1, <2>2, LocksStep
    <2>4. \A k \in Keys : lock'[k] \in Requests \cup Mutations \cup {None}
      BY <1>2, <2>1
    <2> QED
      BY <2>3, <2>4
  <1>4. WTypes'
    BY <1>1, <1>3 DEF WTypes
  <1>5. \A s \in Requests \ {r} : req'[s] = req[s]
    BY <1>1, OthersStay
  <1>6. ASSUME NEW k \in Keys, NEW s \in Requests, lock'[k] = s
        PROVE  HeldByRequest(s, k)'
    <2>1. CASE s # r
      <3>1. lock'[k] \notin {r, None}
        BY <1>6, <2>1, InventoryAssumption
      <3> QED
        BY <1>2, <1>5, <1>6, <2>1, <3>1, SameHolds DEF WInv
    <2> QED
      BY <1>6, <2>1
  <1>7. ASSUME NEW k \in Keys, NEW p \in Mutations, lock'[k] = p
        PROVE  HeldByPush(p, k)'
    <2>1. lock'[k] \notin {r, None}
      BY <1>7, WritersAssumption
    <2>2. lock[k] = p /\ dirty'[k] = dirty[k] /\ balance'[k] = balance[k]
      BY <1>2, <1>7, <2>1
    <2> QED
      BY <2>2, SamePush DEF WInv
  <1>8. \A s \in Requests : PendingRow(s)'
    BY <1>5 DEF WInv, PendingRow
  <1>9. ASSUME NEW p \in Mutations PROVE PushKnows(p)'
    <2>1. PushKnows(p)
      BY DEF WInv
    <2>2. sync[p].pc = "commit" => lock'[sync[p].key] = p
      <3>1. SUFFICES ASSUME sync[p].pc = "commit" PROVE lock'[sync[p].key] = p
        OBVIOUS
      <3>2. sync[p].key \in Keys /\ lock[sync[p].key] = p
        BY <2>1, <3>1 DEF PushKnows, SyncInTx
      <3>3. p \notin {r, None}
        BY WritersAssumption
      <3> QED
        BY <1>2, <3>2, <3>3
    <2>3. SyncInTx(p)' = SyncInTx(p)
      BY DEF SyncInTx
    <2>4. sync[p].pc = "update" => balance'[sync[p].key].present
      BY <2>1 DEF PushKnows, SyncInTx
    <2> QED
      BY <2>1, <2>2, <2>3, <2>4 DEF PushKnows
  <1> QED
    BY <1>4, <1>6, <1>7, <1>8, <1>9 DEF WInv

\* No step but a commit is noted in the history, or changes a committed row.
LEMMA QuietStep ==
    ASSUME WInv, NEW r \in Requests, Arrive(r) \/ Work(r) \/ Rollback(r), ~Commit(r), InventoryStep
    PROVE  balance' = balance /\ history' = history
  <1>1. balance' = balance
    BY OnlyCommitMoves
  <1>2. TablesInv /\ req[r] \in Request /\ history \in [Keys -> Seq(Writings)]
    BY DEF WInv, WTypes, TablesInv, TablesOK
  <1>3. \A s \in Requests \ {r} : req'[s] = req[s]
    BY <1>2, OthersStay
  <1>4. req[r].pc = "commit" => req'[r].pc = "failed"
    <2>1. CASE Rollback(r)
      BY <1>2, <2>1 DEF Rollback, Goto, TablesInv, TablesOK, Request
    <2>2. CASE AbortDeadlock(r)
      BY <1>2, <2>2 DEF AbortDeadlock, Goto, TablesInv, TablesOK, Request
    <2>3. CASE ~Rollback(r) /\ ~AbortDeadlock(r)
      BY <2>3 DEF Arrive, BeginMovement, FetchGrn, BeginRebuild, Work, BeginPostGrn, ReadBalance,
         RefuseInsufficient, SumLedger, ReadReserved, UpsertBalance, EmitGrnPosted, DropGrnPosted
    <2> QED
      BY <2>1, <2>2, <2>3
  <1>5. \A s \in Requests :
           ~(req[s].pc = "commit" /\ req'[s].pc # "failed" /\ req'[s].pc # "commit")
    BY <1>3, <1>4
  <1>6. history' = [k \in Keys |-> history[k]]
    BY <1>5 DEF InventoryStep
  <1> QED
    BY <1>1, <1>2, <1>6

LEMMA QuietKeeps ==
    ASSUME WInv, NEW r \in Requests, Arrive(r) \/ Work(r) \/ Rollback(r), ~Commit(r), InventoryStep,
           \A k \in Keys : lock'[k] = r => HeldByRequest(r, k)',
           PendingRow(r)'
    PROVE  WInv'
  <1>1. balance' = balance /\ history' = history
    BY QuietStep
  <1>2. Next /\ sync' = sync /\ history' \in [Keys -> Seq(Writings)]
    BY <1>1 DEF InventoryStep, WInv, WTypes
  <1>3. RowsReplay' /\ \A k \in Keys : AbsentIsEmpty(k)'
    BY <1>1 DEF RowsReplay, AbsentIsEmpty, WInv
  <1> QED
    BY <1>1, <1>2, <1>3, ServiceKeeps

\* The steps before the first lock of r and after its last.
LEMMA UnlockedKeeps ==
    ASSUME WInv, NEW r \in Requests, InventoryStep,
           \/ Arrive(r) \/ BeginPostGrn(r) \/ SumLedger(r) \/ ReadReserved(r)
           \/ EmitGrnPosted(r) \/ DropGrnPosted(r)
           \/ RefuseInsufficient(r) \/ AbortDeadlock(r) \/ Rollback(r)
    PROVE  WInv'
  <1>1. req[r] \in Request /\ LegsAsAsked(r) /\ req \in [Requests -> Request]
    BY DEF WInv, WTypes, TablesInv, TablesOK, RequestsSound
  <1>2. Arrive(r) \/ Work(r) \/ Rollback(r)
    BY DEF Work
  <1>3. ~Commit(r)
    <2> SUFFICES ASSUME Commit(r) PROVE FALSE
      OBVIOUS
    <2>1. req[r].pc = "commit" /\ req'[r].pc \in {"done", "emit"}
      BY <1>1 DEF Commit, Goto, Request
    <2>2. CASE Rollback(r) \/ AbortDeadlock(r)
      BY <1>1, <2>1, <2>2 DEF Rollback, AbortDeadlock, Goto, Request
    <2>3. CASE ~Rollback(r) /\ ~AbortDeadlock(r)
      BY <2>1, <2>3 DEF Arrive, BeginMovement, FetchGrn, BeginRebuild, BeginPostGrn, SumLedger,
           ReadReserved, EmitGrnPosted, DropGrnPosted, RefuseInsufficient
    <2> QED
      BY <2>2, <2>3
  <1>4. ASSUME NEW k \in Keys PROVE lock'[k] # r
    <2>1. CASE RefuseInsufficient(r) \/ AbortDeadlock(r) \/ Rollback(r)
      BY <2>1, InventoryAssumption DEF RefuseInsufficient, AbortDeadlock, Rollback, DropWrites
    <2>2. CASE \/ Arrive(r) \/ BeginPostGrn(r) \/ SumLedger(r) \/ ReadReserved(r)
               \/ EmitGrnPosted(r) \/ DropGrnPosted(r)
      <3>1. lock' = lock /\ req[r].pc \notin {"read", "write", "commit"}
        BY <2>2 DEF Arrive, BeginMovement, FetchGrn, BeginRebuild, BeginPostGrn,
             SumLedger, ReadReserved, EmitGrnPosted, DropGrnPosted
      <3> QED
        BY <3>1 DEF WInv, HeldByRequest
    <2> QED
      BY <2>1, <2>2
  <1>5. PendingRow(r)'
    <2>1. CASE ReadReserved(r)
      <3>1. req[r].legs = <<>>
        BY <1>1, <2>1 DEF LegsAsAsked, ReadReserved
      <3>2. req'[r].legs = req[r].legs
        BY <1>1, <2>1 DEF ReadReserved, Request
      <3> QED
        BY <3>1, <3>2 DEF PendingRow
    <2>2. CASE Arrive(r)
      <3>1. PICK q : req' = [req EXCEPT ![r] = q] /\ q.pc \in {"read", "fetched", "rejected", "sum"}
        BY <2>2, ArriveTarget
      <3>2. req'[r].pc # "write"
        BY <1>1, <3>1
      <3> QED
        BY <3>2 DEF PendingRow
    <2>3. CASE ~ReadReserved(r) /\ ~Arrive(r)
      <3>1. req'[r].pc # "write"
        BY <1>1, <2>3 DEF BeginPostGrn, SumLedger, EmitGrnPosted, DropGrnPosted,
             RefuseInsufficient, AbortDeadlock, Rollback, Goto, Request
      <3> QED
        BY <3>1 DEF PendingRow
    <2> QED
      BY <2>1, <2>2, <2>3
  <1> QED
    BY <1>2, <1>3, <1>4, <1>5, QuietKeeps

\* The row of the leg that is read becomes the last of r for its key; the rows of
\* the other keys are as they were.
LEMMA ReadWriters ==
    ASSUME WInv, NEW r \in Requests, InventoryStep, ReadBalance(r)
    PROVE  WInv'
  <1>1. /\ req[r] \in Request /\ RowsFollowLegs(r) /\ req \in [Requests -> Request]
        /\ req[r].pc = "read" /\ UNCHANGED <<balance, dirty, lock>>
        /\ req' = [req EXCEPT ![r] = WithRow(r)]
    BY DEF WInv, WTypes, TablesInv, TablesOK, RequestsSound, ReadBalance
  <1> PICK legs \in Seq(Leg), rows \in Seq(Entry) : legs = req[r].legs /\ rows = req[r].rows
    BY <1>1 DEF Request
  <1> DEFINE n == Len(rows)
             leg == legs[n + 1]
             row == [leg |-> leg, balanceQty |-> NewOnHand(r)]
  <1>2. /\ req'[r].pc = "write" /\ req'[r].legs = legs /\ req'[r].key = leg.key
        /\ req'[r].rows = Append(rows, row) /\ req'[r].onHand = NewOnHand(r)
    BY <1>1 DEF WithRow, NextLeg
  <1>3. n \in Nat /\ n < Len(legs) /\ legs # <<>>
    BY <1>1 DEF RowsFollowLegs
  <1> PICK new : new = Append(rows, row)
    OBVIOUS
  <1>4. row.leg = leg /\ row.balanceQty = NewOnHand(r)
    OBVIOUS
  <1> HIDE DEF row
  <1>5. /\ Len(new) = n + 1 /\ DOMAIN new = 1 .. (n + 1) /\ DOMAIN rows = 1 .. n
        /\ new[n + 1] = row /\ \A i \in 1 .. n : new[i] = rows[i]
    BY <1>3
  <1> HIDE DEF leg
  <1>6. PendingRow(r)'
    <2>1. new # <<>> /\ new[Len(new)] = row
      BY <1>3, <1>5
    <2> QED
      BY <1>2, <1>4, <2>1 DEF PendingRow
  <1>7. ASSUME NEW k \in Keys, lock'[k] = r
        PROVE  HeldByRequest(r, k)'
    <2>1. HeldByRequest(r, k) /\ dirty'[k] = dirty[k] /\ balance'[k] = balance[k]
      BY <1>1, <1>7 DEF WInv
    <2>2. RowsOf(r, k) # {} /\ dirty[k].onHand = Published(r, k)
      BY <1>1, <1>3, <2>1 DEF HeldByRequest
    <2>3. RowsOf(r, k) \subseteq RowsOf(r, k)'
      BY <1>2, <1>5 DEF RowsOf
    <2>4. k # leg.key => Published(r, k)' = Published(r, k)
      <3> SUFFICES ASSUME k # leg.key PROVE Published(r, k)' = Published(r, k)
        OBVIOUS
      <3> DEFINE S == {i \in DOMAIN rows : rows[i].leg.key = k}
                 U == {i \in DOMAIN new : new[i].leg.key = k}
      <3>1. U = S
        BY <1>3, <1>4, <1>5
      <3>2. S \in SUBSET (1 .. n) /\ S # {}
        BY <1>5, <2>2 DEF RowsOf
      <3>3. Max(S) \in 1 .. n
        BY <1>3, <3>2, MaxIsMember
      <3>4. Published(r, k) = rows[Max(S)].balanceQty
        BY <1>3 DEF Published
      <3>5. Published(r, k)' = new[Max(U)].balanceQty
        BY <1>2, <1>3 DEF Published
      <3> QED
        BY <1>5, <3>1, <3>3, <3>4, <3>5
    <2> QED
      BY <1>2, <2>1, <2>2, <2>3, <2>4 DEF HeldByRequest
  <1>8. ~Commit(r)
    BY <1>1 DEF Commit
  <1> QED
    BY <1>6, <1>7, <1>8, QuietKeeps DEF Work

\* The upsert writes what the last row of its key says.
LEMMA UpsertWriters ==
    ASSUME WInv, NEW r \in Requests, InventoryStep, UpsertBalance(r)
    PROVE  WInv'
  <1>1. /\ req[r] \in Request /\ LegsAsAsked(r) /\ req \in [Requests -> Request]
        /\ dirty \in [Keys -> Row] /\ balance \in [Keys -> Row]
        /\ lock \in [Keys -> Requests \cup Mutations \cup {None}]
    BY DEF WInv, WTypes, TablesInv, TablesOK, RequestsSound
  <1>2. req[r].pc = "write" /\ req[r].key \in Keys
    BY <1>1 DEF UpsertBalance, LegsAsAsked
  <1> PICK key \in Keys : key = req[r].key
    BY <1>2
  <1> DEFINE row == Upserted(View(r, key), req[r].onHand, req[r].reserved)
             label == IF Len(req[r].rows) < Len(req[r].legs) THEN "read" ELSE "commit"
  <1>3. /\ lock[key] \in {r, None} /\ lock' = [lock EXCEPT ![key] = r] /\ balance' = balance
        /\ dirty' = [dirty EXCEPT ![key] = row]
        /\ req' = [req EXCEPT ![r].pc = label]
    BY DEF UpsertBalance, Goto
  <1>4. label \in {"read", "commit"}
    OBVIOUS
  <1> HIDE DEF row, label
  <1>5. /\ req'[r].pc = label /\ req'[r].legs = req[r].legs /\ req'[r].rows = req[r].rows
        /\ req'[r].onHand = req[r].onHand
    BY <1>1, <1>3, <1>4 DEF Request
  <1>6. \A k \in Keys : RowsOf(r, k)' = RowsOf(r, k) /\ Published(r, k)' = Published(r, k)
    BY <1>5 DEF RowsOf, Published
  <1>7. PendingRow(r)'
    BY <1>4, <1>5 DEF PendingRow
  <1>8. View(r, key) \in Row
    BY <1>1 DEF View
  <1>9. /\ row.present /\ row.onHand = req[r].onHand
        /\ row.allocated = balance[key].allocated /\ row.onOrder = balance[key].onOrder
    <2>1. /\ View(r, key).allocated = balance[key].allocated
          /\ View(r, key).onOrder = balance[key].onOrder
          /\ ~View(r, key).present => balance[key].allocated = 0 /\ balance[key].onOrder = 0
      BY DEF WInv, HeldByRequest, View, AbsentIsEmpty
    <2>2. PICK seen \in Row : seen = View(r, key)
      BY <1>8
    <2>3. PICK onHand \in Int, reserved \in Nat : onHand = req[r].onHand /\ reserved = req[r].reserved
      BY <1>1 DEF Request
    <2>4. row = Upserted(seen, onHand, reserved)
      BY <2>2, <2>3 DEF row
    <2>5. CASE seen.present
      <3>1. PICK a : a = AtLeastZero(onHand - reserved)
        OBVIOUS
      <3>2. row = [seen EXCEPT !.onHand = onHand, !.available = a]
        BY <2>4, <2>5, <3>1 DEF Upserted
      <3>3. row.present = seen.present /\ row.onHand = onHand /\ row.allocated = seen.allocated
            /\ row.onOrder = seen.onOrder
        BY <3>2 DEF Row
      <3> QED
        BY <2>1, <2>2, <2>3, <2>5, <3>3
    <2>6. CASE ~seen.present
      <3>1. row = [present |-> TRUE, onHand |-> onHand, reserved |-> 0,
                   available |-> AtLeastZero(onHand), allocated |-> 0, onOrder |-> 0]
        BY <2>4, <2>6 DEF Upserted, Absent
      <3> QED
        BY <2>1, <2>2, <2>3, <2>6, <3>1
    <2> QED
      BY <2>5, <2>6
  <1>10. req[r].legs # <<>> => RowsOf(r, key) # {}
         /\ Published(r, key) = req[r].onHand
    <2> SUFFICES ASSUME req[r].legs # <<>>
                 PROVE  RowsOf(r, key) # {} /\ Published(r, key) = req[r].onHand
      OBVIOUS
    <2>1. PICK rows \in Seq(Entry) : rows = req[r].rows
      BY <1>1 DEF Request
    <2>2. /\ rows # <<>> /\ rows[Len(rows)].leg.key = key
          /\ rows[Len(rows)].balanceQty = req[r].onHand
      BY <1>2, <2>1 DEF WInv, PendingRow
    <2> DEFINE n == Len(rows)
               S == {i \in DOMAIN rows : rows[i].leg.key = key}
    <2>3. n \in Nat /\ n \in 1 .. n /\ DOMAIN rows = 1 .. n
      BY <2>2
    <2>4. n \in S /\ S \in SUBSET (1 .. n)
      BY <2>2, <2>3
    <2>5. Max(S) = n
      BY <2>3, <2>4, MaxOfInterval
    <2>6. RowsOf(r, key) = S /\ Published(r, key) = rows[Max(S)].balanceQty
      BY <2>1 DEF RowsOf, Published
    <2> QED
      BY <2>2, <2>4, <2>5, <2>6
  <1>11. Published(r, key) = req[r].onHand
    BY <1>10 DEF Published
  <1>12. ASSUME NEW k \in Keys, lock'[k] = r
         PROVE  HeldByRequest(r, k)'
    <2>1. CASE k = key
      <3>1. dirty'[k] = row /\ balance'[k] = balance[k]
        BY <1>1, <1>3, <2>1
      <3> QED
        BY <1>4, <1>5, <1>6, <1>9, <1>10, <1>11, <2>1, <3>1 DEF HeldByRequest
    <2>2. CASE k # key
      <3>1. dirty'[k] = dirty[k] /\ balance'[k] = balance[k] /\ lock[k] = r
        BY <1>1, <1>3, <1>12, <2>2
      <3>2. HeldByRequest(r, k)
        BY <3>1 DEF WInv
      <3> QED
        BY <1>4, <1>5, <1>6, <2>2, <3>1, <3>2 DEF HeldByRequest
    <2> QED
      BY <2>1, <2>2
  <1>13. ~Commit(r)
    BY <1>2 DEF Commit
  <1> QED
    BY <1>7, <1>12, <1>13, QuietKeeps DEF Work

\* The commit publishes what it notes in the history.
LEMMA CommitWriters ==
    ASSUME WInv, NEW r \in Requests, InventoryStep, Commit(r)
    PROVE  WInv'
  <1>1. /\ req[r] \in Request /\ req \in [Requests -> Request]
        /\ dirty \in [Keys -> Row] /\ balance \in [Keys -> Row] /\ TablesInv
        /\ history \in [Keys -> Seq(Writings)]
    BY DEF WInv, WTypes, TablesInv, TablesOK
  <1>2. /\ req[r].pc = "commit" /\ req'[r].pc \in {"done", "emit"}
        /\ balance' = [k \in Keys |-> IF lock[k] = r THEN dirty[k] ELSE balance[k]]
        /\ lock' = [k \in Keys |-> IF lock[k] = r THEN None ELSE lock[k]]
    BY <1>1 DEF Commit, Goto, Request
  <1>3. \A s \in Requests \ {r} : req'[s] = req[s]
    BY <1>1, OthersStay DEF Work
  <1>4. ASSUME NEW k \in Keys, lock[k] = r
        PROVE  /\ dirty[k] \in Row /\ dirty[k].present
               /\ dirty[k].onHand = Published(r, k) /\ Published(r, k) \in Int
               /\ dirty[k].allocated = balance[k].allocated
               /\ dirty[k].onOrder = balance[k].onOrder
    <2>1. HeldByRequest(r, k) /\ dirty[k] \in Row
      BY <1>1, <1>4 DEF WInv
    <2> QED
      BY <1>2, <2>1 DEF HeldByRequest, Row
  <1>5. \A k \in Keys : history'[k] =
           IF lock[k] = r THEN Append(history[k], [op |-> "set", onHand |-> Published(r, k)])
                          ELSE history[k]
    <2>1. ASSUME NEW k \in Keys
          PROVE  (\E s \in Requests : lock[k] = s /\ req[s].pc = "commit" /\ req'[s].pc # "failed"
                                      /\ req'[s].pc # "commit") <=> lock[k] = r
      BY <1>2, <1>3
    <2>2. history' = [k \in Keys |->
            IF \E s \in Requests : lock[k] = s /\ req[s].pc = "commit" /\ req'[s].pc # "failed"
                                    /\ req'[s].pc # "commit"
            THEN Append(history[k], [op |-> "set", onHand |-> Published(lock[k], k)])
            ELSE history[k]]
      BY DEF InventoryStep
    <2> TAKE k \in Keys
    <2>3. history'[k] =
            IF \E s \in Requests : lock[k] = s /\ req[s].pc = "commit" /\ req'[s].pc # "failed"
                                    /\ req'[s].pc # "commit"
            THEN Append(history[k], [op |-> "set", onHand |-> Published(lock[k], k)])
            ELSE history[k]
      BY <2>2
    <2> QED
      BY <2>1, <2>3
  <1>6. \A k \in Keys : lock[k] = r => [op |-> "set", onHand |-> Published(r, k)] \in Writings
    BY <1>4 DEF Writings, SetWrites
  <1>7. history' \in [Keys -> Seq(Writings)]
    <2>1. ASSUME NEW k \in Keys PROVE history'[k] \in Seq(Writings)
      <3>1. PICK h \in Seq(Writings) : h = history[k]
        BY <1>1
      <3>2. CASE lock[k] = r
        <4>1. PICK w \in Writings : w = [op |-> "set", onHand |-> Published(r, k)]
          BY <1>6, <3>2
        <4>2. Append(h, w) \in Seq(Writings)
          OBVIOUS
        <4> QED
          BY <1>5, <3>1, <3>2, <4>1, <4>2
      <3>3. CASE lock[k] # r
        BY <1>5, <3>1, <3>3
      <3> QED
        BY <3>2, <3>3
    <2>2. history' = [k \in Keys |-> history'[k]]
      BY DEF InventoryStep
    <2> QED
      BY <2>1, <2>2
  <1>8. ASSUME NEW k \in Keys
        PROVE  AbsentIsEmpty(k)' /\ (balance[k].present => balance'[k].present)
    BY <1>2, <1>4 DEF WInv, AbsentIsEmpty
  <1>9. RowsReplay'
    <2> SUFFICES ASSUME NEW k \in Keys
                 PROVE  Columns(balance'[k]) = Columns(Replay(Base(k), history'[k]))
      BY DEF RowsReplay, Replay, Base
    <2>1. Columns(balance[k]) = Columns(Replay(Base(k), history[k]))
      BY DEF WInv, RowsReplay, Replay, Base
    <2>2. CASE lock[k] # r
      BY <1>2, <1>5, <2>1, <2>2
    <2>3. CASE lock[k] = r
      <3> DEFINE w == [op |-> "set", onHand |-> Published(r, k)]
      <3>1. w \in Writings /\ history'[k] = Append(history[k], w) /\ history[k] \in Seq(Writings)
            /\ w.op = "set" /\ w.onHand = Published(r, k)
        BY <1>1, <1>5, <1>6, <2>3
      <3> HIDE DEF w
      <3>2. /\ Replay(Base(k), history'[k]) = ReplayWrite(Replay(Base(k), history[k]), w)
            /\ Replay(Base(k), history[k]) \in Row
        BY <3>1, BaseType, ReplayAppend
      <3>3. Columns(ReplayWrite(balance[k], w)) = Columns(Replay(Base(k), history'[k]))
        BY <1>1, <2>1, <3>1, <3>2, SameColumns
      <3>4. Columns(ReplayWrite(balance[k], w)) =
               <<Published(r, k), balance[k].allocated, balance[k].onOrder>>
        <4>1. PICK row \in Row : row = balance[k]
          BY <1>1
        <4>2. ReplayWrite(row, w) = [row EXCEPT !.onHand = w.onHand]
          BY <3>1 DEF ReplayWrite
        <4> QED
          BY <3>1, <4>1, <4>2 DEF Columns, Row
      <3>5. Columns(balance'[k]) = <<Published(r, k), balance[k].allocated, balance[k].onOrder>>
        BY <1>2, <1>4, <2>3 DEF Columns
      <3> QED
        BY <3>3, <3>4, <3>5
    <2> QED
      BY <2>2, <2>3
  <1>10. PendingRow(r)' /\ \A k \in Keys : lock'[k] # r
    BY <1>2, InventoryAssumption DEF PendingRow
  <1>11. Next /\ sync' = sync
    BY DEF InventoryStep
  <1> QED
    BY <1>7, <1>8, <1>9, <1>10, <1>11, ServiceKeeps DEF Work

LEMMA InventoryKeeps == WInv /\ InventoryStep => WInv'
  <1> SUFFICES ASSUME WInv, InventoryStep PROVE WInv'
    OBVIOUS
  <1>1. CASE UNCHANGED vars
    <2>1. UNCHANGED <<balance, dirty, lock, ledger, booked, grnStatus, req, published, sync>>
      BY <1>1 DEF vars, InventoryStep
    <2>2. history' = [k \in Keys |-> history[k]]
      BY <2>1 DEF InventoryStep
    <2>3. history' = history
      BY <2>2 DEF WInv, WTypes
    <2>4. TablesInv'
      BY <1>1, TablesStep DEF WInv, WTypes
    <2>5. WTypes'
      BY <2>1, <2>3, <2>4 DEF WInv, WTypes
    <2>6. \A k \in Keys : AbsentIsEmpty(k)'
      BY <2>1 DEF WInv, AbsentIsEmpty
    <2>7. \A k \in Keys : \A r \in Requests : lock'[k] = r => HeldByRequest(r, k)'
      BY <2>1, SameHolds DEF WInv
    <2>8. \A k \in Keys : \A p \in Mutations : lock'[k] = p => HeldByPush(p, k)'
      BY <2>1, SamePush DEF WInv
    <2>9. \A r \in Requests : PendingRow(r)'
      BY <2>1 DEF WInv, PendingRow
    <2>10. \A p \in Mutations : PushKnows(p)'
      BY <2>1 DEF WInv, PushKnows, SyncInTx
    <2>11. RowsReplay'
      BY <2>1, <2>3 DEF WInv, RowsReplay
    <2> QED
      BY <2>5, <2>6, <2>7, <2>8, <2>9, <2>10, <2>11 DEF WInv
  <1>2. ASSUME NEW r \in Requests, Arrive(r) \/ Work(r) \/ Rollback(r)
        PROVE  WInv'
    BY <1>2, UnlockedKeeps, ReadWriters, UpsertWriters, CommitWriters DEF Work
  <1> QED
    BY <1>1, <1>2 DEF InventoryStep, Next, Finished

-----------------------------------------------------------------------------
(* The steps of the pushed adjustments, the GRN patches and MRP.           *)

\* What remains to be shown of a step of the pushes in P, or of no push.
LEMMA WriterKeeps ==
    ASSUME WInv, NEW P \in SUBSET Mutations,
           UNCHANGED <<ledger, booked, req, published>>,
           balance' \in [Keys -> Row], dirty' \in [Keys -> Row],
           lock' \in [Keys -> Requests \cup Mutations \cup {None}],
           grnStatus' \in [Grns -> GrnStatuses],
           sync' \in [Mutations -> SyncRequest], history' \in [Keys -> Seq(Writings)],
           \A p \in Mutations \ P : sync'[p] = sync[p],
           \A k \in Keys : lock[k] \notin P \cup {None} \/ lock'[k] \notin P \cup {None} =>
              lock'[k] = lock[k] /\ dirty'[k] = dirty[k] /\ balance'[k] = balance[k],
           \A k \in Keys : \A p \in P : lock'[k] = p => HeldByPush(p, k)',
           \A p \in P : PushKnows(p)',
           \A k \in Keys : AbsentIsEmpty(k)' /\ (balance[k].present => balance'[k].present),
           RowsReplay'
    PROVE  WInv'
  <1>1. TablesInv'
    BY DEF WInv, WTypes, TablesInv, TablesOK, RequestsSound, RowsFollowLegs, LegsAsAsked
  <1>2. WTypes'
    BY <1>1 DEF WTypes
  <1>3. ASSUME NEW k \in Keys, NEW r \in Requests, lock'[k] = r
        PROVE  HeldByRequest(r, k)'
    <2>1. lock'[k] \notin P \cup {None}
      BY <1>3, InventoryAssumption, WritersAssumption
    <2>2. lock[k] = r /\ dirty'[k] = dirty[k] /\ balance'[k] = balance[k] /\ req'[r] = req[r]
      BY <1>3, <2>1
    <2> QED
      BY <2>2, SameHolds DEF WInv
  <1>4. ASSUME NEW k \in Keys, NEW p \in Mutations, lock'[k] = p
        PROVE  HeldByPush(p, k)'
    <2>1. CASE p \notin P
      <3>1. lock'[k] \notin P \cup {None}
        BY <1>4, <2>1, WritersAssumption
      <3>2. /\ lock[k] = p /\ dirty'[k] = dirty[k] /\ balance'[k] = balance[k]
            /\ sync'[p] = sync[p]
        BY <1>4, <2>1, <3>1
      <3> QED
        BY <3>2, SamePush DEF WInv
    <2> QED
      BY <1>4, <2>1
  <1>5. \A r \in Requests : PendingRow(r)'
    BY DEF WInv, PendingRow
  <1>6. ASSUME NEW p \in Mutations PROVE PushKnows(p)'
    <2>1. CASE p \notin P
      <3>1. PushKnows(p) /\ sync'[p] = sync[p] /\ p \notin P \cup {None}
        BY <2>1, WritersAssumption DEF WInv
      <3>2. sync[p].pc = "commit" => lock'[sync[p].key] = p
        BY <3>1 DEF PushKnows, SyncInTx
      <3>3. sync[p].pc = "update" => balance'[sync[p].key].present
        BY <3>1 DEF PushKnows, SyncInTx
      <3> QED
        BY <3>1, <3>2, <3>3 DEF PushKnows, SyncInTx
    <2> QED
      BY <2>1
  <1> QED
    BY <1>2, <1>3, <1>4, <1>5, <1>6 DEF WInv

\* A step of p that writes no row.
LEMMA UnwrittenKeeps ==
    ASSUME WInv, NEW p \in Mutations, NEW q \in SyncRequest,
           UNCHANGED <<vars, history>>, sync' = [sync EXCEPT ![p] = q],
           sync[p].pc # "commit", q.pc # "commit",
           PushKnows(p)'
    PROVE  WInv'
  <1>1. /\ TablesOK /\ sync \in [Mutations -> SyncRequest]
        /\ history \in [Keys -> Seq(Writings)]
        /\ lock \in [Keys -> Requests \cup Mutations \cup {None}]
    BY DEF WInv, WTypes, TablesInv
  <1>2. UNCHANGED <<balance, dirty, lock, ledger, booked, grnStatus, req, published, history>>
    BY DEF vars
  <1>3. sync' \in [Mutations -> SyncRequest] /\ \A s \in Mutations \ {p} : sync'[s] = sync[s]
    BY <1>1
  <1>4. \A k \in Keys : lock[k] # p
    BY DEF WInv, HeldByPush
  <1>5. RowsReplay' /\ \A k \in Keys : AbsentIsEmpty(k)'
    BY <1>2 DEF WInv, RowsReplay, AbsentIsEmpty
  <1>6. {p} \in SUBSET Mutations
    OBVIOUS
  <1>7. \A k \in Keys : \A s \in {p} : lock'[k] # s
    BY <1>2, <1>4
  <1> PICK P \in SUBSET Mutations : P = {p}
    BY <1>6
  <1>8. /\ \A s \in Mutations \ P : sync'[s] = sync[s]
        /\ \A k \in Keys : \A s \in P : lock'[k] = s => HeldByPush(s, k)'
        /\ \A s \in P : PushKnows(s)'
    BY <1>3, <1>7
  <1>9. /\ balance' \in [Keys -> Row] /\ dirty' \in [Keys -> Row]
        /\ lock' \in [Keys -> Requests \cup Mutations \cup {None}]
        /\ grnStatus' \in [Grns -> GrnStatuses] /\ history' \in [Keys -> Seq(Writings)]
    BY <1>1, <1>2 DEF TablesOK
  <1>10. /\ \A k \in Keys : lock[k] \notin P \cup {None} \/ lock'[k] \notin P \cup {None} =>
              lock'[k] = lock[k] /\ dirty'[k] = dirty[k] /\ balance'[k] = balance[k]
         /\ \A k \in Keys : AbsentIsEmpty(k)' /\ (balance[k].present => balance'[k].present)
    BY <1>2, <1>5
  <1> QED
    BY <1>2, <1>3, <1>5, <1>8, <1>9, <1>10, WriterKeeps

LEMMA BeginKeeps ==
    ASSUME WInv, NEW p \in Mutations, BeginAdjustment(p)
    PROVE  WInv'
  <1>1. PICK type \in AdjustmentTypes, k \in Keys, q \in (0 - MaxQty) .. MaxQty :
           sync' = [sync EXCEPT ![p] = [pc |-> "read", type |-> type, key |-> k, qty |-> q]]
    BY DEF BeginAdjustment
  <1>2. [pc |-> "read", type |-> type, key |-> k, qty |-> q] \in SyncRequest
    BY StockAssumption DEF SyncRequest, SyncPCs
  <1> PICK new \in SyncRequest : new = [pc |-> "read", type |-> type, key |-> k, qty |-> q]
    BY <1>2
  <1>3. sync' = [sync EXCEPT ![p] = new] /\ new.pc = "read" /\ new.key \in Keys
    BY <1>1
  <1>4. sync'[p] = new
    BY <1>3 DEF WInv, WTypes
  <1>5. PushKnows(p)'
    BY <1>3, <1>4 DEF PushKnows, SyncInTx
  <1>6. UNCHANGED <<vars, history>> /\ sync[p].pc # "commit"
    BY DEF BeginAdjustment
  <1> QED
    BY <1>3, <1>5, <1>6, UnwrittenKeeps

LEMMA ReadKeeps ==
    ASSUME WInv, NEW p \in Mutations, ReadExisting(p) \/ CreateConflict(p)
    PROVE  WInv'
  <1>1. /\ sync \in [Mutations -> SyncRequest] /\ sync[p] \in SyncRequest
        /\ sync[p].pc \in {"read", "create"} /\ PushKnows(p)
        /\ UNCHANGED <<vars, history>>
    BY DEF WInv, WTypes, ReadExisting, CreateConflict
  <1>2. sync[p].key \in Keys
    BY <1>1 DEF PushKnows, SyncInTx
  <1>3. View(p, sync[p].key) = balance[sync[p].key]
    BY <1>1, <1>2 DEF WInv, HeldByPush, View
  <1>4. PICK label \in {"create", "error", "update"} :
           /\ sync' = [sync EXCEPT ![p].pc = label]
           /\ label = "update" => balance[sync[p].key].present
    BY <1>3 DEF ReadExisting, CreateConflict, SyncGoto
  <1>5. [sync[p] EXCEPT !.pc = label] \in SyncRequest
    BY <1>1 DEF SyncRequest, SyncPCs
  <1> PICK new \in SyncRequest : new = [sync[p] EXCEPT !.pc = label]
    BY <1>5
  <1>6. new.pc = label /\ new.key = sync[p].key
    BY <1>1 DEF SyncRequest
  <1>7. sync' = [sync EXCEPT ![p] = new] /\ sync'[p] = new
    BY <1>1, <1>4
  <1>8. balance' = balance
    BY <1>1 DEF vars
  <1>9. PushKnows(p)'
    BY <1>2, <1>4, <1>6, <1>7, <1>8 DEF PushKnows, SyncInTx
  <1> QED
    BY <1>1, <1>6, <1>7, <1>9, UnwrittenKeeps

\* The row is locked and written, as an adjustment of what is committed now.
LEMMA WriteKeeps ==
    ASSUME WInv, NEW p \in Mutations, ApplyIncrement(p) \/ CreateRow(p)
    PROVE  WInv'
  <1>1. /\ sync \in [Mutations -> SyncRequest] /\ sync[p] \in SyncRequest
        /\ sync[p].pc \in {"update", "create"} /\ PushKnows(p)
        /\ TablesOK
        /\ history \in [Keys -> Seq(Writings)]
        /\ lock \in [Keys -> Requests \cup Mutations \cup {None}]
        /\ UNCHANGED <<balance, ledger, booked, grnStatus, req, published, history>>
        /\ sync' = [sync EXCEPT ![p].pc = "commit"]
    BY DEF WInv, WTypes, TablesInv, ApplyIncrement, CreateRow, SyncGoto
  <1>2. PICK key \in Keys : key = sync[p].key
    BY <1>1 DEF PushKnows, SyncInTx
  <1>3. PICK type \in AdjustmentTypes, q \in Int : type = sync[p].type /\ q = sync[p].qty
    BY <1>1 DEF SyncRequest
  <1>4. /\ sync' \in [Mutations -> SyncRequest] /\ \A s \in Mutations \ {p} : sync'[s] = sync[s]
        /\ sync'[p].pc = "commit" /\ sync'[p].key = key /\ sync'[p].type = type
        /\ sync'[p].qty = q
    BY <1>1, <1>2, <1>3 DEF SyncRequest, SyncPCs
  <1>5. PICK row : row = IF balance[key].present THEN Adjusted(balance[key], type, q)
                                                ELSE InitialRow(type, q)
    OBVIOUS
  <1>6. row \in Row
    <2>1. balance[key] \in Row
      BY <1>1 DEF TablesOK
    <2> QED
      BY <1>5, <2>1, AdjustedType, InitialType
  <1>7. /\ lock[key] = None /\ lock' = [lock EXCEPT ![key] = p]
        /\ dirty' = [dirty EXCEPT ![key] = row]
    <2>1. CASE ApplyIncrement(p)
      <3>1. balance[key].present
        BY <1>1, <1>2, <2>1 DEF ApplyIncrement, PushKnows
      <3> QED
        BY <1>2, <1>3, <1>5, <2>1, <3>1 DEF ApplyIncrement
    <2>2. CASE CreateRow(p)
      BY <1>2, <1>3, <1>5, <2>2 DEF CreateRow
    <2> QED
      BY <2>1, <2>2
  <1>8. \A k \in Keys : lock[k] # p
    BY <1>1 DEF WInv, HeldByPush
  <1>9. /\ dirty' \in [Keys -> Row] /\ balance' \in [Keys -> Row]
        /\ lock' \in [Keys -> Requests \cup Mutations \cup {None}]
        /\ grnStatus' \in [Grns -> GrnStatuses] /\ history' \in [Keys -> Seq(Writings)]
    BY <1>1, <1>6, <1>7 DEF TablesOK
  <1>10. \A k \in Keys \ {key} : lock'[k] = lock[k] /\ dirty'[k] = dirty[k]
    BY <1>1, <1>7 DEF TablesOK
  <1>11. lock'[key] = p /\ dirty'[key] = row
    BY <1>1, <1>7 DEF TablesOK
  <1> PICK P \in SUBSET Mutations : P = {p}
    OBVIOUS
  <1>12. \A k \in Keys : lock[k] \notin P \cup {None} \/ lock'[k] \notin P \cup {None} =>
            lock'[k] = lock[k] /\ dirty'[k] = dirty[k] /\ balance'[k] = balance[k]
    BY <1>1, <1>7, <1>10, <1>11
  <1>13. HeldByPush(p, key)'
    <2>1. dirty'[key] = IF balance'[key].present THEN Adjusted(balance'[key], sync'[p].type, sync'[p].qty)
                                                 ELSE InitialRow(sync'[p].type, sync'[p].qty)
      BY <1>1, <1>4, <1>5, <1>11, Zenon
    <2> QED
      BY <1>4, <2>1 DEF HeldByPush
  <1>14. \A k \in Keys : \A s \in P : lock'[k] = s => HeldByPush(s, k)'
    BY <1>8, <1>10, <1>13
  <1>15. PushKnows(p)'
    BY <1>4, <1>11 DEF PushKnows
  <1>16. RowsReplay' /\ \A k \in Keys : AbsentIsEmpty(k)' /\ (balance[k].present => balance'[k].present)
    BY <1>1 DEF WInv, RowsReplay, AbsentIsEmpty
  <1>17. /\ \A s \in Mutations \ P : sync'[s] = sync[s]
         /\ \A s \in P : PushKnows(s)'
    BY <1>4, <1>15
  <1>18. UNCHANGED <<ledger, booked, req, published>> /\ sync' \in [Mutations -> SyncRequest]
    BY <1>1, <1>4
  <1> QED
    BY <1>9, <1>12, <1>14, <1>16, <1>17, <1>18, WriterKeeps

\* A committed write of any writer but the service, noted in the history.
LEMMA WriteReplays ==
    ASSUME WInv, NEW key \in Keys, NEW row \in Row, NEW w \in Writings,
           Columns(row) = Columns(ReplayWrite(balance[key], w)), row.present,
           balance' = [balance EXCEPT ![key] = row],
           history' = [history EXCEPT ![key] = Append(@, w)]
    PROVE  /\ balance' \in [Keys -> Row] /\ history' \in [Keys -> Seq(Writings)]
           /\ RowsReplay'
           /\ \A k \in Keys : AbsentIsEmpty(k)' /\ (balance[k].present => balance'[k].present)
  <1>1. balance \in [Keys -> Row] /\ history \in [Keys -> Seq(Writings)]
    BY DEF WInv, WTypes, TablesInv, TablesOK
  <1>2. PICK h \in Seq(Writings) : h = history[key]
    BY <1>1
  <1>3. Append(h, w) \in Seq(Writings)
    OBVIOUS
  <1>4. /\ balance'[key] = row /\ history'[key] = Append(h, w)
        /\ \A k \in Keys \ {key} : balance'[k] = balance[k] /\ history'[k] = history[k]
        /\ balance' \in [Keys -> Row]
    BY <1>1, <1>2
  <1>5. history' \in [Keys -> Seq(Writings)]
    BY <1>1, <1>2, <1>3
  <1>6. ASSUME NEW k \in Keys
        PROVE  AbsentIsEmpty(k)' /\ (balance[k].present => balance'[k].present)
    BY <1>4 DEF WInv, AbsentIsEmpty
  <1>7. ASSUME NEW k \in Keys
        PROVE  Columns(balance'[k]) = Columns(Replay(Base(k), history'[k]))
    <2>1. Columns(balance[k]) = Columns(Replay(Base(k), history[k]))
      BY DEF WInv, RowsReplay, Replay, Base
    <2>2. CASE k # key
      BY <1>4, <2>1, <2>2
    <2>3. CASE k = key
      <3>1. /\ Replay(Base(k), Append(h, w)) = ReplayWrite(Replay(Base(k), h), w)
            /\ Replay(Base(k), h) \in Row
        BY BaseType, ReplayAppend
      <3>2. Columns(ReplayWrite(balance[k], w)) = Columns(ReplayWrite(Replay(Base(k), h), w))
        BY <1>1, <1>2, <2>1, <2>3, <3>1, SameColumns
      <3> QED
        BY <1>4, <2>3, <3>1, <3>2
    <2> QED
      BY <2>2, <2>3
  <1>8. RowsReplay'
    BY <1>7 DEF RowsReplay, Replay, Base
  <1> QED
    BY <1>4, <1>5, <1>6, <1>8

LEMMA CommitPushKeeps ==
    ASSUME WInv, NEW p \in Mutations, CommitAdjustment(p)
    PROVE  WInv'
  <1>1. /\ sync \in [Mutations -> SyncRequest] /\ sync[p] \in SyncRequest
        /\ sync[p].pc = "commit" /\ PushKnows(p)
        /\ TablesOK
        /\ history \in [Keys -> Seq(Writings)]
        /\ lock \in [Keys -> Requests \cup Mutations \cup {None}]
        /\ UNCHANGED <<dirty, ledger, booked, grnStatus, req, published>>
        /\ sync' = [sync EXCEPT ![p].pc = "applied"]
    BY DEF WInv, WTypes, TablesInv, CommitAdjustment, SyncGoto
  <1>2. PICK key \in Keys : key = sync[p].key
    BY <1>1 DEF PushKnows, SyncInTx
  <1>3. PICK type \in AdjustmentTypes, q \in Int : type = sync[p].type /\ q = sync[p].qty
    BY <1>1 DEF SyncRequest
  <1>4. HeldByPush(p, key) /\ lock[key] = p /\ \A k \in Keys \ {key} : lock[k] # p
    <2>1. lock[key] = p
      BY <1>1, <1>2 DEF PushKnows
    <2> QED
      BY <1>2, <2>1 DEF WInv, HeldByPush
  <1>5. PICK w : w = [op |-> IF balance[key].present THEN "adjust" ELSE "initial",
                      type |-> type, qty |-> q]
    OBVIOUS
  <1>6. w \in Writings
    BY <1>5 DEF Writings, AdjustWrites
  <1>7. /\ balance' = [balance EXCEPT ![key] = dirty[key]]
        /\ lock' = [lock EXCEPT ![key] = None]
        /\ history' = [history EXCEPT ![key] = Append(@, w)]
    BY <1>2, <1>3, <1>5 DEF CommitAdjustment, Log
  <1>8. /\ balance[key] \in Row /\ dirty[key] \in Row
    BY <1>1 DEF TablesOK
  <1>9. dirty[key] = ReplayWrite(balance[key], w) /\ dirty[key].present
    <2>1. dirty[key] = IF balance[key].present THEN Adjusted(balance[key], type, q)
                                                ELSE InitialRow(type, q)
      BY <1>2, <1>3, <1>4 DEF HeldByPush
    <2>2. CASE balance[key].present
      <3>1. w.op = "adjust" /\ w.type = type /\ w.qty = q
        BY <1>5, <2>2
      <3> QED
        BY <1>8, <2>1, <2>2, <3>1, AdjustedType DEF ReplayWrite
    <2>3. CASE ~balance[key].present
      <3>1. w.op = "initial" /\ w.type = type /\ w.qty = q
        BY <1>5, <2>3
      <3> QED
        BY <2>1, <2>3, <3>1, InitialType DEF ReplayWrite
    <2> QED
      BY <2>2, <2>3
  <1>10. /\ balance' \in [Keys -> Row] /\ history' \in [Keys -> Seq(Writings)]
         /\ RowsReplay'
         /\ \A k \in Keys : AbsentIsEmpty(k)' /\ (balance[k].present => balance'[k].present)
    BY <1>6, <1>7, <1>8, <1>9, WriteReplays
  <1> PICK P \in SUBSET Mutations : P = {p}
    OBVIOUS
  <1>11. /\ sync' \in [Mutations -> SyncRequest]
         /\ \A s \in Mutations \ P : sync'[s] = sync[s]
         /\ sync'[p].pc = "applied"
    BY <1>1 DEF SyncRequest, SyncPCs
  <1>12. /\ dirty' \in [Keys -> Row] /\ grnStatus' \in [Grns -> GrnStatuses]
         /\ lock' \in [Keys -> Requests \cup Mutations \cup {None}]
         /\ UNCHANGED <<ledger, booked, req, published>>
    BY <1>1, <1>7 DEF TablesOK
  <1>13. /\ lock'[key] = None /\ lock[key] = p
         /\ \A k \in Keys \ {key} : lock'[k] = lock[k] /\ balance'[k] = balance[k]
    BY <1>1, <1>4, <1>7 DEF TablesOK
  <1>14. \A k \in Keys : lock[k] \notin P \cup {None} \/ lock'[k] \notin P \cup {None} =>
            lock'[k] = lock[k] /\ dirty'[k] = dirty[k] /\ balance'[k] = balance[k]
    BY <1>1, <1>13
  <1>15. \A k \in Keys : \A s \in P : lock'[k] = s => HeldByPush(s, k)'
    BY <1>4, <1>13, WritersAssumption
  <1>16. \A s \in P : PushKnows(s)'
    BY <1>11 DEF PushKnows, SyncInTx
  <1> QED
    BY <1>10, <1>11, <1>12, <1>14, <1>15, <1>16, WriterKeeps

LEMMA RollbackPushKeeps ==
    ASSUME WInv, NEW p \in Mutations, RollbackAdjustment(p)
    PROVE  WInv'
  <1>1. /\ sync \in [Mutations -> SyncRequest] /\ sync[p] \in SyncRequest
        /\ TablesOK
        /\ history \in [Keys -> Seq(Writings)]
        /\ lock \in [Keys -> Requests \cup Mutations \cup {None}]
        /\ UNCHANGED <<balance, ledger, booked, grnStatus, req, published, history>>
        /\ sync' = [sync EXCEPT ![p].pc = "error"]
        /\ dirty' = [k \in Keys |-> IF lock[k] = p THEN balance[k] ELSE dirty[k]]
        /\ lock' = [k \in Keys |-> IF lock[k] = p THEN None ELSE lock[k]]
    BY DEF WInv, WTypes, TablesInv, RollbackAdjustment, SyncGoto, DropWrites
  <1> PICK P \in SUBSET Mutations : P = {p}
    OBVIOUS
  <1>2. /\ sync' \in [Mutations -> SyncRequest]
        /\ \A s \in Mutations \ P : sync'[s] = sync[s]
        /\ sync'[p].pc = "error"
    BY <1>1 DEF SyncRequest, SyncPCs
  <1>3. /\ dirty' \in [Keys -> Row] /\ balance' \in [Keys -> Row]
        /\ grnStatus' \in [Grns -> GrnStatuses] /\ history' \in [Keys -> Seq(Writings)]
        /\ lock' \in [Keys -> Requests \cup Mutations \cup {None}]
        /\ UNCHANGED <<ledger, booked, req, published>>
    BY <1>1 DEF TablesOK
  <1>4. \A k \in Keys : lock[k] \notin P \cup {None} \/ lock'[k] \notin P \cup {None} =>
           lock'[k] = lock[k] /\ dirty'[k] = dirty[k] /\ balance'[k] = balance[k]
    BY <1>1
  <1>5. \A k \in Keys : \A s \in P : lock'[k] = s => HeldByPush(s, k)'
    BY <1>1, WritersAssumption
  <1>6. \A s \in P : PushKnows(s)'
    BY <1>2 DEF PushKnows, SyncInTx
  <1>7. RowsReplay' /\ \A k \in Keys : AbsentIsEmpty(k)' /\ (balance[k].present => balance'[k].present)
    BY <1>1 DEF WInv, RowsReplay, AbsentIsEmpty
  <1> QED
    BY <1>2, <1>3, <1>4, <1>5, <1>6, <1>7, WriterKeeps

LEMMA PatchKeeps ==
    ASSUME WInv, NEW g \in Grns, PatchGrn(g)
    PROVE  WInv'
  <1>1. /\ TablesOK
        /\ sync \in [Mutations -> SyncRequest]
        /\ history \in [Keys -> Seq(Writings)]
        /\ lock \in [Keys -> Requests \cup Mutations \cup {None}]
        /\ UNCHANGED <<balance, dirty, lock, ledger, booked, req, published, sync, history>>
    BY DEF WInv, WTypes, TablesInv, PatchGrn, writerVars
  <1>2. grnStatus' \in [Grns -> GrnStatuses]
    BY <1>1, WritersAssumption DEF PatchGrn, TablesOK
  <1> PICK P \in SUBSET Mutations : P = {}
    OBVIOUS
  <1>3. /\ dirty' \in [Keys -> Row] /\ balance' \in [Keys -> Row]
        /\ history' \in [Keys -> Seq(Writings)] /\ sync' \in [Mutations -> SyncRequest]
        /\ lock' \in [Keys -> Requests \cup Mutations \cup {None}]
        /\ UNCHANGED <<ledger, booked, req, published>>
        /\ \A s \in Mutations \ P : sync'[s] = sync[s]
    BY <1>1 DEF TablesOK
  <1>4. \A k \in Keys : lock[k] \notin P \cup {None} \/ lock'[k] \notin P \cup {None} =>
           lock'[k] = lock[k] /\ dirty'[k] = dirty[k] /\ balance'[k] = balance[k]
    BY <1>1
  <1>5. RowsReplay' /\ \A k \in Keys : AbsentIsEmpty(k)' /\ (balance[k].present => balance'[k].present)
    BY <1>1 DEF WInv, RowsReplay, AbsentIsEmpty
  <1>6. /\ \A k \in Keys : \A s \in P : lock'[k] = s => HeldByPush(s, k)'
        /\ \A s \in P : PushKnows(s)'
    OBVIOUS
  <1> QED
    BY <1>2, <1>3, <1>4, <1>5, <1>6, WriterKeeps

LEMMA MrpKeeps ==
    ASSUME WInv, NEW key \in Keys, StoreMrpLevels(key)
    PROVE  WInv'
  <1>1. /\ TablesOK
        /\ sync \in [Mutations -> SyncRequest]
        /\ lock \in [Keys -> Requests \cup Mutations \cup {None}]
        /\ UNCHANGED <<lock, ledger, booked, grnStatus, req, published, sync>>
        /\ lock[key] = None
    BY DEF WInv, WTypes, TablesInv, StoreMrpLevels
  <1>2. PICK lv \in MrpLevels :
           /\ balance' = [balance EXCEPT ![key] = WithLevels(balance[key], lv)]
           /\ dirty' = [dirty EXCEPT ![key] = WithLevels(balance[key], lv)]
           /\ history' = [history EXCEPT ![key] = Append(@, [op |-> "levels", levels |-> lv])]
    BY <1>1 DEF StoreMrpLevels, Log, TablesOK
  <1>3. PICK w : w = [op |-> "levels", levels |-> lv]
    OBVIOUS
  <1>4. w \in Writings /\ w.op = "levels" /\ w.levels = lv
    BY <1>3 DEF Writings, LevelWrites
  <1>5. PICK row \in Row : row = WithLevels(balance[key], lv) /\ row.present
    BY <1>1, LevelsType DEF TablesOK
  <1>6. row = ReplayWrite(balance[key], w)
    BY <1>4, <1>5 DEF ReplayWrite
  <1>7. /\ balance' \in [Keys -> Row] /\ history' \in [Keys -> Seq(Writings)]
        /\ RowsReplay'
        /\ \A k \in Keys : AbsentIsEmpty(k)' /\ (balance[k].present => balance'[k].present)
    BY <1>2, <1>3, <1>4, <1>5, <1>6, WriteReplays
  <1> PICK P \in SUBSET Mutations : P = {}
    OBVIOUS
  <1>8. /\ dirty' \in [Keys -> Row] /\ grnStatus' \in [Grns -> GrnStatuses]
        /\ sync' \in [Mutations -> SyncRequest]
        /\ lock' \in [Keys -> Requests \cup Mutations \cup {None}]
        /\ UNCHANGED <<ledger, booked, req, published>>
        /\ \A s \in Mutations \ P : sync'[s] = sync[s]
    BY <1>1, <1>2, <1>5 DEF TablesOK
  <1>9. \A k \in Keys : lock[k] \notin P \cup {None} \/ lock'[k] \notin P \cup {None} =>
           lock'[k] = lock[k] /\ dirty'[k] = dirty[k] /\ balance'[k] = balance[k]
    BY <1>1, <1>2 DEF TablesOK
  <1>10. /\ \A k \in Keys : \A s \in P : lock'[k] = s => HeldByPush(s, k)'
         /\ \A s \in P : PushKnows(s)'
    OBVIOUS
  <1> QED
    BY <1>7, <1>8, <1>9, <1>10, WriterKeeps

LEMMA WritersKeep == WInv /\ [WNext]_allVars => WInv'
  <1> SUFFICES ASSUME WInv, [WNext]_allVars PROVE WInv'
    OBVIOUS
  <1>1. CASE InventoryStep
    BY <1>1, InventoryKeeps
  <1>2. ASSUME NEW p \in Mutations, AdjustmentStep(p) PROVE WInv'
    BY <1>2, BeginKeeps, ReadKeeps, WriteKeeps, CommitPushKeeps, RollbackPushKeeps
       DEF AdjustmentStep
  <1>3. ASSUME NEW g \in Grns, PatchGrn(g) PROVE WInv'
    BY <1>3, PatchKeeps
  <1>4. ASSUME NEW k \in Keys, StoreMrpLevels(k) PROVE WInv'
    BY <1>4, MrpKeeps
  <1>5. CASE UNCHANGED allVars
    <2>1. UNCHANGED <<balance, dirty, lock, ledger, booked, grnStatus, req, published, sync, history>>
      BY <1>5 DEF allVars, writerVars, vars
    <2>2. /\ TablesOK /\ sync \in [Mutations -> SyncRequest]
          /\ history \in [Keys -> Seq(Writings)]
          /\ lock \in [Keys -> Requests \cup Mutations \cup {None}]
      BY DEF WInv, WTypes, TablesInv
    <2> PICK P \in SUBSET Mutations : P = {}
      OBVIOUS
    <2>3. /\ dirty' \in [Keys -> Row] /\ balance' \in [Keys -> Row]
          /\ history' \in [Keys -> Seq(Writings)] /\ sync' \in [Mutations -> SyncRequest]
          /\ lock' \in [Keys -> Requests \cup Mutations \cup {None}]
          /\ grnStatus' \in [Grns -> GrnStatuses]
          /\ UNCHANGED <<ledger, booked, req, published>>
          /\ \A s \in Mutations \ P : sync'[s] = sync[s]
      BY <2>1, <2>2 DEF TablesOK
    <2>4. \A k \in Keys : lock[k] \notin P \cup {None} \/ lock'[k] \notin P \cup {None} =>
             lock'[k] = lock[k] /\ dirty'[k] = dirty[k] /\ balance'[k] = balance[k]
      BY <2>1
    <2>5. RowsReplay' /\ \A k \in Keys : AbsentIsEmpty(k)' /\ (balance[k].present => balance'[k].present)
      BY <2>1 DEF WInv, RowsReplay, AbsentIsEmpty
    <2>6. /\ \A k \in Keys : \A s \in P : lock'[k] = s => HeldByPush(s, k)'
          /\ \A s \in P : PushKnows(s)'
      OBVIOUS
    <2> QED
      BY <2>3, <2>4, <2>5, <2>6, WriterKeeps
  <1> QED
    BY <1>1, <1>2, <1>3, <1>4, <1>5 DEF WNext

-----------------------------------------------------------------------------
\* No committed write to a stock row is lost: with the movements of the service,
\* the rebuilds, the adjustments offline clients push and the levels MRP stores
\* interleaved in any way, the columns of a row are what its committed writes give
\* when they are replayed in commit order.
THEOREM NoWriteIsLost == WSpec => []RowsReplay
  <1>1. WInit => WInv
    BY WritersInit
  <1>2. WInv /\ [WNext]_allVars => WInv'
    BY WritersKeep
  <1>3. WInv => RowsReplay
    BY DEF WInv
  <1> QED
    BY <1>1, <1>2, <1>3, PTL DEF WSpec

=============================================================================

-------------------------- MODULE InventoryProofs ---------------------------
(***************************************************************************)
(* What Inventory guarantees for every set of requests, every stock and    *)
(* every note, with machine-checked proofs.                                *)
(***************************************************************************)
EXTENDS Inventory, FoldLemmas, FiniteSetTheorems, TLAPS

-----------------------------------------------------------------------------
(* The legs an operation is made of are well typed, and say what they are. *)

LEMMA GrnLegsType ==
    ASSUME NEW g \in Grns
    PROVE  /\ GrnLegs(g) \subseteq Seq(Leg)
           /\ \A legs \in GrnLegs(g) : \A i \in DOMAIN legs :
                 legs[i].type = "GRN_IN" /\ legs[i].ref = g
  <1>1. IsFiniteSet(PostableLines(g))
    BY FS_Subset, StockAssumption DEF PostableLines
  <1>2. Cardinality(PostableLines(g)) \in Nat
    BY <1>1, FS_CardinalityType
  <1>3. \A line \in PostableLines(g) : GrnLeg(g, line) \in Leg
    BY StockAssumption DEF PostableLines, GrnLeg, Leg, GrnLine, ReceivedQty, EntryTypes, Keys
  <1>4. ASSUME NEW legs \in GrnLegs(g)
        PROVE  /\ legs \in Seq(Leg)
               /\ \A i \in DOMAIN legs : legs[i].type = "GRN_IN" /\ legs[i].ref = g
    <2> DEFINE n == Cardinality(PostableLines(g))
    <2>1. PICK order \in [1..n -> PostableLines(g)] :
                 legs = [i \in DOMAIN order |-> GrnLeg(g, order[i])]
      BY DEF GrnLegs, SetToSeqs
    <2>2. legs \in [1..n -> Leg]
      BY <2>1, <1>3
    <2>3. legs \in Seq(Leg)
      BY <2>2, <1>2
    <2>4. \A i \in DOMAIN legs : legs[i].type = "GRN_IN" /\ legs[i].ref = g
      BY <2>1 DEF GrnLeg
    <2> QED
      BY <2>3, <2>4
  <1> QED
    BY <1>4

\* A note with a postable line has a leg to book.
LEMMA GrnLegsNonEmpty ==
    ASSUME NEW g \in Grns, PostableLines(g) # {}, NEW legs \in GrnLegs(g)
    PROVE  Len(legs) > 0
  <1> DEFINE n == Cardinality(PostableLines(g))
  <1>1. IsFiniteSet(PostableLines(g))
    BY FS_Subset, StockAssumption DEF PostableLines
  <1>2. n \in Nat /\ n # 0
    BY <1>1, FS_CardinalityType, FS_EmptySet
  <1>3. PICK order \in [1..n -> PostableLines(g)] :
               legs = [i \in DOMAIN order |-> GrnLeg(g, order[i])]
    BY DEF GrnLegs, SetToSeqs
  <1>4. legs \in Seq(Leg) /\ DOMAIN legs = 1..n
    BY <1>3, GrnLegsType
  <1> QED
    BY <1>2, <1>4

LEMMA RequestLegsType ==
    ASSUME NEW kind, NEW legs \in RequestLegs(kind)
    PROVE  /\ legs \in Seq(Leg)
           /\ Len(legs) > 0
           /\ \A i \in DOMAIN legs : legs[i].ref = None
  <1>1. ASSUME NEW type \in EntryTypes, NEW k \in Keys, NEW q \in Int
        PROVE  MkLeg(type, k, q) \in Leg /\ MkLeg(type, k, q).ref = None
    BY DEF MkLeg, SignedQty, Leg
  <1>2. ASSUME NEW leg \in Leg, leg.ref = None, legs = <<leg>>
        PROVE  /\ legs \in Seq(Leg)
               /\ Len(legs) > 0
               /\ \A i \in DOMAIN legs : legs[i].ref = None
    BY <1>2
  <1>3. CASE legs \in AdjustLegs
    <2>1. PICK k \in Keys, q \in (-MaxQty..MaxQty) \ {0} :
                 legs = <<MkLeg("ADJUSTMENT", k, q)>>
      BY <1>3 DEF AdjustLegs
    <2> QED
      BY <2>1, <1>1, <1>2, StockAssumption DEF EntryTypes
  <1>4. CASE \E type \in EntryTypes : legs \in SingleLegs(type)
    <2>1. PICK type \in EntryTypes, k \in Keys, q \in 1..MaxQty :
                 legs = <<MkLeg(type, k, q)>>
      BY <1>4 DEF SingleLegs
    <2> QED
      BY <2>1, <1>1, <1>2, StockAssumption
  <1>5. CASE legs \in TransferLegs
    <2>1. PICK t \in Items \X Locations \X Locations \X (1..MaxQty) :
                 legs = <<MkLeg("TRANSFER_OUT", <<t[1], t[2]>>, t[4]),
                          MkLeg("TRANSFER_IN",  <<t[1], t[3]>>, t[4])>>
      BY <1>5 DEF TransferLegs
    <2>2. t[4] \in Int /\ <<t[1], t[2]>> \in Keys /\ <<t[1], t[3]>> \in Keys
      BY StockAssumption DEF Keys
    <2>3. /\ MkLeg("TRANSFER_OUT", <<t[1], t[2]>>, t[4]) \in Leg
          /\ MkLeg("TRANSFER_OUT", <<t[1], t[2]>>, t[4]).ref = None
          /\ MkLeg("TRANSFER_IN", <<t[1], t[3]>>, t[4]) \in Leg
          /\ MkLeg("TRANSFER_IN", <<t[1], t[3]>>, t[4]).ref = None
      BY <2>2, <1>1 DEF EntryTypes
    <2> QED
      BY <2>1, <2>3
  <1> QED
    BY <1>3, <1>4, <1>5 DEF RequestLegs, EntryTypes

-----------------------------------------------------------------------------
(* Type correctness and the shape of requests.                             *)

\* The tables, and what each request knows of its own, whoever holds the locks.
TablesOK ==
    /\ balance \in [Keys -> Row]
    /\ dirty \in [Keys -> Row]
    /\ ledger \in [Requests -> Seq(Entry)]
    /\ booked \in [Keys -> Int]
    /\ grnStatus \in [Grns -> GrnStatuses]
    /\ req \in [Requests -> Request]
    /\ published \subseteq Requests

TablesInv == TablesOK /\ RequestsSound

IInv == TypeOK /\ RequestsSound /\ LocksAreHeld

LEMMA TypedTables == IInv => TablesInv
  BY DEF IInv, TablesInv, TypeOK, TablesOK

\* Rows stay rows under the upsert of either arm.
LEMMA UpsertedType ==
    ASSUME NEW row \in Row, NEW onHand \in Int, NEW reserved \in Nat
    PROVE  Upserted(row, onHand, reserved) \in Row
           /\ Upserted(row, onHand, reserved).onHand = onHand
  <1>1. AtLeastZero(onHand - reserved) \in Nat /\ AtLeastZero(onHand) \in Nat
    BY DEF AtLeastZero
  <1>2. CASE row.present
    BY <1>1, <1>2 DEF Upserted, Row
  <1>3. CASE ~row.present
    <2>1. Upserted(row, onHand, reserved) =
            [present |-> TRUE, onHand |-> onHand, reserved |-> 0,
             available |-> AtLeastZero(onHand), allocated |-> 0, onOrder |-> 0]
      BY <1>3 DEF Upserted, Absent
    <2> QED
      BY <2>1, <1>1 DEF Row
  <1> QED
    BY <1>2, <1>3

LEMMA InitType == Init => IInv
  <1> SUFFICES ASSUME Init PROVE IInv
    OBVIOUS
  <1>1. Absent \in Row
    BY DEF Absent, Row
  <1>2. \A k \in Keys : Upserted(Absent, Opening[k], 0) \in Row
    BY <1>1, UpsertedType, InventoryAssumption
  <1>3. balance \in [Keys -> Row] /\ dirty \in [Keys -> Row]
    BY <1>1, <1>2 DEF Init
  <1>4. Idle \in Request
    BY DEF Idle, Request, PCs
  <1>5. TypeOK
    BY <1>3, <1>4, InventoryAssumption DEF Init, TypeOK, GrnStatuses
  <1>6. RequestsSound
    BY DEF Init, RequestsSound, RowsFollowLegs, LegsAsAsked, Idle
  <1>7. LocksAreHeld
    BY DEF Init, LocksAreHeld
  <1> QED
    BY <1>5, <1>6, <1>7 DEF IInv

\* A step of one request leaves the shape of the others alone.
LEMMA OthersSound ==
    ASSUME TablesOK, RequestsSound, NEW r \in Requests, NEW q,
           req' = [req EXCEPT ![r] = q],
           \A s \in Requests \ {r} : ledger'[s] = ledger[s],
           RowsFollowLegs(r)', LegsAsAsked(r)'
    PROVE  RequestsSound'
  <1> SUFFICES ASSUME NEW s \in Requests
               PROVE  RowsFollowLegs(s)' /\ LegsAsAsked(s)'
    BY DEF RequestsSound
  <1>1. CASE s = r
    BY <1>1
  <1>2. CASE s # r
    <2>1. req'[s] = req[s] /\ ledger'[s] = ledger[s]
      BY <1>2 DEF TablesOK
    <2>2. RowsFollowLegs(s) /\ LegsAsAsked(s)
      BY DEF RequestsSound
    <2> QED
      BY <2>1, <2>2 DEF RowsFollowLegs, LegsAsAsked
  <1> QED
    BY <1>1, <1>2

LEMMA ArriveKeeps ==
    ASSUME TablesInv, NEW r \in Requests, Arrive(r)
    PROVE  TablesInv'
  <1> USE DEF TablesInv
  <1>1. Idle \in Request /\ Idle.rows = <<>> /\ Idle.grn = None /\ Idle.legs = <<>>
    BY DEF Idle, Request, PCs
  <1>2. ledger[r] = <<>> /\ req[r] = Idle /\ ~InTx(r)
    BY DEF RequestsSound, RowsFollowLegs, LegsAsAsked, Arrive, BeginMovement, FetchGrn,
           BeginRebuild, InTx, Idle
  <1>3. CASE BeginMovement(r)
    <2>0. PICK kind \in Kinds : \E legs \in RequestLegs(kind) :
                 req' = [req EXCEPT ![r] = [Idle EXCEPT !.pc = "read", !.legs = legs]]
      BY <1>3 DEF BeginMovement
    <2>1. PICK legs \in RequestLegs(kind) :
                 req' = [req EXCEPT ![r] = [Idle EXCEPT !.pc = "read", !.legs = legs]]
      BY <2>0
    <2> DEFINE q == [Idle EXCEPT !.pc = "read", !.legs = legs]
    <2>2. legs \in Seq(Leg) /\ Len(legs) > 0
      BY RequestLegsType
    <2>3. q \in Request
      BY <2>2, <1>1 DEF Request, PCs
    <2>4. req' = [req EXCEPT ![r] = q] /\ req'[r] = q
      BY <2>1 DEF TablesOK
    <2>5. UNCHANGED <<balance, dirty, lock, ledger, booked, grnStatus, published>>
      BY <1>3 DEF BeginMovement
    <2>6. TablesOK'
      BY <2>3, <2>4, <2>5 DEF TablesOK
    <2>7. RowsFollowLegs(r)'
      BY <2>4, <2>5, <2>2, <1>1, <1>2 DEF RowsFollowLegs, Idle
    <2>8. LegsAsAsked(r)'
      <3>1. q.pc = "read" /\ q.legs = legs /\ q.grn = None
        BY DEF Idle
      <3> QED
        BY <3>1, <2>4 DEF LegsAsAsked
    <2>9. RequestsSound'
      BY <2>4, <2>5, <2>7, <2>8, OthersSound
    <2> QED
      BY <2>6, <2>9
  <1>4. ASSUME NEW g \in Grns, FetchGrn(r, g)
        PROVE  TablesInv'
    <2>1. UNCHANGED <<balance, dirty, lock, ledger, booked, grnStatus, published>>
      BY <1>4 DEF FetchGrn
    <2>2. CASE grnStatus[g] = "POSTED" \/ PostableLines(g) = {}
      <3> DEFINE q == [Idle EXCEPT !.pc = "rejected", !.grn = g]
      <3>1. req' = [req EXCEPT ![r] = q] /\ req'[r] = q
        BY <1>4, <2>2 DEF FetchGrn, TablesOK
      <3>2. q \in Request /\ q.pc = "rejected" /\ q.rows = <<>> /\ q.legs = <<>> /\ q.grn = g
        BY <1>1 DEF Request, PCs, Idle
      <3> HIDE DEF q
      <3>3. TablesOK'
        BY <3>1, <3>2, <2>1 DEF TablesOK
      <3>4. RowsFollowLegs(r)' /\ LegsAsAsked(r)'
        BY <3>1, <3>2, <2>1, <1>2, StockAssumption DEF RowsFollowLegs, LegsAsAsked
      <3>5. RequestsSound'
        BY <3>1, <3>4, <2>1, OthersSound
      <3> QED
        BY <3>3, <3>5
    <2>3. CASE ~(grnStatus[g] = "POSTED" \/ PostableLines(g) = {})
      <3>1. PICK legs \in GrnLegs(g) :
               req' = [req EXCEPT ![r] = [Idle EXCEPT !.pc = "fetched", !.grn = g, !.legs = legs]]
        BY <1>4, <2>3 DEF FetchGrn
      <3> DEFINE q == [Idle EXCEPT !.pc = "fetched", !.grn = g, !.legs = legs]
      <3>2. legs \in Seq(Leg) /\ Len(legs) > 0
        BY <2>3, GrnLegsType, GrnLegsNonEmpty
      <3>3. req' = [req EXCEPT ![r] = q] /\ req'[r] = q
        BY <3>1 DEF TablesOK
      <3>4. q \in Request /\ q.pc = "fetched" /\ q.rows = <<>> /\ q.legs = legs /\ q.grn = g
        BY <1>1, <3>2 DEF Request, PCs, Idle
      <3> HIDE DEF q
      <3>5. TablesOK'
        BY <3>3, <3>4, <2>1 DEF TablesOK
      <3>6. RowsFollowLegs(r)' /\ LegsAsAsked(r)'
        BY <3>2, <3>3, <3>4, <2>1, <1>2, StockAssumption DEF RowsFollowLegs, LegsAsAsked
      <3>7. RequestsSound'
        BY <3>3, <3>6, <2>1, OthersSound
      <3> QED
        BY <3>5, <3>7
    <2> QED
      BY <2>2, <2>3
  <1>5. ASSUME NEW k \in Keys, BeginRebuild(r, k)
        PROVE  TablesInv'
    <2> DEFINE q == [Idle EXCEPT !.pc = "sum", !.key = k]
    <2>1. UNCHANGED <<balance, dirty, lock, ledger, booked, grnStatus, published>>
      BY <1>5 DEF BeginRebuild
    <2>2. req' = [req EXCEPT ![r] = q] /\ req'[r] = q
      BY <1>5 DEF BeginRebuild, TablesOK
    <2>3. /\ q \in Request /\ q.pc = "sum" /\ q.rows = <<>> /\ q.legs = <<>>
          /\ q.grn = None /\ q.key = k
      BY <1>1 DEF Request, PCs, Idle
    <2> HIDE DEF q
    <2>4. TablesOK'
      BY <2>1, <2>2, <2>3 DEF TablesOK
    <2>5. RowsFollowLegs(r)' /\ LegsAsAsked(r)'
      BY <2>1, <2>2, <2>3, <1>2 DEF RowsFollowLegs, LegsAsAsked
    <2>6. RequestsSound'
      BY <2>1, <2>2, <2>5, OthersSound
    <2> QED
      BY <2>4, <2>6
  <1> QED
    BY <1>3, <1>4, <1>5 DEF Arrive

\* The steps that read: nothing but the request itself changes.
LEMMA ReadingKeeps ==
    ASSUME TablesInv, NEW r \in Requests,
           BeginPostGrn(r) \/ ReadBalance(r) \/ SumLedger(r) \/ ReadReserved(r)
    PROVE  TablesInv'
  <1> USE DEF TablesInv
  <1>1. UNCHANGED <<balance, dirty, lock, ledger, booked, grnStatus, published>>
    BY DEF BeginPostGrn, ReadBalance, SumLedger, ReadReserved
  <1>2. req[r] \in Request /\ RowsFollowLegs(r) /\ LegsAsAsked(r)
    BY DEF TablesOK, RequestsSound
  <1>3. ASSUME NEW q \in Request, req' = [req EXCEPT ![r] = q],
               RowsFollowLegs(r)', LegsAsAsked(r)'
        PROVE  TablesInv'
    <2>1. TablesOK'
      BY <1>1, <1>3 DEF TablesOK
    <2>2. RequestsSound'
      BY <1>1, <1>3, OthersSound
    <2> QED
      BY <2>1, <2>2
  <1>4. CASE BeginPostGrn(r)
    <2> DEFINE q == [req[r] EXCEPT !.pc = "read"]
    <2>1. req' = [req EXCEPT ![r] = q] /\ req'[r] = q /\ req[r].pc = "fetched"
      BY <1>4 DEF BeginPostGrn, Goto, TablesOK
    <2>2. /\ q \in Request /\ q.pc = "read" /\ q.rows = req[r].rows
          /\ q.legs = req[r].legs /\ q.grn = req[r].grn
      BY <1>2 DEF Request, PCs
    <2> HIDE DEF q
    <2>3. RowsFollowLegs(r)' /\ LegsAsAsked(r)'
      BY <2>1, <2>2, <1>1, <1>2 DEF RowsFollowLegs, LegsAsAsked
    <2> QED
      BY <2>1, <2>2, <2>3, <1>3
  <1>5. CASE SumLedger(r)
    <2> DEFINE q == [req[r] EXCEPT !.pc = "reserved", !.onHand = booked[req[r].key]]
    <2>1. req' = [req EXCEPT ![r] = q] /\ req'[r] = q /\ req[r].pc = "sum"
      BY <1>5 DEF SumLedger, TablesOK
    <2>2. booked[req[r].key] \in Int
      BY <2>1, <1>2 DEF TablesOK, LegsAsAsked
    <2>3. /\ q \in Request /\ q.pc = "reserved" /\ q.rows = req[r].rows
          /\ q.legs = req[r].legs /\ q.grn = req[r].grn /\ q.key = req[r].key
      BY <1>2, <2>2 DEF Request, PCs
    <2> HIDE DEF q
    <2>4. RowsFollowLegs(r)' /\ LegsAsAsked(r)'
      BY <2>1, <2>3, <1>1, <1>2 DEF RowsFollowLegs, LegsAsAsked
    <2> QED
      BY <2>1, <2>3, <2>4, <1>3
  <1>6. CASE ReadReserved(r)
    <2> DEFINE q == [req[r] EXCEPT !.pc = "write", !.reserved = View(r, req[r].key).reserved]
    <2>1. req' = [req EXCEPT ![r] = q] /\ req'[r] = q /\ req[r].pc = "reserved"
      BY <1>6 DEF ReadReserved, TablesOK
    <2>2. View(r, req[r].key) \in Row
      BY <2>1, <1>2 DEF TablesOK, LegsAsAsked, View
    <2>3. /\ q \in Request /\ q.pc = "write" /\ q.rows = req[r].rows
          /\ q.legs = req[r].legs /\ q.grn = req[r].grn /\ q.key = req[r].key
      BY <1>2, <2>2 DEF Request, PCs, Row
    <2> HIDE DEF q
    <2>4. RowsFollowLegs(r)' /\ LegsAsAsked(r)'
      BY <2>1, <2>3, <1>1, <1>2 DEF RowsFollowLegs, LegsAsAsked
    <2> QED
      BY <2>1, <2>3, <2>4, <1>3
  <1>7. CASE ReadBalance(r)
    <2> DEFINE leg == NextLeg(r)
               n == NewOnHand(r)
               row == [leg |-> leg, balanceQty |-> n]
               delta == [req[r].delta EXCEPT ![leg.key] = @ + leg.qty]
               q == WithRow(r)
    <2>1. req' = [req EXCEPT ![r] = q] /\ req'[r] = q /\ req[r].pc = "read"
      BY <1>7 DEF ReadBalance, TablesOK
    <2>2. /\ req[r].legs \in Seq(Leg) /\ req[r].rows \in Seq(Entry)
          /\ Len(req[r].rows) < Len(req[r].legs)
      BY <2>1, <1>2 DEF RowsFollowLegs, Request
    <2>3. Len(req[r].rows) + 1 \in 1..Len(req[r].legs)
      BY <2>2
    <2>4. leg \in Leg /\ leg = req[r].legs[Len(req[r].rows) + 1]
      BY <2>2, <2>3 DEF NextLeg
    <2>5. leg.key \in Keys /\ leg.qty \in Int /\ View(r, leg.key) \in Row
      BY <2>4 DEF Leg, View, TablesOK
    <2>6. n \in Int /\ row \in Entry /\ row.leg = leg
      BY <2>4, <2>5 DEF NewOnHand, Row, Entry
    <2>7. delta \in [Keys -> Int]
      BY <1>2, <2>5 DEF Request
    <2>8. Append(req[r].rows, row) \in Seq(Entry)
      BY <2>2, <2>6
    <2>9. q = [pc |-> "write", legs |-> req[r].legs, grn |-> req[r].grn,
               rows |-> Append(req[r].rows, row), delta |-> delta, key |-> leg.key,
               onHand |-> n, reserved |-> View(r, leg.key).reserved]
      BY DEF WithRow
    <2> HIDE DEF leg, n, row, delta, q
    <2>10. /\ q \in Request /\ q.pc = "write" /\ q.rows = Append(req[r].rows, row)
           /\ q.legs = req[r].legs /\ q.grn = req[r].grn /\ q.key = leg.key
      BY <1>2, <2>5, <2>6, <2>7, <2>8, <2>9 DEF Request, PCs, Row
    <2>11. ASSUME NEW i \in DOMAIN q.rows
           PROVE  q.rows[i].leg = q.legs[i]
      <3>1. DOMAIN q.rows = 1..(Len(req[r].rows) + 1)
        BY <2>2, <2>6, <2>10
      <3>2. CASE i = Len(req[r].rows) + 1
        BY <3>2, <2>2, <2>4, <2>6, <2>10
      <3>3. CASE i \in DOMAIN req[r].rows
        BY <3>3, <2>2, <2>6, <2>10, <1>2 DEF RowsFollowLegs
      <3> QED
        BY <3>1, <3>2, <3>3, <2>2
    <2>12. RowsFollowLegs(r)'
      <3>1. Len(q.rows) = Len(req[r].rows) + 1
        BY <2>2, <2>6, <2>10
      <3>2. Len(q.rows) <= Len(q.legs)
        BY <3>1, <2>2, <2>10
      <3>3. ledger'[r] = <<>>
        BY <2>1, <1>1, <1>2 DEF RowsFollowLegs
      <3> QED
        BY <3>2, <3>3, <2>1, <2>10, <2>11 DEF RowsFollowLegs
    <2>13. LegsAsAsked(r)'
      BY <2>1, <2>5, <2>10, <1>2 DEF LegsAsAsked
    <2> QED
      BY <2>1, <2>10, <2>12, <2>13, <1>3
  <1> QED
    BY <1>4, <1>5, <1>6, <1>7

\* The steps that end a transaction without a commit.
LEMMA EndingKeeps ==
    ASSUME TablesInv, NEW r \in Requests,
           RefuseInsufficient(r) \/ Rollback(r) \/ AbortDeadlock(r)
    PROVE  TablesInv'
  <1> USE DEF TablesInv
  <1>1. PICK label \in {"rejected", "failed"} : Goto(r, label)
    BY DEF RefuseInsufficient, Rollback, AbortDeadlock
  <1>2. DropWrites(r) /\ UNCHANGED <<balance, ledger, booked, grnStatus, published>>
    BY DEF RefuseInsufficient, Rollback, AbortDeadlock
  <1>3. req[r].pc \in {"read", "sum", "reserved", "write", "commit"}
    BY DEF RefuseInsufficient, Rollback, AbortDeadlock, Deadlocked, WaitsFor, InTx
  <1> DEFINE q == [req[r] EXCEPT !.pc = label]
  <1>4. req' = [req EXCEPT ![r] = q] /\ req'[r] = q
    BY <1>1 DEF Goto, TablesOK
  <1>5. req[r] \in Request /\ RowsFollowLegs(r) /\ LegsAsAsked(r)
    BY DEF TablesOK, RequestsSound
  <1>6. /\ q \in Request /\ q.pc = label /\ q.rows = req[r].rows
        /\ q.legs = req[r].legs /\ q.grn = req[r].grn
    BY <1>5 DEF Request, PCs
  <1> HIDE DEF q
  <1>7. dirty' \in [Keys -> Row]
    BY <1>2 DEF DropWrites, TablesOK
  <1>9. TablesOK'
    BY <1>2, <1>4, <1>6, <1>7 DEF TablesOK
  <1>10. RowsFollowLegs(r)' /\ LegsAsAsked(r)'
    BY <1>2, <1>3, <1>4, <1>5, <1>6 DEF RowsFollowLegs, LegsAsAsked
  <1>11. RequestsSound'
    BY <1>2, <1>4, <1>10, OthersSound
  <1> QED
    BY <1>9, <1>11

LEMMA UpsertKeeps ==
    ASSUME TablesInv, NEW r \in Requests, UpsertBalance(r)
    PROVE  TablesInv'
  <1> USE DEF TablesInv
  <1> DEFINE k == req[r].key
             label == IF Len(req[r].rows) < Len(req[r].legs) THEN "read" ELSE "commit"
             q == [req[r] EXCEPT !.pc = label]
             row == Upserted(View(r, k), req[r].onHand, req[r].reserved)
  <1>1. /\ req[r].pc = "write" /\ lock[k] \in {r, None}
        /\ lock' = [lock EXCEPT ![k] = r]
        /\ dirty' = [dirty EXCEPT ![k] = row]
        /\ Goto(r, label)
        /\ UNCHANGED <<balance, ledger, booked, grnStatus, published>>
    BY DEF UpsertBalance
  <1>2. req[r] \in Request /\ RowsFollowLegs(r) /\ LegsAsAsked(r)
    BY DEF TablesOK, RequestsSound
  <1>3. k \in Keys /\ label \in {"read", "commit"}
    BY <1>1, <1>2 DEF LegsAsAsked
  <1>4. row \in Row
    BY <1>2, <1>3, UpsertedType DEF View, TablesOK, Request
  <1>5. req' = [req EXCEPT ![r] = q] /\ req'[r] = q
    BY <1>1 DEF Goto, TablesOK
  <1>6. /\ q \in Request /\ q.pc = label /\ q.rows = req[r].rows
        /\ q.legs = req[r].legs /\ q.grn = req[r].grn
    BY <1>2, <1>3 DEF Request, PCs
  <1>7. label = "read" => Len(q.rows) < Len(q.legs)
    BY <1>6
  <1>8. label = "commit" => Len(q.rows) = Len(q.legs)
    BY <1>2, <1>6 DEF RowsFollowLegs, Request
  <1> HIDE DEF q, row, label, k
  <1>9. TablesOK'
    BY <1>1, <1>3, <1>4, <1>5, <1>6 DEF TablesOK
  <1>10. RowsFollowLegs(r)' /\ LegsAsAsked(r)'
    BY <1>1, <1>2, <1>3, <1>5, <1>6, <1>7, <1>8 DEF RowsFollowLegs, LegsAsAsked
  <1>11. RequestsSound'
    BY <1>1, <1>5, <1>10, OthersSound
  <1> QED
    BY <1>9, <1>11

LEMMA CommitKeeps ==
    ASSUME TablesInv, NEW r \in Requests, Commit(r)
    PROVE  TablesInv'
  <1> USE DEF TablesInv
  <1> DEFINE label == IF req[r].grn = None THEN "done" ELSE "emit"
             q == [req[r] EXCEPT !.pc = label]
  <1>1. /\ req[r].pc = "commit"
        /\ balance' = [k \in Keys |-> IF lock[k] = r THEN dirty[k] ELSE balance[k]]
        /\ lock' = [k \in Keys |-> IF lock[k] = r THEN None ELSE lock[k]]
        /\ ledger' = [ledger EXCEPT ![r] = req[r].rows]
        /\ booked' = [k \in Keys |-> booked[k] + req[r].delta[k]]
        /\ grnStatus' = [g \in Grns |-> IF g = req[r].grn THEN "POSTED" ELSE grnStatus[g]]
        /\ Goto(r, label)
        /\ UNCHANGED <<dirty, published>>
    BY DEF Commit
  <1>2. req[r] \in Request /\ RowsFollowLegs(r) /\ LegsAsAsked(r)
    BY DEF TablesOK, RequestsSound
  <1>3. req' = [req EXCEPT ![r] = q] /\ req'[r] = q
    BY <1>1 DEF Goto, TablesOK
  <1>4. /\ q \in Request /\ q.pc = label /\ q.rows = req[r].rows
        /\ q.legs = req[r].legs /\ q.grn = req[r].grn /\ label \in {"done", "emit"}
    BY <1>2 DEF Request, PCs
  <1> HIDE DEF q, label
  <1>5. req[r].rows \in Seq(Entry) /\ req[r].delta \in [Keys -> Int]
    BY <1>2 DEF Request
  <1>7. TablesOK'
    <2>1. balance' \in [Keys -> Row] /\ dirty' \in [Keys -> Row]
      BY <1>1 DEF TablesOK
    <2>2. ledger' \in [Requests -> Seq(Entry)]
      BY <1>1, <1>5 DEF TablesOK
    <2>3. booked' \in [Keys -> Int]
      BY <1>1, <1>5 DEF TablesOK
    <2>4. grnStatus' \in [Grns -> GrnStatuses]
      BY <1>1 DEF TablesOK, GrnStatuses
    <2>5. req' \in [Requests -> Request] /\ published' \subseteq Requests
      BY <1>1, <1>3, <1>4 DEF TablesOK
    <2> QED
      BY <2>1, <2>2, <2>3, <2>4, <2>5 DEF TablesOK
  <1>8. ledger'[r] = q.rows
    BY <1>1, <1>4 DEF TablesOK
  <1>9. RowsFollowLegs(r)' /\ LegsAsAsked(r)'
    BY <1>1, <1>2, <1>3, <1>4, <1>8 DEF RowsFollowLegs, LegsAsAsked
  <1>10. \A s \in Requests \ {r} : ledger'[s] = ledger[s]
    BY <1>1 DEF TablesOK
  <1>11. RequestsSound'
    BY <1>3, <1>9, <1>10, OthersSound
  <1> QED
    BY <1>7, <1>11

LEMMA EmitKeeps ==
    ASSUME TablesInv, NEW r \in Requests, EmitGrnPosted(r) \/ DropGrnPosted(r)
    PROVE  TablesInv'
  <1> USE DEF TablesInv
  <1> DEFINE q == [req[r] EXCEPT !.pc = "done"]
  <1>1. /\ req[r].pc = "emit" /\ Goto(r, "done")
        /\ UNCHANGED <<balance, dirty, lock, ledger, booked, grnStatus>>
        /\ published' \in {published, published \cup {r}}
    BY DEF EmitGrnPosted, DropGrnPosted
  <1>2. req' = [req EXCEPT ![r] = q] /\ req'[r] = q
    BY <1>1 DEF Goto, TablesOK
  <1>3. req[r] \in Request /\ RowsFollowLegs(r) /\ LegsAsAsked(r)
    BY DEF TablesOK, RequestsSound
  <1>4. /\ q \in Request /\ q.pc = "done" /\ q.rows = req[r].rows
        /\ q.legs = req[r].legs /\ q.grn = req[r].grn
    BY <1>3 DEF Request, PCs
  <1> HIDE DEF q
  <1>5. TablesOK'
    BY <1>1, <1>2, <1>4 DEF TablesOK
  <1>6. RowsFollowLegs(r)' /\ LegsAsAsked(r)'
    BY <1>1, <1>2, <1>3, <1>4 DEF RowsFollowLegs, LegsAsAsked
  <1>7. RequestsSound'
    BY <1>1, <1>2, <1>6, OthersSound
  <1> QED
    BY <1>5, <1>7

\* A step of the inventory service keeps its tables whoever holds the locks.
LEMMA TablesStep == TablesInv /\ [Next]_vars => TablesInv'
  <1> SUFFICES ASSUME TablesInv, [Next]_vars PROVE TablesInv'
    OBVIOUS
  <1>1. CASE UNCHANGED vars
    BY <1>1 DEF vars, TablesInv, TablesOK, RequestsSound, RowsFollowLegs, LegsAsAsked
  <1>2. ASSUME NEW r \in Requests, Arrive(r) \/ Work(r) \/ Rollback(r)
        PROVE  TablesInv'
    BY <1>2, ArriveKeeps, ReadingKeeps, EndingKeeps, UpsertKeeps, CommitKeeps, EmitKeeps
       DEF Work
  <1> QED
    BY <1>1, <1>2 DEF Next, Finished

\* A step of r moves no other request.
LEMMA OthersStay ==
    ASSUME TablesInv, NEW r \in Requests, Arrive(r) \/ Work(r) \/ Rollback(r),
           NEW s \in Requests \ {r}
    PROVE  req'[s] = req[s]
  BY DEF TablesInv, TablesOK, Arrive, BeginMovement, FetchGrn, BeginRebuild, Work, Goto,
         BeginPostGrn, ReadBalance, RefuseInsufficient, SumLedger, ReadReserved, UpsertBalance,
         Commit, AbortDeadlock, EmitGrnPosted, DropGrnPosted, Rollback

\* What a step of r does to the locks.
LEMMA LockMoves ==
    ASSUME TablesInv, NEW r \in Requests, Arrive(r) \/ Work(r) \/ Rollback(r)
    PROVE  \/ lock' = lock /\ (InTx(r) => InTx(r)')
           \/ lock' = [k \in Keys |-> IF lock[k] = r THEN None ELSE lock[k]]
           \/ /\ req[r].key \in Keys /\ lock[req[r].key] \in {r, None}
              /\ lock' = [lock EXCEPT ![req[r].key] = r] /\ InTx(r)'
  <1>1. req[r] \in Request /\ LegsAsAsked(r) /\ req \in [Requests -> Request]
    BY DEF TablesInv, TablesOK, RequestsSound
  <1>2. CASE Arrive(r) \/ EmitGrnPosted(r) \/ DropGrnPosted(r)
    BY <1>2 DEF Arrive, BeginMovement, FetchGrn, BeginRebuild, EmitGrnPosted, DropGrnPosted, InTx
  <1>3. CASE BeginPostGrn(r) \/ ReadBalance(r) \/ SumLedger(r) \/ ReadReserved(r)
    <2>1. req'[r].pc \in {"read", "write", "reserved"}
      BY <1>1, <1>3 DEF BeginPostGrn, ReadBalance, SumLedger, ReadReserved, Goto, WithRow, Request
    <2> QED
      BY <1>3, <2>1 DEF BeginPostGrn, ReadBalance, SumLedger, ReadReserved, InTx
  <1>4. CASE UpsertBalance(r)
    <2>1. req[r].key \in Keys
      BY <1>1, <1>4 DEF LegsAsAsked, UpsertBalance
    <2>2. req'[r].pc \in {"read", "commit"}
      BY <1>1, <1>4 DEF UpsertBalance, Goto, Request
    <2> QED
      BY <1>4, <2>1, <2>2 DEF UpsertBalance, InTx
  <1>5. CASE RefuseInsufficient(r) \/ Commit(r) \/ AbortDeadlock(r) \/ Rollback(r)
    BY <1>5 DEF RefuseInsufficient, Commit, AbortDeadlock, Rollback, DropWrites
  <1> QED
    BY <1>2, <1>3, <1>4, <1>5 DEF Work

\* A request that holds a lock has its transaction open.
HoldersOpen == \A k \in Keys : \A s \in Requests : lock[k] = s => InTx(s)

LEMMA LocksStep ==
    ASSUME TablesInv, HoldersOpen, lock = [k \in Keys |-> lock[k]],
           NEW r \in Requests, Arrive(r) \/ Work(r) \/ Rollback(r)
    PROVE  /\ HoldersOpen'
           /\ lock' = [k \in Keys |-> lock'[k]]
           /\ \A k \in Keys : lock'[k] # lock[k] => lock'[k] \in {r, None} /\ lock[k] \in {r, None}
  <1>1. \A s \in Requests \ {r} : req'[s] = req[s]
    BY OthersStay
  <1>2. ASSUME NEW k \in Keys, NEW s \in Requests, lock[k] = s, s # r
        PROVE  InTx(s)'
    BY <1>1, <1>2 DEF HoldersOpen, InTx
  <1>3. CASE lock' = lock /\ (InTx(r) => InTx(r)')
    BY <1>2, <1>3 DEF HoldersOpen
  <1>4. CASE lock' = [k \in Keys |-> IF lock[k] = r THEN None ELSE lock[k]]
    BY <1>2, <1>4, InventoryAssumption DEF HoldersOpen
  <1>5. CASE /\ req[r].key \in Keys /\ lock[req[r].key] \in {r, None}
             /\ lock' = [lock EXCEPT ![req[r].key] = r] /\ InTx(r)'
    <2>1. PICK key \in Keys : key = req[r].key
      BY <1>5
    <2>2. lock[key] \in {r, None} /\ lock' = [lock EXCEPT ![key] = r] /\ InTx(r)'
      BY <1>5, <2>1
    <2>3. lock'[key] = r /\ \A k \in Keys \ {key} : lock'[k] = lock[k]
      BY <2>2
    <2>4. HoldersOpen'
      BY <1>2, <2>2, <2>3 DEF HoldersOpen
    <2> QED
      BY <2>2, <2>3, <2>4
  <1> QED
    BY <1>3, <1>4, <1>5, LockMoves

LEMMA StepKeeps == IInv /\ [Next]_vars => IInv'
  <1> SUFFICES ASSUME IInv, [Next]_vars PROVE IInv'
    OBVIOUS
  <1>1. TablesInv /\ TablesInv'
    BY TypedTables, TablesStep
  <1>2. CASE UNCHANGED vars
    BY <1>2 DEF vars, IInv, TypeOK, RequestsSound, RowsFollowLegs, LegsAsAsked, LocksAreHeld, InTx
  <1>3. ASSUME NEW r \in Requests, Arrive(r) \/ Work(r) \/ Rollback(r)
        PROVE  IInv'
    <2>1. lock = [k \in Keys |-> lock[k]] /\ HoldersOpen
      BY InventoryAssumption DEF IInv, TypeOK, LocksAreHeld, HoldersOpen
    <2>2. /\ HoldersOpen' /\ lock' = [k \in Keys |-> lock'[k]]
          /\ \A k \in Keys : lock'[k] # lock[k] => lock'[k] \in {r, None}
      BY <1>1, <1>3, <2>1, LocksStep
    <2>3. lock' \in [Keys -> Requests \cup {None}]
      BY <2>2 DEF IInv, TypeOK
    <2>4. LocksAreHeld'
      BY <2>2, <2>3 DEF HoldersOpen, LocksAreHeld
    <2> QED
      BY <1>1, <2>3, <2>4 DEF IInv, TypeOK, TablesInv, TablesOK
  <1> QED
    BY <1>2, <1>3 DEF Next, Finished

\* The inductive invariant holds in every state of Inventory.
THEOREM InductiveInvariant == Spec => []IInv
  BY InitType, StepKeeps, PTL DEF Spec

\* Every table and every request keeps its type, for any requests and notes.
THEOREM TypeCorrect == Spec => []TypeOK
  BY InductiveInvariant, PTL DEF IInv

\* The legs of an operation are committed all together and in order, or none
\* of them is, whatever fails and however many transactions interleave.
THEOREM LegsAllOrNothing == Spec => []AllOrNothing
  <1>1. IInv => AllOrNothing
    BY DEF IInv, RequestsSound, RowsFollowLegs, AllOrNothing
  <1> QED
    BY <1>1, InductiveInvariant, PTL

\* A transfer's OUT leg is always followed by the IN leg that undoes it at
\* another location; no other operation writes an OUT leg.
LEMMA OutLegHasInLeg ==
    ASSUME NEW kind, NEW legs \in RequestLegs(kind),
           NEW i \in DOMAIN legs, legs[i].type = "TRANSFER_OUT"
    PROVE  \E j \in DOMAIN legs :
              /\ legs[j].type = "TRANSFER_IN"
              /\ legs[j].key[1] = legs[i].key[1]
              /\ legs[j].key[2] # legs[i].key[2]
              /\ legs[j].qty = -legs[i].qty
  <1>1. ASSUME NEW type \in {"ISSUE_TO_PROD", "RETURN_FROM_PROD", "OPENING_STOCK"},
               legs \in SingleLegs(type)
        PROVE  FALSE
    <2>1. PICK k \in Keys, q \in 1..MaxQty : legs = <<MkLeg(type, k, q)>>
      BY <1>1 DEF SingleLegs
    <2> QED
      BY <2>1, <1>1 DEF MkLeg
  <1>2. ASSUME legs \in AdjustLegs PROVE FALSE
    <2>1. PICK k \in Keys, q \in (-MaxQty..MaxQty) \ {0} : legs = <<MkLeg("ADJUSTMENT", k, q)>>
      BY <1>2 DEF AdjustLegs
    <2> QED
      BY <2>1 DEF MkLeg
  <1>3. legs \in TransferLegs
    BY <1>1, <1>2 DEF RequestLegs
  <1>4. PICK t \in {u \in Items \X Locations \X Locations \X (1..MaxQty) : u[2] # u[3]} :
           legs = <<MkLeg("TRANSFER_OUT", <<t[1], t[2]>>, t[4]),
                    MkLeg("TRANSFER_IN",  <<t[1], t[3]>>, t[4])>>
    BY <1>3 DEF TransferLegs
  <1>5. t[2] # t[3] /\ t[4] \in Nat
    BY <1>4, StockAssumption
  <1>6. /\ legs[1].type = "TRANSFER_OUT" /\ legs[1].key = <<t[1], t[2]>> /\ legs[1].qty = -t[4]
        /\ legs[2].type = "TRANSFER_IN" /\ legs[2].key = <<t[1], t[3]>> /\ legs[2].qty = t[4]
        /\ DOMAIN legs = 1..2
    BY <1>4, <1>5 DEF MkLeg, SignedQty
  <1>7. i = 1
    BY <1>6
  <1> QED
    BY <1>5, <1>6, <1>7

\* Every committed TRANSFER_OUT has its matching TRANSFER_IN: no transfer,
\* interrupted or not, creates or destroys stock.
THEOREM TransfersCreateNothing == Spec => []TransfersBalance
  <1>1. ASSUME IInv, NEW r \in Requests, NEW i \in DOMAIN ledger[r],
               ledger[r][i].leg.type = "TRANSFER_OUT"
        PROVE  \E j \in DOMAIN ledger[r] :
                  /\ ledger[r][j].leg.type = "TRANSFER_IN"
                  /\ ledger[r][j].leg.key[1] = ledger[r][i].leg.key[1]
                  /\ ledger[r][j].leg.key[2] # ledger[r][i].leg.key[2]
                  /\ ledger[r][j].leg.qty = -ledger[r][i].leg.qty
    <2> DEFINE legs == req[r].legs
               rows == req[r].rows
    <2>1. req[r] \in Request /\ RowsFollowLegs(r) /\ LegsAsAsked(r)
      BY <1>1 DEF IInv, TypeOK, RequestsSound
    <2>2. legs \in Seq(Leg) /\ rows \in Seq(Entry)
      BY <2>1 DEF Request
    <2>3. ledger[r] = rows /\ req[r].pc \in {"emit", "done"}
      BY <1>1, <2>1 DEF RowsFollowLegs
    <2>4. Len(rows) = Len(legs) /\ DOMAIN rows = DOMAIN legs
      BY <2>1, <2>2, <2>3 DEF RowsFollowLegs
    <2>5. \A j \in DOMAIN legs : rows[j].leg = legs[j]
      BY <2>1, <2>4 DEF RowsFollowLegs
    <2>6. i \in DOMAIN legs /\ legs[i].type = "TRANSFER_OUT"
      BY <1>1, <2>3, <2>4, <2>5
    <2>7. req[r].grn = None
      <3>1. ASSUME req[r].grn # None PROVE FALSE
        <4>1. req[r].grn \in Grns /\ legs \in GrnLegs(req[r].grn)
          BY <3>1, <2>1, <2>3 DEF LegsAsAsked, Request
        <4> QED
          BY <4>1, <2>6, GrnLegsType
      <3> QED
        BY <3>1
    <2>8. PICK kind \in Kinds : legs \in RequestLegs(kind)
      BY <2>1, <2>6, <2>7 DEF LegsAsAsked
    <2>9. PICK j \in DOMAIN legs :
              /\ legs[j].type = "TRANSFER_IN"
              /\ legs[j].key[1] = legs[i].key[1]
              /\ legs[j].key[2] # legs[i].key[2]
              /\ legs[j].qty = -legs[i].qty
      BY <2>6, <2>8, OutLegHasInLeg
    <2> QED
      BY <2>3, <2>4, <2>5, <2>6, <2>9
  <1>2. IInv => TransfersBalance
    BY <1>1 DEF TransfersBalance
  <1> QED
    BY <1>2, InductiveInvariant, PTL

-----------------------------------------------------------------------------
(* The balance rows: what the locks, the uncommitted rows and the pending  *)
(* upserts of all open transactions say about each other.                  *)

\* r has inserted a ledger row of k, or is the rebuild of k.
Writes(r, k) ==
    \/ req[r].legs = <<>> /\ req[r].key = k
    \/ \E i \in DOMAIN req[r].rows : req[r].rows[i].leg.key = k

\* Only a rebuild may write a negative quantity.
MayBeNegative(r, k) == req[r].legs = <<>> /\ req[r].key = k

RowShows(row) ==
    /\ row.available = AtLeastZero(row.onHand - row.reserved)
    /\ row.present \/ row.reserved = 0

\* Both versions of a row show what can be promised and agree on reserved,
\* and differ only while a transaction that writes the key holds its lock.
RowInv(k) ==
    /\ RowShows(balance[k]) /\ RowShows(dirty[k])
    /\ dirty[k].reserved = balance[k].reserved
    /\ lock[k] = None => dirty[k] = balance[k]
    /\ lock[k] # None => Writes(lock[k], k)
    /\ balance[k].onHand >= 0 \/ Rebuilt(k)
    /\ dirty[k].onHand >= 0 \/ Rebuilt(k) \/ (lock[k] # None /\ MayBeNegative(lock[k], k))

\* What a pending upsert will write.
PendingInv(r) ==
    req[r].pc = "write" =>
        /\ Writes(r, req[r].key)
        /\ req[r].reserved = balance[req[r].key].reserved
        /\ req[r].onHand >= 0 \/ MayBeNegative(r, req[r].key)

RowsInv == (\A k \in Keys : RowInv(k)) /\ (\A r \in Requests : PendingInv(r))

LEMMA RowsInit == Init => RowsInv
  <1> SUFFICES ASSUME Init PROVE RowsInv
    OBVIOUS
  <1>1. \A k \in Keys : /\ RowShows(balance[k]) /\ balance[k].onHand >= 0
                        /\ dirty[k] = balance[k] /\ lock[k] = None
    <2> TAKE k \in Keys
    <2>1. Opening[k] \in Nat /\ dirty[k] = balance[k] /\ lock[k] = None
      BY InventoryAssumption DEF Init
    <2>2. balance[k] = IF Opening[k] = 0 THEN Absent ELSE Upserted(Absent, Opening[k], 0)
      BY DEF Init
    <2>3. RowShows(Absent) /\ Absent.onHand = 0 /\ ~Absent.present
      BY DEF RowShows, Absent, AtLeastZero
    <2>4. Upserted(Absent, Opening[k], 0) =
            [present |-> TRUE, onHand |-> Opening[k], reserved |-> 0,
             available |-> AtLeastZero(Opening[k]), allocated |-> 0, onOrder |-> 0]
      BY DEF Upserted, Absent
    <2>5. Opening[k] - 0 = Opening[k]
      BY <2>1
    <2>6. RowShows(Upserted(Absent, Opening[k], 0)) /\ Upserted(Absent, Opening[k], 0).onHand >= 0
      BY <2>1, <2>4, <2>5 DEF RowShows
    <2> QED
      BY <2>1, <2>2, <2>3, <2>6
  <1>2. \A r \in Requests : req[r].pc = "idle"
    BY DEF Init, Idle
  <1> QED
    BY <1>1, <1>2 DEF RowsInv, RowInv, PendingInv

\* A request that keeps its place keeps what it writes.
LEMMA OtherWrites ==
    ASSUME NEW r \in Requests, req'[r] = req[r], NEW k
    PROVE  /\ Writes(r, k)' <=> Writes(r, k)
           /\ MayBeNegative(r, k)' <=> MayBeNegative(r, k)
  BY DEF Writes, MayBeNegative

\* A finished rebuild stays finished as long as finished requests do not move.
LEMMA RebuiltStays ==
    ASSUME IInv, NEW r \in Requests, req[r].pc # "done", NEW q,
           req' = [req EXCEPT ![r] = q], NEW k, Rebuilt(k)
    PROVE  Rebuilt(k)'
  <1>1. PICK s \in Requests : req[s].pc = "done" /\ req[s].legs = <<>> /\ req[s].key = k
    BY DEF Rebuilt
  <1>2. req'[s] = req[s]
    BY <1>1 DEF IInv, TypeOK
  <1> QED
    BY <1>1, <1>2 DEF Rebuilt

\* The steps that change nothing but the request of r.
LEMMA RequestStepRows ==
    ASSUME IInv, RowsInv, NEW r \in Requests, req[r].pc # "done", NEW q,
           req' = [req EXCEPT ![r] = q], UNCHANGED <<balance, dirty, lock>>,
           InTx(r) => /\ \A k \in Keys : Writes(r, k) => Writes(r, k)'
                      /\ \A k \in Keys : MayBeNegative(r, k) => MayBeNegative(r, k)',
           PendingInv(r)'
    PROVE  RowsInv'
  <1>1. req'[r] = q /\ \A s \in Requests \ {r} : req'[s] = req[s]
    BY DEF IInv, TypeOK
  <1>2. ASSUME NEW k \in Keys PROVE RowInv(k)'
    <2>1. RowInv(k) /\ (Rebuilt(k) => Rebuilt(k)')
      BY RebuiltStays DEF RowsInv
    <2>2. lock[k] # None => lock[k] \in Requests /\ InTx(lock[k])
      BY DEF IInv, TypeOK, LocksAreHeld
    <2>3. lock[k] # None => Writes(lock[k], k)' /\
                            (MayBeNegative(lock[k], k) => MayBeNegative(lock[k], k)')
      <3>1. CASE lock[k] = r
        BY <2>1, <2>2, <3>1 DEF RowInv
      <3>2. CASE lock[k] # r
        <4>1. lock[k] # None => req'[lock[k]] = req[lock[k]]
          BY <1>1, <2>2, <3>2
        <4> QED
          BY <2>1, <2>2, <4>1, OtherWrites DEF RowInv
      <3> QED
        BY <3>1, <3>2
    <2>4. lock'[k] = lock[k] /\ balance'[k] = balance[k] /\ dirty'[k] = dirty[k]
      OBVIOUS
    <2> QED
      BY <2>1, <2>3, <2>4 DEF RowInv, RowShows
  <1>3. ASSUME NEW s \in Requests \ {r} PROVE PendingInv(s)'
    BY <1>1, <1>3, OtherWrites DEF RowsInv, PendingInv, Writes, MayBeNegative
  <1> QED
    BY <1>2, <1>3 DEF RowsInv

\* A request before its first row.
Fresh(q) == q.rows = <<>> /\ \A k \in Keys : q.delta[k] = 0

\* Where an arriving request goes first.
LEMMA ArriveTarget ==
    ASSUME NEW r \in Requests, Arrive(r)
    PROVE  \E q : /\ req' = [req EXCEPT ![r] = q] /\ Fresh(q)
                  /\ q.pc \in {"read", "fetched", "rejected", "sum"}
  <1>1. CASE BeginMovement(r)
    <2>1. PICK kind \in Kinds : \E legs \in RequestLegs(kind) :
                 req' = [req EXCEPT ![r] = [Idle EXCEPT !.pc = "read", !.legs = legs]]
      BY <1>1 DEF BeginMovement
    <2>2. PICK legs \in RequestLegs(kind) :
                 req' = [req EXCEPT ![r] = [Idle EXCEPT !.pc = "read", !.legs = legs]]
      BY <2>1
    <2> DEFINE q == [Idle EXCEPT !.pc = "read", !.legs = legs]
    <2>3. q.pc = "read" /\ Fresh(q)
      BY DEF Idle, Fresh
    <2> QED
      BY <2>2, <2>3
  <1>2. ASSUME NEW g \in Grns, FetchGrn(r, g)
        PROVE  \E q : /\ req' = [req EXCEPT ![r] = q] /\ Fresh(q)
                      /\ q.pc \in {"fetched", "rejected"}
    <2>1. CASE grnStatus[g] = "POSTED" \/ PostableLines(g) = {}
      <3> DEFINE q == [Idle EXCEPT !.pc = "rejected", !.grn = g]
      <3>1. req' = [req EXCEPT ![r] = q]
        BY <1>2, <2>1 DEF FetchGrn
      <3>2. q.pc = "rejected" /\ Fresh(q)
        BY DEF Idle, Fresh
      <3> QED
        BY <3>1, <3>2
    <2>2. CASE ~(grnStatus[g] = "POSTED" \/ PostableLines(g) = {})
      <3>1. PICK legs \in GrnLegs(g) :
               req' = [req EXCEPT ![r] = [Idle EXCEPT !.pc = "fetched", !.grn = g, !.legs = legs]]
        BY <1>2, <2>2 DEF FetchGrn
      <3> DEFINE q == [Idle EXCEPT !.pc = "fetched", !.grn = g, !.legs = legs]
      <3>2. q.pc = "fetched" /\ Fresh(q)
        BY DEF Idle, Fresh
      <3> QED
        BY <3>1, <3>2
    <2> QED
      BY <2>1, <2>2
  <1>3. ASSUME NEW k \in Keys, BeginRebuild(r, k)
        PROVE  \E q : req' = [req EXCEPT ![r] = q] /\ Fresh(q) /\ q.pc = "sum"
    <2> DEFINE q == [Idle EXCEPT !.pc = "sum", !.key = k]
    <2>1. req' = [req EXCEPT ![r] = q]
      BY <1>3 DEF BeginRebuild
    <2>2. q.pc = "sum" /\ Fresh(q)
      BY DEF Idle, Fresh
    <2> QED
      BY <2>1, <2>2
  <1> QED
    BY <1>1, <1>2, <1>3 DEF Arrive

LEMMA ArriveRows ==
    ASSUME IInv, RowsInv, NEW r \in Requests, Arrive(r)
    PROVE  RowsInv'
  <1>1. ~InTx(r) /\ req[r].pc # "done" /\ UNCHANGED <<balance, dirty, lock>>
    BY DEF Arrive, BeginMovement, FetchGrn, BeginRebuild, InTx
  <1>2. PICK q : req' = [req EXCEPT ![r] = q] /\ q.pc \in {"read", "fetched", "rejected", "sum"}
    BY ArriveTarget
  <1>3. PendingInv(r)'
    BY <1>2 DEF PendingInv, IInv, TypeOK
  <1> QED
    BY <1>1, <1>2, <1>3, RequestStepRows

LEMMA ReadingRows ==
    ASSUME IInv, RowsInv, NEW r \in Requests,
           BeginPostGrn(r) \/ ReadBalance(r) \/ SumLedger(r) \/ ReadReserved(r)
    PROVE  RowsInv'
  <1>1. UNCHANGED <<balance, dirty, lock>>
    BY DEF BeginPostGrn, ReadBalance, SumLedger, ReadReserved
  <1>2. req[r] \in Request /\ RowsFollowLegs(r) /\ LegsAsAsked(r)
    BY DEF IInv, TypeOK, RequestsSound
  <1>3. \A k \in Keys : View(r, k).reserved = balance[k].reserved
    BY DEF RowsInv, RowInv, View
  <1>4. CASE BeginPostGrn(r)
    <2>1. req[r].pc = "fetched" /\ req' = [req EXCEPT ![r] = [req[r] EXCEPT !.pc = "read"]]
      BY <1>4 DEF BeginPostGrn, Goto, IInv, TypeOK
    <2>2. ~InTx(r) /\ PendingInv(r)'
      BY <2>1, <1>2 DEF InTx, PendingInv, IInv, TypeOK, Request
    <2> QED
      BY <2>1, <2>2, <1>1, RequestStepRows
  <1>5. CASE SumLedger(r)
    <2> DEFINE q == [req[r] EXCEPT !.pc = "reserved", !.onHand = booked[req[r].key]]
    <2>1. req[r].pc = "sum" /\ req' = [req EXCEPT ![r] = q] /\ req'[r] = q
      BY <1>5 DEF SumLedger, IInv, TypeOK
    <2>2. q.pc = "reserved" /\ q.legs = req[r].legs /\ q.key = req[r].key /\ q.rows = req[r].rows
      BY <1>2 DEF Request
    <2> HIDE DEF q
    <2>3. PendingInv(r)' /\ \A k : /\ Writes(r, k) => Writes(r, k)'
                                   /\ MayBeNegative(r, k) => MayBeNegative(r, k)'
      BY <2>1, <2>2 DEF PendingInv, Writes, MayBeNegative
    <2> QED
      BY <2>1, <2>3, <1>1, RequestStepRows
  <1>6. CASE ReadReserved(r)
    <2> DEFINE q == [req[r] EXCEPT !.pc = "write", !.reserved = View(r, req[r].key).reserved]
    <2>1. req[r].pc = "reserved" /\ req' = [req EXCEPT ![r] = q] /\ req'[r] = q
      BY <1>6 DEF ReadReserved, IInv, TypeOK
    <2>2. /\ q.legs = req[r].legs /\ q.key = req[r].key /\ q.rows = req[r].rows
          /\ q.reserved = View(r, req[r].key).reserved
      BY <1>2 DEF Request
    <2>3. req[r].legs = <<>> /\ req[r].key \in Keys
      BY <2>1, <1>2 DEF LegsAsAsked
    <2> HIDE DEF q
    <2>4. PendingInv(r)' /\ \A k : /\ Writes(r, k) => Writes(r, k)'
                                   /\ MayBeNegative(r, k) => MayBeNegative(r, k)'
      BY <2>1, <2>2, <2>3, <1>1, <1>3 DEF PendingInv, Writes, MayBeNegative
    <2> QED
      BY <2>1, <2>4, <1>1, RequestStepRows
  <1>7. CASE ReadBalance(r)
    <2> DEFINE leg == NextLeg(r)
               row == [leg |-> leg, balanceQty |-> NewOnHand(r)]
               delta == [req[r].delta EXCEPT ![leg.key] = @ + leg.qty]
               q == WithRow(r)
    <2>1. /\ req[r].pc = "read" /\ NewOnHand(r) >= 0
          /\ req' = [req EXCEPT ![r] = q] /\ req'[r] = q
      BY <1>7 DEF ReadBalance, IInv, TypeOK
    <2>2. /\ req[r].legs \in Seq(Leg) /\ req[r].rows \in Seq(Entry)
          /\ Len(req[r].rows) < Len(req[r].legs)
      BY <2>1, <1>2 DEF RowsFollowLegs, Request
    <2>3. leg \in Leg /\ leg.key \in Keys
      <3>1. Len(req[r].rows) + 1 \in 1..Len(req[r].legs)
        BY <2>2
      <3>2. leg \in Leg
        BY <2>2, <3>1 DEF NextLeg
      <3> QED
        BY <3>2 DEF Leg
    <2>4. /\ q.legs = req[r].legs /\ q.key = leg.key /\ q.rows = Append(req[r].rows, row)
          /\ q.onHand = NewOnHand(r) /\ q.reserved = View(r, leg.key).reserved
      BY DEF WithRow
    <2>5. row.leg = leg
      OBVIOUS
    <2> HIDE DEF q, row, leg
    <2>6. /\ Len(req[r].rows) + 1 \in DOMAIN q.rows
          /\ q.rows[Len(req[r].rows) + 1] = row
          /\ \A i \in DOMAIN req[r].rows : i \in DOMAIN q.rows /\ q.rows[i] = req[r].rows[i]
      BY <2>2, <2>4
    <2>7. req[r].legs # <<>>
      BY <2>2
    <2>8. \A k : /\ Writes(r, k) => Writes(r, k)'
                 /\ MayBeNegative(r, k) => MayBeNegative(r, k)'
      BY <2>1, <2>4, <2>6, <2>7 DEF Writes, MayBeNegative
    <2>9. PendingInv(r)'
      BY <2>1, <2>3, <2>4, <2>5, <2>6, <1>1, <1>3 DEF PendingInv, Writes
    <2> QED
      BY <2>1, <2>8, <2>9, <1>1, RequestStepRows
  <1> QED
    BY <1>4, <1>5, <1>6, <1>7

\* After its commit a request writes nothing.
LEMMA EmitRows ==
    ASSUME IInv, RowsInv, NEW r \in Requests, EmitGrnPosted(r) \/ DropGrnPosted(r)
    PROVE  RowsInv'
  <1>1. /\ req[r].pc = "emit" /\ UNCHANGED <<balance, dirty, lock>>
        /\ req' = [req EXCEPT ![r] = [req[r] EXCEPT !.pc = "done"]]
    BY DEF EmitGrnPosted, DropGrnPosted, Goto, IInv, TypeOK
  <1>2. ~InTx(r) /\ PendingInv(r)'
    BY <1>1 DEF InTx, PendingInv, IInv, TypeOK, Request
  <1> QED
    BY <1>1, <1>2, RequestStepRows

\* Dropping the writes of r leaves every key it had locked as it was committed.
LEMMA EndingRows ==
    ASSUME IInv, RowsInv, NEW r \in Requests,
           RefuseInsufficient(r) \/ Rollback(r) \/ AbortDeadlock(r)
    PROVE  RowsInv'
  <1>1. PICK label \in {"rejected", "failed"} : Goto(r, label)
    BY DEF RefuseInsufficient, Rollback, AbortDeadlock
  <1>2. DropWrites(r) /\ balance' = balance
    BY DEF RefuseInsufficient, Rollback, AbortDeadlock
  <1>3. req[r].pc # "done"
    BY DEF RefuseInsufficient, Rollback, AbortDeadlock, Deadlocked, WaitsFor, InTx
  <1>4. req' = [req EXCEPT ![r] = [req[r] EXCEPT !.pc = label]]
    BY <1>1 DEF Goto, IInv, TypeOK
  <1>5. req'[r].pc = label /\ \A s \in Requests \ {r} : req'[s] = req[s]
    BY <1>4 DEF IInv, TypeOK, Request
  <1>6. ASSUME NEW k \in Keys PROVE RowInv(k)'
    <2>1. RowInv(k) /\ (Rebuilt(k) => Rebuilt(k)')
      BY <1>3, <1>4, RebuiltStays DEF RowsInv
    <2>2. CASE lock[k] = r
      <3>1. lock'[k] = None /\ dirty'[k] = balance[k] /\ balance'[k] = balance[k]
        BY <2>2, <1>2 DEF DropWrites
      <3> QED
        BY <2>1, <3>1 DEF RowInv, RowShows
    <2>3. CASE lock[k] # r
      <3>1. lock'[k] = lock[k] /\ dirty'[k] = dirty[k] /\ balance'[k] = balance[k]
        BY <2>3, <1>2 DEF DropWrites
      <3>2. lock[k] # None => req'[lock[k]] = req[lock[k]]
        BY <2>3, <1>5 DEF IInv, TypeOK
      <3>3. lock'[k] # None => /\ Writes(lock[k], k) => Writes(lock[k], k)'
                               /\ MayBeNegative(lock[k], k) => MayBeNegative(lock[k], k)'
        BY <3>1, <3>2 DEF Writes, MayBeNegative
      <3> QED
        BY <2>1, <3>1, <3>3 DEF RowInv, RowShows
    <2> QED
      BY <2>2, <2>3
  <1>7. PendingInv(r)'
    BY <1>5 DEF PendingInv
  <1>8. ASSUME NEW s \in Requests \ {r} PROVE PendingInv(s)'
    BY <1>2, <1>5, <1>8 DEF RowsInv, PendingInv, Writes, MayBeNegative
  <1> QED
    BY <1>6, <1>7, <1>8 DEF RowsInv

\* Either arm of the upsert shows what can be promised and keeps reserved.
LEMMA UpsertedShows ==
    ASSUME NEW row \in Row, RowShows(row), NEW onHand \in Int
    PROVE  /\ RowShows(Upserted(row, onHand, row.reserved))
           /\ Upserted(row, onHand, row.reserved).reserved = row.reserved
           /\ Upserted(row, onHand, row.reserved).onHand = onHand
  <1>1. CASE row.present
    BY <1>1 DEF Upserted, Row, RowShows
  <1>2. CASE ~row.present
    <2>1. Upserted(row, onHand, row.reserved) =
            [present |-> TRUE, onHand |-> onHand, reserved |-> 0,
             available |-> AtLeastZero(onHand), allocated |-> 0, onOrder |-> 0]
      BY <1>2 DEF Upserted, Absent
    <2>2. onHand - 0 = onHand /\ row.reserved = 0
      BY <1>2 DEF RowShows
    <2> QED
      BY <2>1, <2>2 DEF RowShows
  <1> QED
    BY <1>1, <1>2 DEF Row

LEMMA UpsertRows ==
    ASSUME IInv, RowsInv, NEW r \in Requests, UpsertBalance(r)
    PROVE  RowsInv'
  <1> DEFINE k == req[r].key
             label == IF Len(req[r].rows) < Len(req[r].legs) THEN "read" ELSE "commit"
             q == [req[r] EXCEPT !.pc = label]
             row == Upserted(View(r, k), req[r].onHand, req[r].reserved)
  <1>1. /\ req[r].pc = "write" /\ lock[k] \in {r, None}
        /\ lock' = [lock EXCEPT ![k] = r]
        /\ dirty' = [dirty EXCEPT ![k] = row]
        /\ req' = [req EXCEPT ![r] = q]
        /\ balance' = balance
    BY DEF UpsertBalance, Goto, IInv, TypeOK
  <1>2. /\ req[r] \in Request /\ RowsFollowLegs(r) /\ LegsAsAsked(r)
        /\ PendingInv(r)
    BY DEF IInv, TypeOK, RequestsSound, RowsInv
  <1>3. k \in Keys /\ label \in {"read", "commit"}
    BY <1>1, <1>2 DEF LegsAsAsked
  <1>4. /\ q.pc = label /\ q.rows = req[r].rows /\ q.legs = req[r].legs
        /\ q.key = req[r].key /\ q.onHand = req[r].onHand
    BY <1>2 DEF Request
  <1>5. req'[r] = q /\ \A s \in Requests \ {r} : req'[s] = req[s]
    BY <1>1 DEF IInv, TypeOK
  <1>6. /\ RowShows(row) /\ row.reserved = balance[k].reserved /\ row.onHand = req[r].onHand
    <2>1. View(r, k) \in Row /\ RowShows(View(r, k)) /\ View(r, k).reserved = balance[k].reserved
      BY <1>3 DEF RowsInv, RowInv, View, IInv, TypeOK
    <2>2. req[r].reserved = View(r, k).reserved /\ req[r].onHand \in Int
      BY <1>1, <1>2, <2>1 DEF PendingInv, Request
    <2> QED
      BY <2>1, <2>2, UpsertedShows
  <1>7. Writes(r, k) /\ (req[r].onHand >= 0 \/ MayBeNegative(r, k))
    BY <1>1, <1>2 DEF PendingInv
  <1> HIDE DEF q, row, label, k
  <1>8. /\ req'[r].rows = req[r].rows /\ req'[r].legs = req[r].legs
        /\ req'[r].key = req[r].key
    BY <1>4, <1>5
  <1>9. ASSUME NEW j \in Keys PROVE RowInv(j)'
    <2>1. RowInv(j) /\ (Rebuilt(j) => Rebuilt(j)')
      BY <1>1, RebuiltStays DEF RowsInv
    <2>2. CASE j = k
      <3>1. lock'[j] = r /\ dirty'[j] = row /\ balance'[j] = balance[j]
        BY <2>2, <1>1, <1>3 DEF IInv, TypeOK
      <3>2. Writes(lock[j], j)' /\ (row.onHand >= 0 \/ MayBeNegative(lock[j], j)')
        BY <3>1, <2>2, <1>6, <1>7, <1>8 DEF Writes, MayBeNegative
      <3>3. lock'[j] # None
        BY <3>1, InventoryAssumption
      <3> QED
        BY <2>1, <2>2, <3>1, <3>2, <3>3, <1>6 DEF RowInv, RowShows
    <2>3. CASE j # k
      <3>1. lock'[j] = lock[j] /\ dirty'[j] = dirty[j] /\ balance'[j] = balance[j]
        BY <2>3, <1>1, <1>3 DEF IInv, TypeOK
      <3>2. lock[j] # None => /\ Writes(lock[j], j) => Writes(lock[j], j)'
                              /\ MayBeNegative(lock[j], j) => MayBeNegative(lock[j], j)'
        <4>1. CASE lock[j] = r
          BY <4>1, <3>1, <1>8 DEF Writes, MayBeNegative
        <4>2. CASE lock[j] # r
          <5>1. lock[j] # None => req'[lock[j]] = req[lock[j]]
            BY <4>2, <1>5 DEF IInv, TypeOK
          <5> QED
            BY <5>1, <3>1 DEF Writes, MayBeNegative
        <4> QED
          BY <4>1, <4>2
      <3> QED
        BY <2>1, <3>1, <3>2 DEF RowInv, RowShows
    <2> QED
      BY <2>2, <2>3
  <1>10. PendingInv(r)'
    BY <1>3, <1>4, <1>5 DEF PendingInv
  <1>11. ASSUME NEW s \in Requests \ {r} PROVE PendingInv(s)'
    BY <1>1, <1>5, <1>11 DEF RowsInv, PendingInv, Writes, MayBeNegative
  <1> QED
    BY <1>9, <1>10, <1>11 DEF RowsInv

\* A commit publishes the rows of the keys r wrote; a negative one is that of a
\* rebuild, which is finished with this step.
LEMMA CommitRows ==
    ASSUME IInv, RowsInv, NEW r \in Requests, Commit(r)
    PROVE  RowsInv'
  <1> DEFINE label == IF req[r].grn = None THEN "done" ELSE "emit"
             q == [req[r] EXCEPT !.pc = label]
  <1>1. /\ req[r].pc = "commit"
        /\ balance' = [k \in Keys |-> IF lock[k] = r THEN dirty[k] ELSE balance[k]]
        /\ lock' = [k \in Keys |-> IF lock[k] = r THEN None ELSE lock[k]]
        /\ req' = [req EXCEPT ![r] = q]
        /\ dirty' = dirty
    BY DEF Commit, Goto, IInv, TypeOK
  <1>2. req[r] \in Request /\ LegsAsAsked(r)
    BY DEF IInv, TypeOK, RequestsSound
  <1>3. q.pc = label /\ q.legs = req[r].legs /\ q.key = req[r].key
    BY <1>2 DEF Request
  <1>4. req[r].legs = <<>> => label = "done"
    <2>1. ASSUME req[r].grn # None PROVE req[r].legs # <<>>
      BY <2>1, <1>1, <1>2 DEF LegsAsAsked
    <2> QED
      BY <2>1
  <1> HIDE DEF q, label
  <1>5. req'[r] = q /\ \A s \in Requests \ {r} : req'[s] = req[s]
    BY <1>1 DEF IInv, TypeOK
  <1>6. ASSUME NEW k \in Keys PROVE RowInv(k)'
    <2>1. RowInv(k) /\ (Rebuilt(k) => Rebuilt(k)')
      BY <1>1, RebuiltStays DEF RowsInv
    <2>2. CASE lock[k] = r
      <3>1. lock'[k] = None /\ dirty'[k] = dirty[k] /\ balance'[k] = dirty[k] /\ lock[k] # None
        BY <2>2, <1>1, InventoryAssumption
      <3>2. MayBeNegative(r, k) => Rebuilt(k)'
        BY <1>3, <1>4, <1>5 DEF MayBeNegative, Rebuilt
      <3> QED
        BY <2>1, <2>2, <3>1, <3>2 DEF RowInv, RowShows
    <2>3. CASE lock[k] # r
      <3>1. lock'[k] = lock[k] /\ dirty'[k] = dirty[k] /\ balance'[k] = balance[k]
        BY <2>3, <1>1
      <3>2. lock[k] # None => req'[lock[k]] = req[lock[k]]
        BY <2>3, <1>5 DEF IInv, TypeOK
      <3>3. lock'[k] # None => /\ Writes(lock[k], k) => Writes(lock[k], k)'
                               /\ MayBeNegative(lock[k], k) => MayBeNegative(lock[k], k)'
        BY <3>1, <3>2 DEF Writes, MayBeNegative
      <3> QED
        BY <2>1, <3>1, <3>3 DEF RowInv, RowShows
    <2> QED
      BY <2>2, <2>3
  <1>7. PendingInv(r)'
    <2>1. label # "write"
      BY DEF label
    <2> QED
      BY <2>1, <1>3, <1>5 DEF PendingInv
  <1>8. ASSUME NEW s \in Requests \ {r} PROVE PendingInv(s)'
    <2>1. PendingInv(s) /\ req'[s] = req[s]
      BY <1>5 DEF RowsInv
    <2>2. req[s].pc = "write" => req[s].key \in Keys
      BY DEF IInv, RequestsSound, LegsAsAsked
    <2>3. \A k \in Keys : balance'[k].reserved = balance[k].reserved
      BY <1>1 DEF RowsInv, RowInv
    <2> QED
      BY <2>1, <2>2, <2>3 DEF PendingInv, Writes, MayBeNegative
  <1> QED
    BY <1>6, <1>7, <1>8 DEF RowsInv

LEMMA StepKeepsRows == IInv /\ RowsInv /\ [Next]_vars => RowsInv'
  <1> SUFFICES ASSUME IInv, RowsInv, [Next]_vars PROVE RowsInv'
    OBVIOUS
  <1>1. CASE UNCHANGED vars
    BY <1>1 DEF vars, RowsInv, RowInv, RowShows, PendingInv, Writes, MayBeNegative, Rebuilt
  <1>2. ASSUME NEW r \in Requests, Arrive(r) \/ Work(r) \/ Rollback(r)
        PROVE  RowsInv'
    BY <1>2, ArriveRows, ReadingRows, EndingRows, UpsertRows, CommitRows, EmitRows DEF Work
  <1> QED
    BY <1>1, <1>2 DEF Next, Finished

THEOREM RowsAreSound == Spec => [](IInv /\ RowsInv)
  <1>1. Init => IInv /\ RowsInv
    BY InitType, RowsInit
  <1>2. IInv /\ RowsInv /\ [Next]_vars => (IInv /\ RowsInv)'
    BY StepKeeps, StepKeepsRows
  <1> QED
    BY <1>1, <1>2, PTL DEF Spec

\* The balance shown to users is never negative but after a rebuild, and what
\* can be promised is always what is on hand less what is reserved, however the
\* transactions that write it interleave, wait and fail.
THEOREM BalanceShownIsSane == Spec => []BalanceSane
  <1>1. RowsInv => BalanceSane
    BY DEF RowsInv, RowInv, RowShows, BalanceSane
  <1> QED
    BY <1>1, RowsAreSound, PTL

\* Only a commit changes a committed balance.
LEMMA OnlyCommitMoves ==
    ASSUME NEW r \in Requests, Arrive(r) \/ Work(r) \/ Rollback(r), ~Commit(r)
    PROVE  balance' = balance
  BY DEF Arrive, BeginMovement, FetchGrn, BeginRebuild, Work, BeginPostGrn, ReadBalance,
         RefuseInsufficient, SumLedger, ReadReserved, UpsertBalance, AbortDeadlock,
         EmitGrnPosted, DropGrnPosted, Rollback

\* The on-hand quantity of a key moves only with a ledger row of that key or
\* with the rebuild of that key: no upsert ever reaches a row its transaction
\* has no ledger row for.
THEOREM StockMovesOnlyWithLedger == Spec => StockMovesWithLedger
  <1> DEFINE Moves ==
        \A k \in Keys : balance'[k].onHand # balance[k].onHand =>
          \E r \in Requests :
            /\ req[r].pc = "commit" /\ req'[r].pc # "commit"
            /\ \/ \E i \in DOMAIN ledger'[r] : ledger'[r][i].leg.key = k /\ ledger[r] = <<>>
               \/ req[r].legs = <<>> /\ req[r].key = k
  <1>1. ASSUME IInv, RowsInv, [Next]_vars PROVE [Moves]_vars
    <2>1. CASE UNCHANGED vars
      BY <2>1
    <2>2. ASSUME NEW r \in Requests, Arrive(r) \/ Work(r) \/ Rollback(r), ~Commit(r)
          PROVE  Moves
      BY <2>2, OnlyCommitMoves
    <2>3. ASSUME NEW r \in Requests, Commit(r), NEW k \in Keys,
                 balance'[k].onHand # balance[k].onHand
          PROVE  /\ req[r].pc = "commit" /\ req'[r].pc # "commit"
                 /\ \/ \E i \in DOMAIN ledger'[r] :
                          ledger'[r][i].leg.key = k /\ ledger[r] = <<>>
                    \/ req[r].legs = <<>> /\ req[r].key = k
      <3>1. lock[k] = r /\ req[r].pc = "commit"
        BY <2>3 DEF Commit
      <3>2. Writes(r, k)
        BY <3>1, <1>1, InventoryAssumption DEF RowsInv, RowInv
      <3>3. ledger'[r] = req[r].rows
        BY <2>3, <1>1 DEF Commit, IInv, TypeOK
      <3>4. ledger[r] = <<>>
        BY <3>1, <1>1 DEF IInv, RequestsSound, RowsFollowLegs
      <3>5. req'[r].pc \in {"done", "emit"}
        BY <2>3, <1>1 DEF Commit, Goto, IInv, TypeOK, Request
      <3> QED
        BY <3>1, <3>2, <3>3, <3>4, <3>5 DEF Writes
    <2> QED
      BY <1>1, <2>1, <2>2, <2>3 DEF Next, Finished
  <1> QED
    BY <1>1, RowsAreSound, PTL DEF Spec, StockMovesWithLedger

-----------------------------------------------------------------------------
(* Notes: what POSTED means.                                               *)

\* The legs of a note, in whatever order its lines come, are one leg for each
\* of its postable lines and nothing else.
LEMMA GrnLegsCover ==
    ASSUME NEW g \in Grns, NEW legs \in GrnLegs(g)
    PROVE  {legs[i] : i \in DOMAIN legs} = {GrnLeg(g, line) : line \in PostableLines(g)}
  <1> DEFINE lines == PostableLines(g)
             n == Cardinality(lines)
  <1>1. IsFiniteSet(lines) /\ n \in Nat
    BY FS_Subset, FS_CardinalityType, StockAssumption DEF PostableLines
  <1>2. PICK order \in [1..n -> lines] :
           /\ \A i, j \in 1..n : i # j => order[i] # order[j]
           /\ legs = [i \in DOMAIN order |-> GrnLeg(g, order[i])]
    BY DEF GrnLegs, SetToSeqs
  <1>3. order \in Injection(1..n, lines)
    BY <1>2 DEF Injection, IsInjective
  <1>4. IsFiniteSet(1..n) /\ Cardinality(1..n) = n
    BY <1>1, FS_Interval
  <1>5. order \in Surjection(1..n, lines)
    BY <1>1, <1>3, <1>4, FS_Injection
  <1>6. \A line \in lines : \E i \in 1..n : order[i] = line
    BY <1>5 DEF Surjection
  <1> QED
    BY <1>2, <1>6

NotePosted(g) == grnStatus[g] = "POSTED"

NoteBooked(g) == \E r \in Requests : req[r].grn = g /\ ledger[r] # <<>>

NotesInv ==
    /\ \A g \in Grns : NotePosted(g) <=> NoteBooked(g)
    /\ \A r \in Requests : req[r].pc = "emit" => req[r].grn # None
    /\ \A r \in published : req[r].pc = "done" /\ req[r].grn # None

LEMMA NotesInit == Init => NotesInv
  BY DEF Init, NotesInv, NotePosted, NoteBooked, Idle

\* A step that neither books nor posts, by a request that is not done.
LEMMA QuietNotes ==
    ASSUME IInv, NotesInv, NEW r \in Requests, req[r].pc # "done", NEW q,
           req' = [req EXCEPT ![r] = q], UNCHANGED <<ledger, grnStatus, published>>,
           ledger[r] # <<>> => q.grn = req[r].grn, q.pc # "emit"
    PROVE  NotesInv'
  <1>1. req'[r] = q /\ \A s \in Requests \ {r} : req'[s] = req[s]
    BY DEF IInv, TypeOK
  <1>2. ASSUME NEW g \in Grns PROVE (NotePosted(g) <=> NoteBooked(g))'
    BY <1>1 DEF NotesInv, NotePosted, NoteBooked
  <1> QED
    BY <1>1, <1>2 DEF NotesInv

LEMMA StepKeepsNotes == IInv /\ NotesInv /\ [Next]_vars => NotesInv'
  <1> SUFFICES ASSUME IInv, NotesInv, [Next]_vars PROVE NotesInv'
    OBVIOUS
  <1>1. CASE UNCHANGED vars
    BY <1>1 DEF vars, NotesInv, NotePosted, NoteBooked
  <1>2. ASSUME NEW r \in Requests, Arrive(r) PROVE NotesInv'
    <2>1. req[r].pc = "idle" /\ UNCHANGED <<ledger, grnStatus, published>>
      BY <1>2 DEF Arrive, BeginMovement, FetchGrn, BeginRebuild
    <2>2. ledger[r] = <<>>
      BY <2>1 DEF IInv, RequestsSound, RowsFollowLegs
    <2>3. PICK q : req' = [req EXCEPT ![r] = q] /\ q.pc # "emit"
      BY <1>2, ArriveTarget
    <2> QED
      BY <2>1, <2>2, <2>3, QuietNotes
  <1>3. ASSUME NEW r \in Requests,
               BeginPostGrn(r) \/ ReadBalance(r) \/ RefuseInsufficient(r) \/ SumLedger(r)
                 \/ ReadReserved(r) \/ UpsertBalance(r) \/ AbortDeadlock(r) \/ Rollback(r)
        PROVE  NotesInv'
    <2>1. UNCHANGED <<ledger, grnStatus, published>>
      BY <1>3 DEF BeginPostGrn, ReadBalance, RefuseInsufficient, SumLedger, ReadReserved,
                  UpsertBalance, AbortDeadlock, Rollback
    <2>2. req[r].pc \in {"fetched", "read", "sum", "reserved", "write", "commit"}
      BY <1>3 DEF BeginPostGrn, ReadBalance, RefuseInsufficient, SumLedger, ReadReserved,
                  UpsertBalance, AbortDeadlock, Rollback, InTx, Deadlocked, WaitsFor
    <2>3. ledger[r] = <<>>
      BY <2>2 DEF IInv, RequestsSound, RowsFollowLegs
    <2>4. PICK q : req' = [req EXCEPT ![r] = q] /\ q.pc # "emit"
      <3>1. req \in [Requests -> Request]
        BY DEF IInv, TypeOK
      <3>2. CASE ReadBalance(r)
        <4>1. req' = [req EXCEPT ![r] = WithRow(r)] /\ WithRow(r).pc = "write"
          BY <3>2 DEF ReadBalance, WithRow
        <4> QED
          BY <4>1
      <3>3. CASE SumLedger(r)
        <4> DEFINE q == [req[r] EXCEPT !.pc = "reserved", !.onHand = booked[req[r].key]]
        <4>1. req' = [req EXCEPT ![r] = q] /\ q.pc = "reserved"
          BY <3>1, <3>3 DEF SumLedger, Request
        <4> QED
          BY <4>1
      <3>4. CASE ReadReserved(r)
        <4> DEFINE q == [req[r] EXCEPT !.pc = "write",
                                       !.reserved = View(r, req[r].key).reserved]
        <4>1. req' = [req EXCEPT ![r] = q] /\ q.pc = "write"
          BY <3>1, <3>4 DEF ReadReserved, Request
        <4> QED
          BY <4>1
      <3>5. ASSUME ~ReadBalance(r), ~SumLedger(r), ~ReadReserved(r)
            PROVE  \E q : req' = [req EXCEPT ![r] = q] /\ q.pc # "emit"
        <4>1. PICK label \in {"read", "commit", "rejected", "failed"} : Goto(r, label)
          BY <1>3, <3>5 DEF BeginPostGrn, RefuseInsufficient, UpsertBalance, AbortDeadlock,
                            Rollback
        <4>2. /\ req' = [req EXCEPT ![r] = [req[r] EXCEPT !.pc = label]]
              /\ [req[r] EXCEPT !.pc = label].pc = label
          BY <4>1, <3>1 DEF Goto, Request
        <4> QED
          BY <4>2
      <3> QED
        BY <3>2, <3>3, <3>4, <3>5
    <2> QED
      BY <2>1, <2>2, <2>3, <2>4, QuietNotes
  <1>4. ASSUME NEW r \in Requests, EmitGrnPosted(r) \/ DropGrnPosted(r) PROVE NotesInv'
    <2>1. /\ req[r].pc = "emit" /\ UNCHANGED <<ledger, grnStatus>>
          /\ published' \subseteq published \cup {r}
          /\ req' = [req EXCEPT ![r] = [req[r] EXCEPT !.pc = "done"]]
      BY <1>4 DEF EmitGrnPosted, DropGrnPosted, Goto, IInv, TypeOK
    <2>2. /\ req'[r].pc = "done" /\ req'[r].grn = req[r].grn
          /\ \A s \in Requests \ {r} : req'[s] = req[s]
      BY <2>1 DEF IInv, TypeOK, Request
    <2>3. ASSUME NEW g \in Grns PROVE (NotePosted(g) <=> NoteBooked(g))'
      BY <2>1, <2>2 DEF NotesInv, NotePosted, NoteBooked
    <2>4. published' \subseteq Requests
      BY <2>1 DEF IInv, TypeOK
    <2> QED
      BY <2>1, <2>2, <2>3, <2>4 DEF NotesInv
  <1>5. ASSUME NEW r \in Requests, Commit(r) PROVE NotesInv'
    <2> DEFINE label == IF req[r].grn = None THEN "done" ELSE "emit"
    <2>1. /\ req[r].pc = "commit" /\ published' = published
          /\ ledger' = [ledger EXCEPT ![r] = req[r].rows]
          /\ grnStatus' = [g \in Grns |-> IF g = req[r].grn THEN "POSTED" ELSE grnStatus[g]]
          /\ req' = [req EXCEPT ![r] = [req[r] EXCEPT !.pc = label]]
      BY <1>5 DEF Commit, Goto, IInv, TypeOK
    <2>2. /\ req'[r].pc = label /\ req'[r].grn = req[r].grn
          /\ \A s \in Requests \ {r} : req'[s] = req[s]
      BY <2>1 DEF IInv, TypeOK, Request
    <2>3. /\ ledger'[r] = req[r].rows
          /\ \A s \in Requests \ {r} : ledger'[s] = ledger[s]
      BY <2>1 DEF IInv, TypeOK
    <2>4. ledger[r] = <<>>
      BY <2>1 DEF IInv, RequestsSound, RowsFollowLegs
    <2>5. req[r].grn # None => req[r].rows # <<>>
      <3>1. RowsFollowLegs(r) /\ LegsAsAsked(r) /\ req[r] \in Request
        BY DEF IInv, TypeOK, RequestsSound
      <3> QED
        BY <3>1, <2>1 DEF RowsFollowLegs, LegsAsAsked, Request
    <2>6. ASSUME NEW g \in Grns PROVE (NotePosted(g) <=> NoteBooked(g))'
      <3>1. CASE g = req[r].grn
        <4>1. NotePosted(g)'
          BY <2>1, <3>1 DEF NotePosted
        <4>2. ledger'[r] # <<>> /\ req'[r].grn = g
          BY <2>2, <2>3, <2>5, <3>1, StockAssumption
        <4> QED
          BY <4>1, <4>2 DEF NoteBooked
      <3>2. CASE g # req[r].grn
        BY <2>1, <2>2, <2>3, <2>4, <3>2 DEF NotesInv, NotePosted, NoteBooked
      <3> QED
        BY <3>1, <3>2
    <2>7. r \notin published
      BY <2>1 DEF NotesInv
    <2>8. published' \subseteq Requests \ {r}
      BY <2>1, <2>7 DEF IInv, TypeOK
    <2>9. \A s \in published' : req'[s].pc = "done" /\ req'[s].grn # None
      BY <2>1, <2>2, <2>8 DEF NotesInv
    <2>10. \A s \in Requests : req'[s].pc = "emit" => req'[s].grn # None
      BY <2>2 DEF NotesInv
    <2> QED
      BY <2>6, <2>9, <2>10 DEF NotesInv
  <1> QED
    BY <1>1, <1>2, <1>3, <1>4, <1>5 DEF Next, Finished, Work

\* A note is POSTED exactly when its lines are in the ledger - all of them and
\* nothing else, in the name of the note - and only such a note is announced
\* on Kafka, whoever posts it concurrently and whatever fails in between.
THEOREM PostedMeansBooked == Spec => []GrnPostedIffBooked
  <1>1. Spec => [](IInv /\ NotesInv)
    <2>1. Init => IInv /\ NotesInv
      BY InitType, NotesInit
    <2>2. IInv /\ NotesInv /\ [Next]_vars => (IInv /\ NotesInv)'
      BY StepKeeps, StepKeepsNotes
    <2> QED
      BY <2>1, <2>2, PTL DEF Spec
  <1>2. ASSUME IInv, NotesInv PROVE GrnPostedIffBooked
    <2>1. ASSUME NEW r \in Requests, NEW i \in DOMAIN ledger[r],
                 ledger[r][i].leg.ref # None
          PROVE  {e.leg : e \in ToSet(ledger[r])} =
                   {GrnLeg(ledger[r][i].leg.ref, line) : line \in PostableLines(ledger[r][i].leg.ref)}
      <3> DEFINE legs == req[r].legs
                 rows == req[r].rows
      <3>1. req[r] \in Request /\ RowsFollowLegs(r) /\ LegsAsAsked(r)
        BY <1>2 DEF IInv, TypeOK, RequestsSound
      <3>2. legs \in Seq(Leg) /\ rows \in Seq(Entry)
        BY <3>1 DEF Request
      <3>3. ledger[r] = rows /\ req[r].pc \in {"emit", "done"}
        BY <2>1, <3>1 DEF RowsFollowLegs
      <3>4. DOMAIN rows = DOMAIN legs /\ \A j \in DOMAIN legs : rows[j].leg = legs[j]
        BY <3>1, <3>2, <3>3 DEF RowsFollowLegs
      <3>5. i \in DOMAIN legs /\ legs[i].ref = ledger[r][i].leg.ref /\ legs # <<>>
        BY <2>1, <3>3, <3>4
      <3>6. req[r].grn # None
        <4>1. ASSUME req[r].grn = None PROVE FALSE
          <5>1. PICK kind \in Kinds : legs \in RequestLegs(kind)
            BY <4>1, <3>1, <3>5 DEF LegsAsAsked
          <5> QED
            BY <5>1, <3>5, <2>1, RequestLegsType
        <4> QED
          BY <4>1
      <3>7. req[r].grn \in Grns /\ legs \in GrnLegs(req[r].grn)
        BY <3>1, <3>3, <3>6 DEF LegsAsAsked, Request
      <3>8. legs[i].ref = req[r].grn
        BY <3>5, <3>7, GrnLegsType
      <3>9. {e.leg : e \in ToSet(ledger[r])} = {legs[j] : j \in DOMAIN legs}
        BY <3>3, <3>4 DEF ToSet
      <3>10. {legs[j] : j \in DOMAIN legs} =
                {GrnLeg(req[r].grn, line) : line \in PostableLines(req[r].grn)}
        BY <3>7, GrnLegsCover
      <3>11. ledger[r][i].leg.ref = req[r].grn
        BY <3>5, <3>8
      <3> QED
        BY <3>9, <3>10, <3>11
    <2>2. ASSUME NEW r \in published
          PROVE  grnStatus[req[r].grn] = "POSTED" /\ ledger[r] # <<>>
      <3>1. r \in Requests /\ req[r].pc = "done" /\ req[r].grn \in Grns
        BY <1>2 DEF IInv, TypeOK, NotesInv, Request
      <3>2. RowsFollowLegs(r) /\ LegsAsAsked(r) /\ req[r] \in Request
        BY <1>2, <3>1 DEF IInv, TypeOK, RequestsSound
      <3>3. req[r].grn # None
        BY <3>1, StockAssumption
      <3>4. ledger[r] # <<>>
        BY <3>1, <3>2, <3>3 DEF RowsFollowLegs, LegsAsAsked, Request
      <3> QED
        BY <1>2, <3>1, <3>4 DEF NotesInv, NotePosted, NoteBooked
    <2> QED
      BY <1>2, <2>1, <2>2 DEF GrnPostedIffBooked, NotesInv, NotePosted, NoteBooked
  <1> QED
    BY <1>1, <1>2, PTL

-----------------------------------------------------------------------------
(* When transactions never overlap (PoolSize = 1) the cache is the ledger   *)
(* and no key is over-issued.  Both are false as soon as two transactions  *)
(* overlap: this is the margin between what the code promises and what     *)
(* READ COMMITTED gives it.                                                *)

\* What the open transaction of r has seen and computed so far: its view of
\* every key is the booked stock plus its own rows, except for the key whose
\* upsert is pending, whose value it carries.
ViewIsBooked(r, k) ==
    View(r, k).onHand = booked[k] + req[r].delta[k] /\ View(r, k).onHand >= 0

PendingIsBooked(r) ==
    req[r].onHand = booked[req[r].key] + req[r].delta[req[r].key] /\ req[r].onHand >= 0

NothingAdded(r) == \A k \in Keys : req[r].delta[k] = 0

TxKnowsStock(r) ==
    /\ req[r].pc \in {"idle", "fetched", "sum", "reserved"} => NothingAdded(r)
    /\ req[r].pc \in {"read", "sum", "reserved", "commit"} => \A k \in Keys : ViewIsBooked(r, k)
    /\ req[r].pc = "write" => \A k \in Keys \ {req[r].key} : ViewIsBooked(r, k)
    /\ req[r].pc \in {"reserved", "write"} => PendingIsBooked(r)

OneTransaction == \A r, s \in Requests : InTx(r) /\ InTx(s) => r = s

CacheIsBooked == \A k \in Keys : balance[k].onHand = booked[k] /\ booked[k] >= 0

SerialInv ==
    /\ OneTransaction
    /\ CacheIsBooked
    /\ \A r \in Requests : TxKnowsStock(r)

-----------------------------------------------------------------------------
\* A free connection among one means that no transaction is open.
LEMMA FreeMeansNone ==
    ASSUME PoolSize = 1, PoolFree
    PROVE  \A r \in Requests : ~InTx(r)
  <1> DEFINE S == {r \in Requests : InTx(r)}
  <1>1. IsFiniteSet(S)
    BY FS_Subset, InventoryAssumption
  <1>2. Cardinality(S) \in Nat /\ Cardinality(S) < 1
    BY <1>1, FS_CardinalityType DEF PoolFree
  <1>3. S = {}
    BY <1>1, <1>2, FS_EmptySet
  <1> QED
    BY <1>3

LEMMA SerialInit == Init => SerialInv
  <1> SUFFICES ASSUME Init PROVE SerialInv
    OBVIOUS
  <1>1. \A r \in Requests : req[r] = Idle
    BY DEF Init
  <1>2. \A r \in Requests : ~InTx(r) /\ TxKnowsStock(r)
    BY <1>1 DEF Idle, InTx, TxKnowsStock, NothingAdded
  <1>3. CacheIsBooked
    <2>1. Absent.onHand = 0 /\ ~Absent.present
      BY DEF Absent
    <2>2. \A n \in Nat : Upserted(Absent, n, 0).onHand = n
      BY <2>1, UpsertedType DEF Upserted, Absent
    <2>3. \A k \in Keys : Opening[k] \in Nat /\ booked[k] = Opening[k]
      BY InventoryAssumption DEF Init
    <2>4. \A k \in Keys : balance[k] = IF Opening[k] = 0 THEN Absent
                                       ELSE Upserted(Absent, Opening[k], 0)
      BY DEF Init
    <2> QED
      BY <2>1, <2>2, <2>3, <2>4 DEF CacheIsBooked
  <1> QED
    BY <1>2, <1>3 DEF SerialInv, OneTransaction

\* A step that keeps the stock, the cache and the versions of a request keeps
\* what this request knows.
LEMMA SameView ==
    ASSUME NEW r \in Requests, NEW k \in Keys,
           balance'[k] = balance[k], dirty'[k] = dirty[k], lock'[k] = lock[k]
    PROVE  View(r, k)' = View(r, k)
  BY DEF View

LEMMA OtherKnows ==
    ASSUME NEW r \in Requests, TxKnowsStock(r), req'[r] = req[r],
           booked' = booked, UNCHANGED <<balance, dirty, lock>>
    PROVE  TxKnowsStock(r)'
  BY DEF TxKnowsStock, NothingAdded, ViewIsBooked, PendingIsBooked, View

LEMMA OutsideKnows ==
    ASSUME NEW r \in Requests, TxKnowsStock(r), ~InTx(r), req'[r] = req[r]
    PROVE  TxKnowsStock(r)'
  BY DEF TxKnowsStock, NothingAdded, InTx

-----------------------------------------------------------------------------
\* Any step of r that ends its transaction, or comes after it, without
\* changing the cache or the stock.
LEMMA EndKeeps ==
    ASSUME IInv, SerialInv, NEW r \in Requests,
           InTx(r) \/ UNCHANGED <<dirty, lock>>,
           NEW label \in {"rejected", "failed", "done"}, Goto(r, label),
           UNCHANGED <<balance, booked>>
    PROVE  SerialInv'
  <1>1. req' = [req EXCEPT ![r].pc = label]
    BY DEF Goto
  <1>2. req'[r].pc = label /\ \A s \in Requests \ {r} : req'[s] = req[s]
    BY <1>1 DEF IInv, TypeOK, Request
  <1>3. OneTransaction'
    BY <1>2 DEF SerialInv, OneTransaction, InTx
  <1>4. TxKnowsStock(r)'
    BY <1>2 DEF TxKnowsStock
  <1>5. ASSUME NEW s \in Requests \ {r} PROVE TxKnowsStock(s)'
    <2>1. CASE InTx(r)
      BY <2>1, <1>2, OutsideKnows DEF SerialInv, OneTransaction
    <2>2. CASE UNCHANGED <<dirty, lock>>
      BY <2>2, <1>2, OtherKnows DEF SerialInv
    <2> QED
      BY <2>1, <2>2
  <1>6. CacheIsBooked'
    BY DEF SerialInv, CacheIsBooked
  <1> QED
    BY <1>3, <1>4, <1>5, <1>6 DEF SerialInv

\* A transaction opens on a cache that is the ledger, with nothing added.
LEMMA OpenKeeps ==
    ASSUME IInv, SerialInv, PoolSize = 1, NEW r \in Requests, PoolFree,
           NEW q \in Request, req' = [req EXCEPT ![r] = q],
           q.pc \in {"read", "sum"}, \A k \in Keys : q.delta[k] = 0,
           UNCHANGED <<balance, dirty, lock, booked>>
    PROVE  SerialInv'
  <1>1. \A s \in Requests : ~InTx(s)
    BY FreeMeansNone
  <1>2. req'[r] = q /\ \A s \in Requests \ {r} : req'[s] = req[s]
    BY DEF IInv, TypeOK
  <1>3. OneTransaction'
    BY <1>1, <1>2 DEF OneTransaction, InTx
  <1>4. \A k \in Keys : lock[k] = None
    BY <1>1 DEF IInv, TypeOK, LocksAreHeld
  <1>5. \A k \in Keys : View(r, k)' = balance[k]
    BY <1>4, InventoryAssumption DEF View
  <1>6. \A k \in Keys : ViewIsBooked(r, k)'
    <2> TAKE k \in Keys
    <2>1. View(r, k)' = balance[k] /\ req'[r].delta[k] = 0 /\ booked'[k] = booked[k]
      BY <1>2, <1>5
    <2>2. booked[k] \in Int /\ balance[k].onHand = booked[k] /\ booked[k] >= 0
      BY DEF SerialInv, CacheIsBooked, IInv, TypeOK
    <2> QED
      BY <2>1, <2>2 DEF ViewIsBooked
  <1>7. TxKnowsStock(r)'
    BY <1>2, <1>6 DEF TxKnowsStock, NothingAdded
  <1>8. \A s \in Requests \ {r} : TxKnowsStock(s)'
    BY <1>1, <1>2, OutsideKnows DEF SerialInv
  <1>9. CacheIsBooked'
    BY DEF SerialInv, CacheIsBooked
  <1> QED
    BY <1>3, <1>7, <1>8, <1>9 DEF SerialInv

LEMMA ArriveSerial ==
    ASSUME IInv, SerialInv, PoolSize = 1, NEW r \in Requests, Arrive(r) \/ BeginPostGrn(r)
    PROVE  SerialInv'
  <1>1. req[r] \in Request /\ LegsAsAsked(r) /\ TxKnowsStock(r)
    BY DEF IInv, TypeOK, RequestsSound, SerialInv
  <1>0. Idle \in Request /\ \A k \in Keys : Idle.delta[k] = 0
    BY DEF Idle, Request, PCs
  <1>2. CASE BeginMovement(r)
    <2>1. PICK kind \in Kinds : \E legs \in RequestLegs(kind) :
             req' = [req EXCEPT ![r] = [Idle EXCEPT !.pc = "read", !.legs = legs]]
      BY <1>2 DEF BeginMovement
    <2>2. PICK legs \in RequestLegs(kind) :
             req' = [req EXCEPT ![r] = [Idle EXCEPT !.pc = "read", !.legs = legs]]
      BY <2>1
    <2> DEFINE q == [Idle EXCEPT !.pc = "read", !.legs = legs]
    <2>3. q \in Request /\ q.pc = "read" /\ \A k \in Keys : q.delta[k] = 0
      BY <1>0, RequestLegsType DEF Request, PCs
    <2> HIDE DEF q
    <2>4. req' = [req EXCEPT ![r] = q]
      BY <2>2 DEF q
    <2> QED
      BY <1>2, <2>3, <2>4, OpenKeeps DEF BeginMovement
  <1>3. ASSUME NEW k \in Keys, BeginRebuild(r, k) PROVE SerialInv'
    <2> DEFINE q == [Idle EXCEPT !.pc = "sum", !.key = k]
    <2>1. q \in Request /\ q.pc = "sum" /\ \A l \in Keys : q.delta[l] = 0
      BY <1>0 DEF Request, PCs
    <2> HIDE DEF q
    <2>2. req' = [req EXCEPT ![r] = q]
      BY <1>3 DEF BeginRebuild, q
    <2> QED
      BY <1>3, <2>1, <2>2, OpenKeeps DEF BeginRebuild
  <1>4. CASE BeginPostGrn(r)
    <2> DEFINE q == [req[r] EXCEPT !.pc = "read"]
    <2>1. q \in Request /\ q.pc = "read" /\ \A k \in Keys : q.delta[k] = 0
      BY <1>1, <1>4 DEF Request, PCs, BeginPostGrn, TxKnowsStock, NothingAdded
    <2>2. req' = [req EXCEPT ![r] = q]
      BY <1>4 DEF BeginPostGrn, Goto
    <2> HIDE DEF q
    <2> QED
      BY <1>4, <2>1, <2>2, OpenKeeps DEF BeginPostGrn
  <1>5. ASSUME NEW g \in Grns, FetchGrn(r, g) PROVE SerialInv'
    <2>1. PICK q : /\ req' = [req EXCEPT ![r] = q]
                   /\ q.pc \in {"rejected", "fetched"}
                   /\ \A k \in Keys : q.delta[k] = 0
      <3>1. PICK p \in {"rejected", "fetched"}, legs \in GrnLegs(g) \cup {<<>>} :
               req' = [req EXCEPT ![r] = [Idle EXCEPT !.pc = p, !.grn = g, !.legs = legs]]
        <4>1. CASE grnStatus[g] = "POSTED" \/ PostableLines(g) = {}
          <5>1. [Idle EXCEPT !.pc = "rejected", !.grn = g]
                  = [Idle EXCEPT !.pc = "rejected", !.grn = g, !.legs = <<>>]
            <6>1. Idle.legs = <<>>
              BY DEF Idle
            <6> QED
              BY <6>1, <1>0 DEF Request
          <5> QED
            BY <5>1, <4>1, <1>5 DEF FetchGrn
        <4>2. CASE ~(grnStatus[g] = "POSTED" \/ PostableLines(g) = {})
          BY <4>2, <1>5 DEF FetchGrn
        <4> QED
          BY <4>1, <4>2
      <3> DEFINE x == [Idle EXCEPT !.pc = p, !.grn = g, !.legs = legs]
      <3>2. x.pc = p /\ x.delta = Idle.delta
        BY <1>0 DEF Request
      <3> QED
        BY <3>1, <3>2, <1>0
    <2>2. req'[r] = q /\ \A s \in Requests \ {r} : req'[s] = req[s]
      BY <2>1 DEF IInv, TypeOK
    <2>3. UNCHANGED <<balance, dirty, lock, booked>>
      BY <1>5 DEF FetchGrn
    <2>4. OneTransaction'
      BY <2>1, <2>2 DEF SerialInv, OneTransaction, InTx
    <2>5. TxKnowsStock(r)'
      BY <2>1, <2>2 DEF TxKnowsStock, NothingAdded
    <2>6. \A s \in Requests \ {r} : TxKnowsStock(s)'
      BY <2>2, <2>3, OtherKnows DEF SerialInv
    <2>7. CacheIsBooked'
      BY <2>3 DEF SerialInv, CacheIsBooked
    <2> QED
      BY <2>4, <2>5, <2>6, <2>7 DEF SerialInv
  <1> QED
    BY <1>2, <1>3, <1>4, <1>5 DEF Arrive

-----------------------------------------------------------------------------
\* A step of the open transaction of r that touches neither the cache nor the
\* stock keeps the invariant when r still knows what it must.
LEMMA InsideKeeps ==
    ASSUME IInv, SerialInv, NEW r \in Requests, InTx(r), NEW q,
           req' = [req EXCEPT ![r] = q], UNCHANGED <<balance, booked>>, TxKnowsStock(r)'
    PROVE  SerialInv'
  <1>1. \A s \in Requests \ {r} : req'[s] = req[s] /\ ~InTx(s)
    BY DEF IInv, TypeOK, SerialInv, OneTransaction
  <1>2. OneTransaction'
    BY <1>1 DEF OneTransaction, InTx
  <1>3. \A s \in Requests \ {r} : TxKnowsStock(s)'
    BY <1>1, OutsideKnows DEF SerialInv
  <1>4. CacheIsBooked'
    BY DEF SerialInv, CacheIsBooked
  <1> QED
    BY <1>2, <1>3, <1>4 DEF SerialInv

LEMMA ReadSerial ==
    ASSUME IInv, SerialInv, NEW r \in Requests, ReadBalance(r)
    PROVE  SerialInv'
  <1> DEFINE leg == NextLeg(r)
             q == WithRow(r)
  <1>1. /\ req[r].pc = "read" /\ NewOnHand(r) >= 0
        /\ req' = [req EXCEPT ![r] = q]
        /\ UNCHANGED <<balance, dirty, lock, booked>>
    BY DEF ReadBalance
  <1>2. /\ req[r] \in Request /\ RowsFollowLegs(r) /\ TxKnowsStock(r)
        /\ req'[r] = q
    BY <1>1 DEF IInv, TypeOK, RequestsSound, SerialInv
  <1>3. leg \in Leg
    BY <1>1, <1>2 DEF NextLeg, RowsFollowLegs, Request
  <1>4. leg.key \in Keys /\ leg.qty \in Int /\ req[r].delta \in [Keys -> Int]
    BY <1>2, <1>3 DEF Leg, Request
  <1>5. /\ q.pc = "write" /\ q.key = leg.key /\ q.onHand = NewOnHand(r)
        /\ q.delta = [req[r].delta EXCEPT ![leg.key] = @ + leg.qty]
    BY DEF WithRow
  <1>6. \A k \in Keys : ViewIsBooked(r, k)
    BY <1>1, <1>2 DEF TxKnowsStock
  <1>7. \A k \in Keys : View(r, k)' = View(r, k) /\ booked[k] \in Int
    BY <1>1 DEF View, IInv, TypeOK
  <1> HIDE DEF q, leg
  <1>8. q.delta[leg.key] = req[r].delta[leg.key] + leg.qty
        /\ \A k \in Keys \ {leg.key} : q.delta[k] = req[r].delta[k]
    BY <1>4, <1>5
  <1>9. NewOnHand(r) = View(r, leg.key).onHand + leg.qty
    BY DEF NewOnHand, leg
  <1>10. NewOnHand(r) = booked[leg.key] + q.delta[leg.key]
    BY <1>4, <1>6, <1>7, <1>8, <1>9 DEF ViewIsBooked
  <1>11. PendingIsBooked(r)'
    BY <1>1, <1>2, <1>5, <1>10 DEF PendingIsBooked
  <1>12. \A k \in Keys \ {leg.key} : ViewIsBooked(r, k)'
    BY <1>1, <1>2, <1>6, <1>7, <1>8 DEF ViewIsBooked
  <1>13. TxKnowsStock(r)'
    BY <1>2, <1>5, <1>11, <1>12 DEF TxKnowsStock
  <1> QED
    BY <1>1, <1>13, InsideKeeps DEF InTx

LEMMA RebuildSerial ==
    ASSUME IInv, SerialInv, NEW r \in Requests, SumLedger(r) \/ ReadReserved(r)
    PROVE  SerialInv'
  <1>1. /\ req[r] \in Request /\ LegsAsAsked(r) /\ TxKnowsStock(r)
        /\ InTx(r) /\ req[r].key \in Keys
        /\ UNCHANGED <<balance, dirty, lock, booked>>
    BY DEF IInv, TypeOK, RequestsSound, SerialInv, LegsAsAsked, InTx, SumLedger, ReadReserved
  <1>2. NothingAdded(r) /\ \A k \in Keys : ViewIsBooked(r, k)
    BY <1>1 DEF TxKnowsStock, SumLedger, ReadReserved
  <1>3. \A k \in Keys : booked[k] \in Int /\ booked[k] >= 0 /\ View(r, k)' = View(r, k)
    BY <1>1 DEF IInv, TypeOK, SerialInv, CacheIsBooked, View
  <1>4. PICK q : /\ req' = [req EXCEPT ![r] = q]
                 /\ q.delta = req[r].delta /\ q.key = req[r].key
                 /\ q.pc \in {"reserved", "write"} /\ q.onHand = booked[q.key]
    <2>1. CASE SumLedger(r)
      <3> DEFINE x == [req[r] EXCEPT !.pc = "reserved", !.onHand = booked[req[r].key]]
      <3>1. req' = [req EXCEPT ![r] = x]
        BY <2>1 DEF SumLedger
      <3>2. /\ x.delta = req[r].delta /\ x.key = req[r].key
            /\ x.pc = "reserved" /\ x.onHand = booked[req[r].key]
        BY <1>1 DEF Request
      <3> QED
        BY <3>1, <3>2
    <2>2. CASE ReadReserved(r)
      <3> DEFINE x == [req[r] EXCEPT !.pc = "write", !.reserved = View(r, req[r].key).reserved]
      <3>1. req' = [req EXCEPT ![r] = x] /\ req[r].pc = "reserved"
        BY <2>2 DEF ReadReserved
      <3>2. req[r].onHand = booked[req[r].key]
        BY <3>1, <1>1, <1>2, <1>3 DEF TxKnowsStock, PendingIsBooked, NothingAdded
      <3>3. /\ x.delta = req[r].delta /\ x.key = req[r].key
            /\ x.pc = "write" /\ x.onHand = req[r].onHand
        BY <1>1 DEF Request
      <3> QED
        BY <3>1, <3>2, <3>3
    <2> QED
      BY <2>1, <2>2
  <1>5. req'[r] = q
    BY <1>4 DEF IInv, TypeOK
  <1>6. NothingAdded(r)' /\ PendingIsBooked(r)'
    BY <1>1, <1>2, <1>3, <1>4, <1>5 DEF NothingAdded, PendingIsBooked
  <1>7. \A k \in Keys : ViewIsBooked(r, k)'
    BY <1>1, <1>2, <1>3, <1>4, <1>5 DEF ViewIsBooked
  <1>8. TxKnowsStock(r)'
    BY <1>4, <1>5, <1>6, <1>7 DEF TxKnowsStock
  <1> QED
    BY <1>1, <1>4, <1>8, InsideKeeps

LEMMA UpsertSerial ==
    ASSUME IInv, SerialInv, NEW r \in Requests, UpsertBalance(r)
    PROVE  SerialInv'
  <1>0. req[r].key \in Keys
    BY DEF UpsertBalance, IInv, RequestsSound, LegsAsAsked
  <1> PICK key \in Keys : key = req[r].key
    BY <1>0
  <1> DEFINE row == Upserted(View(r, key), req[r].onHand, req[r].reserved)
             label == IF Len(req[r].rows) < Len(req[r].legs) THEN "read" ELSE "commit"
             q == [req[r] EXCEPT !.pc = label]
  <1>1. /\ req[r].pc = "write"
        /\ lock' = [lock EXCEPT ![key] = r]
        /\ dirty' = [dirty EXCEPT ![key] = row]
        /\ req' = [req EXCEPT ![r] = q]
        /\ UNCHANGED <<balance, booked>>
    BY DEF UpsertBalance, Goto
  <1>2. req[r] \in Request /\ key \in Keys /\ TxKnowsStock(r) /\ req'[r] = q
    BY <1>1 DEF IInv, TypeOK, RequestsSound, SerialInv, LegsAsAsked
  <1>3. q.pc \in {"read", "commit"} /\ q.delta = req[r].delta
    BY <1>2 DEF Request
  <1>4. View(r, key) \in Row
    BY <1>2 DEF View, IInv, TypeOK
  <1>5. row.onHand = req[r].onHand
    BY <1>2, <1>4, UpsertedType DEF Request
  <1> HIDE DEF q, label, row
  <1>6. PendingIsBooked(r) /\ \A k \in Keys \ {key} : ViewIsBooked(r, k)
    BY <1>1, <1>2 DEF TxKnowsStock
  <1>7. View(r, key)' = row /\ \A k \in Keys \ {key} : View(r, k)' = View(r, k)
    <2>1. lock' = [lock EXCEPT ![key] = r] /\ dirty' = [dirty EXCEPT ![key] = row]
          /\ UNCHANGED balance /\ key \in Keys
      BY <1>1, <1>2
    <2>2. lock \in [Keys -> Requests \cup {None}] /\ dirty \in [Keys -> Row]
      BY DEF IInv, TypeOK
    <2>3. lock'[key] = r /\ dirty'[key] = row
      BY <2>1, <2>2
    <2>4. \A k \in Keys \ {key} : lock'[k] = lock[k] /\ dirty'[k] = dirty[k]
      BY <2>1, <2>2
    <2> QED
      BY <2>1, <2>3, <2>4 DEF View
  <1>8. \A k \in Keys : ViewIsBooked(r, k)'
    <2>1. \A k \in Keys : booked'[k] = booked[k] /\ req'[r].delta[k] = req[r].delta[k]
      BY <1>1, <1>2, <1>3
    <2>2. req[r].onHand = booked[key] + req[r].delta[key] /\ req[r].onHand >= 0
      BY <1>6 DEF PendingIsBooked
    <2>3. ViewIsBooked(r, key)'
      BY <1>2, <1>5, <1>7, <2>1, <2>2 DEF ViewIsBooked
    <2>4. \A k \in Keys \ {key} : ViewIsBooked(r, k)'
      BY <1>6, <1>7, <2>1 DEF ViewIsBooked
    <2> QED
      BY <2>3, <2>4
  <1>9. TxKnowsStock(r)'
    BY <1>2, <1>3, <1>8 DEF TxKnowsStock
  <1> QED
    BY <1>1, <1>9, InsideKeeps DEF InTx

\* What r saw becomes the cache in the step that books its rows.
LEMMA CommitSerial ==
    ASSUME IInv, SerialInv, NEW r \in Requests, Commit(r)
    PROVE  SerialInv'
  <1> DEFINE label == IF req[r].grn = None THEN "done" ELSE "emit"
             q == [req[r] EXCEPT !.pc = label]
  <1>1. /\ req[r].pc = "commit"
        /\ balance' = [k \in Keys |-> IF lock[k] = r THEN dirty[k] ELSE balance[k]]
        /\ booked' = [k \in Keys |-> booked[k] + req[r].delta[k]]
        /\ req' = [req EXCEPT ![r] = q]
    BY DEF Commit, Goto
  <1>2. req[r] \in Request /\ req'[r] = q /\ TxKnowsStock(r)
    BY <1>1 DEF IInv, TypeOK, SerialInv
  <1>3. q.pc \in {"done", "emit"}
    BY <1>2 DEF Request
  <1> HIDE DEF q, label
  <1>4. \A s \in Requests \ {r} : req'[s] = req[s] /\ ~InTx(s)
    BY <1>1 DEF IInv, TypeOK, SerialInv, OneTransaction, InTx
  <1>5. OneTransaction'
    BY <1>2, <1>3, <1>4 DEF OneTransaction, InTx
  <1>6. CacheIsBooked'
    BY <1>1, <1>2 DEF CacheIsBooked, TxKnowsStock, ViewIsBooked, View
  <1>7. TxKnowsStock(r)'
    BY <1>2, <1>3 DEF TxKnowsStock
  <1>8. \A s \in Requests \ {r} : TxKnowsStock(s)'
    BY <1>4, OutsideKnows DEF SerialInv
  <1> QED
    BY <1>5, <1>6, <1>7, <1>8 DEF SerialInv

LEMMA EmitSerial ==
    ASSUME IInv, SerialInv, NEW r \in Requests, EmitGrnPosted(r) \/ DropGrnPosted(r)
    PROVE  SerialInv'
  BY EndKeeps DEF EmitGrnPosted, DropGrnPosted

LEMMA RollbackSerial ==
    ASSUME IInv, SerialInv, NEW r \in Requests,
           RefuseInsufficient(r) \/ Rollback(r) \/ AbortDeadlock(r)
    PROVE  SerialInv'
  <1>1. CASE RefuseInsufficient(r)
    BY <1>1, EndKeeps DEF RefuseInsufficient, InTx
  <1>2. CASE Rollback(r)
    BY <1>2, EndKeeps DEF Rollback
  <1>3. CASE AbortDeadlock(r)
    <2>1. InTx(r)
      BY <1>3 DEF AbortDeadlock, Deadlocked, WaitsFor, InTx
    <2> QED
      BY <1>3, <2>1, EndKeeps DEF AbortDeadlock
  <1> QED
    BY <1>1, <1>2, <1>3

LEMMA SerialStep == PoolSize = 1 /\ IInv /\ SerialInv /\ [Next]_vars => SerialInv'
  <1> SUFFICES ASSUME PoolSize = 1, IInv, SerialInv, [Next]_vars PROVE SerialInv'
    OBVIOUS
  <1>1. CASE UNCHANGED vars
    <2>1. UNCHANGED <<balance, dirty, lock, booked, req>>
      BY <1>1 DEF vars
    <2> QED
      BY <2>1, OtherKnows DEF SerialInv, OneTransaction, InTx, CacheIsBooked
  <1>2. ASSUME NEW r \in Requests, Arrive(r) \/ Work(r) \/ Rollback(r)
        PROVE  SerialInv'
    BY <1>2, ArriveSerial, ReadSerial, RebuildSerial, UpsertSerial, CommitSerial,
       EmitSerial, RollbackSerial DEF Work
  <1> QED
    BY <1>1, <1>2 DEF Next, Finished

\* With one connection the cached balance of every key is the sum of its
\* ledger in every committed state, whatever fails or is rolled back.
THEOREM SerialCacheMatchesLedger == PoolSize = 1 => (Spec => []CacheMatchesLedger)
  <1> SUFFICES ASSUME PoolSize = 1 PROVE Spec => []CacheMatchesLedger
    OBVIOUS
  <1>1. SerialInv => CacheMatchesLedger
    BY DEF SerialInv, CacheIsBooked, CacheMatchesLedger
  <1>2. IInv /\ SerialInv /\ [Next]_vars => SerialInv'
    BY SerialStep
  <1> QED
    BY <1>1, <1>2, SerialInit, InductiveInvariant, PTL DEF Spec

\* With one connection no key is ever issued below zero.
THEOREM SerialNoOverIssue == PoolSize = 1 => (Spec => []NoOverIssue)
  <1> SUFFICES ASSUME PoolSize = 1 PROVE Spec => []NoOverIssue
    OBVIOUS
  <1>1. SerialInv => NoOverIssue
    BY DEF SerialInv, CacheIsBooked, NoOverIssue
  <1>2. IInv /\ SerialInv /\ [Next]_vars => SerialInv'
    BY SerialStep
  <1> QED
    BY <1>1, <1>2, SerialInit, InductiveInvariant, PTL DEF Spec

-----------------------------------------------------------------------------
(* The refinement: each commit of an operation is one step of AtomicStock. *)

\* What each leg adds to the stock of k.
LegQty(legs, k) == [i \in 1 .. Len(legs) |-> IF legs[i].key = k THEN legs[i].qty ELSE 0]

LEMMA LegQtyType ==
    ASSUME NEW legs \in Seq(Leg), NEW k
    PROVE  Len(legs) \in Nat /\ LegQty(legs, k) \in [1 .. Len(legs) -> Int]
  <1>1. Len(legs) \in Nat
    OBVIOUS
  <1>2. \A i \in 1 .. Len(legs) : legs[i].qty \in Int
    <2>1. \A i \in 1 .. Len(legs) : legs[i] \in Leg
      OBVIOUS
    <2> QED
      BY <2>1 DEF Leg
  <1>3. 0 \in Int
    OBVIOUS
  <1> QED
    BY <1>1, <1>2, <1>3 DEF LegQty

\* The list of these numbers has sums, and LegsQty is the last of them.
LEMMA LegsQtyIsSum ==
    ASSUME NEW legs \in Seq(Leg), NEW k
    PROVE  \E P : IsSum(P, Len(legs), LegQty(legs, k)) /\ LegsQty(legs, k) = P[Len(legs)]
  <1> DEFINE n == Len(legs)
             v == LegQty(legs, k)
             Step(f) == [s \in SUBSET (1 .. n) |->
                IF s = {} THEN 0
                ELSE f[s \ {Max(s)}] + (IF legs[Max(s)].key = k THEN legs[Max(s)].qty ELSE 0)]
             F == CHOOSE h : h = Step(h)
  <1>1. n \in Nat /\ v \in [1 .. n -> Int]
    BY LegQtyType
  <1>2. LegsQty(legs, k) = F[1 .. n]
    <2>1. DOMAIN legs = 1 .. n
      OBVIOUS
    <2> QED
      BY <2>1 DEF LegsQty, FoldLeft, MapThenFoldSet
  <1>3. \A i \in 1 .. n : v[i] = IF legs[i].key = k THEN legs[i].qty ELSE 0
    BY DEF LegQty
  <1> HIDE DEF v, n
  <1>4. \A f : Step(f) = AddLast(f, n, v)
    <2>1. \A s \in SUBSET (1 .. n) : s # {} => Max(s) \in 1 .. n
      BY <1>1, MaxIsMember
    <2> QED
      BY <1>3, <2>1 DEF AddLast
  <1> HIDE DEF Step
  <1>5. F = AddLast(F, n, v)
    <2>1. \E f : f = Step(f)
      BY <1>1, <1>4, AddingLastExists
    <2>2. F = Step(F)
      BY <2>1
    <2> QED
      BY <1>4, <2>2
  <1> HIDE DEF F
  <1>6. IsSum([i \in 0 .. n |-> F[1 .. i]], n, v)
    BY <1>1, <1>5, AddingLastSums
  <1>7. [i \in 0 .. n |-> F[1 .. i]][n] = F[1 .. n]
    BY <1>1
  <1> QED
    BY <1>2, <1>6, <1>7 DEF v, n

\* A request has added to each key what the legs of its rows add.
DeltaSums(q) ==
    \A k \in Keys : \E P : IsSum(P, Len(q.legs), LegQty(q.legs, k)) /\ q.delta[k] = P[Len(q.rows)]

DeltasInv == \A r \in Requests : DeltaSums(req[r])

LEMMA FreshSums ==
    ASSUME NEW q \in Request, Fresh(q)
    PROVE  DeltaSums(q)
  <1>1. q.legs \in Seq(Leg) /\ Len(q.rows) = 0 /\ \A k \in Keys : q.delta[k] = 0
    BY DEF Request, Fresh
  <1>2. ASSUME NEW k \in Keys
        PROVE  \E P : IsSum(P, Len(q.legs), LegQty(q.legs, k)) /\ q.delta[k] = P[Len(q.rows)]
    <2>1. PICK P : IsSum(P, Len(q.legs), LegQty(q.legs, k))
      BY <1>1, LegsQtyIsSum
    <2>2. P[0] = 0
      BY <2>1 DEF IsSum
    <2> QED
      BY <1>1, <2>1, <2>2
  <1> QED
    BY <1>2 DEF DeltaSums

LEMMA SameSums ==
    ASSUME NEW p, NEW q, DeltaSums(p), q.legs = p.legs, q.rows = p.rows, q.delta = p.delta
    PROVE  DeltaSums(q)
  BY DEF DeltaSums

\* The sums of the legs of all rows are those of all legs.
LEMMA AllRowsAdd ==
    ASSUME NEW q \in Request, DeltaSums(q), Len(q.rows) = Len(q.legs), NEW k \in Keys
    PROVE  q.delta[k] = LegsQty(q.legs, k)
  <1>1. PICK P : IsSum(P, Len(q.legs), LegQty(q.legs, k)) /\ q.delta[k] = P[Len(q.rows)]
    BY DEF DeltaSums
  <1>2. q.legs \in Seq(Leg)
    BY DEF Request
  <1>3. PICK S : IsSum(S, Len(q.legs), LegQty(q.legs, k)) /\ LegsQty(q.legs, k) = S[Len(q.legs)]
    BY <1>2, LegsQtyIsSum
  <1>4. Len(q.legs) \in Nat
    BY <1>2
  <1>5. S[Len(q.legs)] = P[Len(q.legs)]
    BY <1>1, <1>3, <1>4, SumsEqual
  <1> QED
    BY <1>1, <1>3, <1>5

LEMMA RowAdds ==
    ASSUME IInv, NEW r \in Requests, DeltaSums(req[r]), ReadBalance(r)
    PROVE  DeltaSums(WithRow(r))
  <1>1. req[r] \in Request /\ RowsFollowLegs(r) /\ req[r].pc = "read"
    BY DEF IInv, TypeOK, RequestsSound, ReadBalance
  <1> PICK legs \in Seq(Leg), rows \in Seq(Entry), delta \in [Keys -> Int] :
         legs = req[r].legs /\ rows = req[r].rows /\ delta = req[r].delta
    BY <1>1 DEF Request
  <1> DEFINE n == Len(rows)
             leg == legs[n + 1]
             q == WithRow(r)
  <1>2. n \in Nat /\ n < Len(legs) /\ n + 1 \in 1 .. Len(legs) /\ (n + 1) - 1 = n
    BY <1>1 DEF RowsFollowLegs
  <1>3. leg \in Leg /\ leg.key \in Keys /\ leg.qty \in Int
    <2>1. leg \in Leg
      BY <1>2
    <2> QED
      BY <2>1 DEF Leg
  <1>4. q.legs = legs /\ Len(q.rows) = n + 1 /\ q.delta = [delta EXCEPT ![leg.key] = @ + leg.qty]
    BY DEF WithRow, NextLeg
  <1> HIDE DEF q
  <1>5. ASSUME NEW k \in Keys
        PROVE  \E P : IsSum(P, Len(q.legs), LegQty(q.legs, k)) /\ q.delta[k] = P[Len(q.rows)]
    <2>1. PICK P : IsSum(P, Len(legs), LegQty(legs, k)) /\ delta[k] = P[n]
      BY DEF DeltaSums
    <2>2. P[n + 1] = P[n] + LegQty(legs, k)[n + 1]
      BY <1>2, <2>1 DEF IsSum
    <2>3. LegQty(legs, k)[n + 1] = IF leg.key = k THEN leg.qty ELSE 0
      BY <1>2 DEF LegQty
    <2>4. q.delta[k] = delta[k] + (IF leg.key = k THEN leg.qty ELSE 0)
      BY <1>3, <1>4
    <2> QED
      BY <1>4, <2>1, <2>2, <2>3, <2>4
  <1>6. DeltaSums(q)
    BY <1>5 DEF DeltaSums
  <1> QED
    BY <1>6 DEF q

LEMMA DeltasInit == Init => DeltasInv
  <1> SUFFICES ASSUME Init PROVE DeltasInv
    OBVIOUS
  <1>1. Idle \in Request /\ Fresh(Idle)
    BY DEF Idle, Request, PCs, Fresh
  <1>2. \A r \in Requests : req[r] = Idle
    BY DEF Init
  <1> QED
    BY <1>1, <1>2, FreshSums DEF DeltasInv

LEMMA DeltasStep == IInv /\ DeltasInv /\ [Next]_vars => DeltasInv'
  <1> SUFFICES ASSUME IInv, DeltasInv, [Next]_vars PROVE DeltasInv'
    OBVIOUS
  <1>0. req \in [Requests -> Request] /\ req' \in [Requests -> Request]
    <2>1. IInv'
      BY StepKeeps
    <2> QED
      BY <2>1 DEF IInv, TypeOK
  <1>1. CASE UNCHANGED vars
    BY <1>1 DEF vars, DeltasInv
  <1>2. ASSUME NEW r \in Requests, NEW q, req' = [req EXCEPT ![r] = q],
               q \in Request => DeltaSums(q)
        PROVE  DeltasInv'
    <2>1. req'[r] = q /\ \A s \in Requests \ {r} : req'[s] = req[s]
      BY <1>0, <1>2
    <2>2. DeltaSums(req'[r])
      BY <1>0, <1>2, <2>1
    <2> QED
      BY <2>1, <2>2 DEF DeltasInv
  <1>3. ASSUME NEW r \in Requests, Arrive(r) PROVE DeltasInv'
    <2>1. PICK q : req' = [req EXCEPT ![r] = q] /\ Fresh(q)
      BY <1>3, ArriveTarget
    <2> QED
      BY <2>1, <1>2, FreshSums
  <1>4. ASSUME NEW r \in Requests, ReadBalance(r) PROVE DeltasInv'
    <2>1. req' = [req EXCEPT ![r] = WithRow(r)]
      BY <1>4 DEF ReadBalance
    <2>2. DeltaSums(WithRow(r))
      BY <1>4, RowAdds DEF DeltasInv
    <2> QED
      BY <2>1, <2>2, <1>2
  <1>5. ASSUME NEW r \in Requests, Work(r) \/ Rollback(r), ~ReadBalance(r) PROVE DeltasInv'
    <2>1. PICK q : /\ req' = [req EXCEPT ![r] = q]
                   /\ q.legs = req[r].legs /\ q.rows = req[r].rows /\ q.delta = req[r].delta
      <3>1. req[r] \in Request
        BY <1>0
      <3>2. CASE \E label : Goto(r, label)
        <4>1. PICK label : Goto(r, label)
          BY <3>2
        <4> DEFINE q == [req[r] EXCEPT !.pc = label]
        <4>2. req' = [req EXCEPT ![r] = q]
          BY <4>1 DEF Goto
        <4>3. q.legs = req[r].legs /\ q.rows = req[r].rows /\ q.delta = req[r].delta
          BY <3>1 DEF Request
        <4> QED
          BY <4>2, <4>3
      <3>3. CASE SumLedger(r)
        <4> DEFINE q == [req[r] EXCEPT !.pc = "reserved", !.onHand = booked[req[r].key]]
        <4>1. req' = [req EXCEPT ![r] = q]
          BY <3>3 DEF SumLedger
        <4>2. q.legs = req[r].legs /\ q.rows = req[r].rows /\ q.delta = req[r].delta
          BY <3>1 DEF Request
        <4> QED
          BY <4>1, <4>2
      <3>4. CASE ReadReserved(r)
        <4> DEFINE q == [req[r] EXCEPT !.pc = "write", !.reserved = View(r, req[r].key).reserved]
        <4>1. req' = [req EXCEPT ![r] = q]
          BY <3>4 DEF ReadReserved
        <4>2. q.legs = req[r].legs /\ q.rows = req[r].rows /\ q.delta = req[r].delta
          BY <3>1 DEF Request
        <4> QED
          BY <4>1, <4>2
      <3> QED
        BY <1>5, <3>2, <3>3, <3>4 DEF Work, BeginPostGrn, RefuseInsufficient, UpsertBalance, Commit,
           AbortDeadlock, EmitGrnPosted, DropGrnPosted, Rollback
    <2>2. DeltaSums(q)
      BY <2>1, SameSums DEF DeltasInv
    <2> QED
      BY <2>1, <2>2, <1>2
  <1> QED
    BY <1>1, <1>3, <1>4, <1>5 DEF Next, Finished

-----------------------------------------------------------------------------
(* AtomicStock draws its movements from the same operations.               *)

LEMMA SameOperations == Stock!OperationLegs = OperationLegs
  <1>1. /\ Stock!Keys = Keys
        /\ \A type, k, q : Stock!MkLeg(type, k, q) = MkLeg(type, k, q)
    BY DEF Stock!MkLeg, MkLeg, Stock!Keys, Keys, Stock!SignedQty, SignedQty
  <1>2. Stock!AdjustLegs = AdjustLegs
    BY <1>1 DEF Stock!AdjustLegs, AdjustLegs
  <1>3. Stock!TransferLegs = TransferLegs
    BY <1>1 DEF Stock!TransferLegs, TransferLegs
  <1>4. \A type : Stock!SingleLegs(type) = SingleLegs(type)
    BY <1>1 DEF Stock!SingleLegs, SingleLegs
  <1>5. ASSUME NEW g PROVE Stock!GrnLegs(g) = GrnLegs(g)
    <2>1. Stock!PostableLines(g) = PostableLines(g)
      BY DEF Stock!PostableLines, PostableLines, Stock!ReceivedQty, ReceivedQty
    <2>2. \A line : Stock!GrnLeg(g, line) = GrnLeg(g, line)
      BY DEF Stock!GrnLeg, GrnLeg, Stock!ReceivedQty, ReceivedQty
    <2>3. \A S : Stock!SetToSeqs(S) = SetToSeqs(S)
      BY DEF Stock!SetToSeqs, SetToSeqs, Stock!Cardinality, Cardinality
    <2> QED
      BY <2>1, <2>2, <2>3 DEF Stock!GrnLegs, GrnLegs
  <1> QED
    BY <1>2, <1>3, <1>4, <1>5 DEF Stock!OperationLegs, OperationLegs

LEMMA SameLegsQty == \A legs, k : Stock!LegsQty(legs, k) = LegsQty(legs, k)
  BY DEF Stock!LegsQty, LegsQty, Stock!FoldLeft, FoldLeft, Stock!MapThenFoldSet, MapThenFoldSet,
         Stock!Max, Max

\* What a request books is one of these operations.
LEMMA LegsAreOperation ==
    ASSUME IInv, NEW r \in Requests, req[r].pc = "commit", req[r].legs # <<>>
    PROVE  req[r].legs \in OperationLegs
  <1>1. LegsAsAsked(r) /\ req[r] \in Request
    BY DEF IInv, RequestsSound, TypeOK
  <1>2. CASE req[r].grn = None
    <2>1. \E kind \in Kinds : req[r].legs \in RequestLegs(kind)
      BY <1>1, <1>2 DEF LegsAsAsked
    <2> QED
      BY <2>1 DEF RequestLegs, OperationLegs
  <1>3. CASE req[r].grn # None
    <2>1. req[r].grn \in Grns
      BY <1>1, <1>3 DEF Request
    <2>2. req[r].legs \in GrnLegs(req[r].grn)
      BY <1>1, <1>3 DEF LegsAsAsked
    <2> QED
      BY <2>1, <2>2 DEF OperationLegs
  <1> QED
    BY <1>2, <1>3

\* The refinement mapping.
MappedStock == [k \in Keys |-> balance[k].onHand]

MappedApplied == {r \in Requests : ledger[r] # <<>>}

LEMMA RefinesInit == Init => Stock!Init
  <1> SUFFICES ASSUME Init PROVE Stock!Init
    OBVIOUS
  <1>1. CacheIsBooked /\ booked = Opening
    BY SerialInit DEF SerialInv, Init
  <1>2. MappedStock = Opening
    BY <1>1, InventoryAssumption DEF MappedStock, CacheIsBooked
  <1>3. MappedApplied = {}
    BY DEF MappedApplied, Init
  <1> QED
    BY <1>2, <1>3 DEF Stock!Init, MappedStock, MappedApplied

\* The commit of an operation applies it; the commit of a rebuild is invisible.
LEMMA CommitApplies ==
    ASSUME IInv, SerialInv, DeltasInv, SerialInv', IInv', NEW r \in Requests, Commit(r)
    PROVE  Stock!Apply(r) \/ UNCHANGED <<MappedStock, MappedApplied>>
  <1>1. /\ req[r] \in Request /\ RowsFollowLegs(r) /\ req[r].pc = "commit"
        /\ ledger' = [ledger EXCEPT ![r] = req[r].rows]
        /\ booked' = [k \in Keys |-> booked[k] + req[r].delta[k]]
    BY DEF IInv, TypeOK, RequestsSound, Commit
  <1>2. /\ Len(req[r].rows) = Len(req[r].legs) /\ ledger[r] = <<>>
        /\ req[r].legs \in Seq(Leg) /\ req[r].rows \in Seq(Entry)
    BY <1>1 DEF RowsFollowLegs, Request
  <1>3. \A k \in Keys : req[r].delta[k] = LegsQty(req[r].legs, k)
    BY <1>1, <1>2, AllRowsAdd DEF DeltasInv
  <1>4. \A k \in Keys : /\ balance[k].onHand = booked[k]
                        /\ balance'[k].onHand = booked[k] + LegsQty(req[r].legs, k)
                        /\ balance'[k].onHand >= 0
    <2> TAKE k \in Keys
    <2>1. balance[k].onHand = booked[k]
      BY DEF SerialInv, CacheIsBooked
    <2>2. balance'[k].onHand = booked'[k] /\ booked'[k] >= 0
      BY DEF SerialInv, CacheIsBooked
    <2>3. booked'[k] = booked[k] + LegsQty(req[r].legs, k)
      BY <1>1, <1>3
    <2> QED
      BY <2>1, <2>2, <2>3
  <1>5. /\ ledger'[r] = req[r].rows
        /\ \A s \in Requests \ {r} : ledger'[s] = ledger[s]
    BY <1>1 DEF IInv, TypeOK
  <1>6. CASE req[r].legs # <<>>
    <2>1. req[r].rows # <<>>
      BY <1>2, <1>6
    <2>2. r \notin MappedApplied /\ MappedApplied' = MappedApplied \cup {r}
      BY <1>2, <1>5, <2>1 DEF MappedApplied
    <2>3. req[r].legs \in OperationLegs
      BY <1>1, <1>6, LegsAreOperation
    <2>4. /\ MappedStock' = [k \in Keys |-> MappedStock[k] + LegsQty(req[r].legs, k)]
          /\ \A k \in Keys : MappedStock'[k] >= 0
      BY <1>4 DEF MappedStock
    <2>5. \E legs \in OperationLegs :
             /\ MappedStock' = [k \in Keys |-> MappedStock[k] + LegsQty(legs, k)]
             /\ \A k \in Keys : MappedStock'[k] >= 0
      BY <2>3, <2>4
    <2>6. Stock!Keys = Keys
      BY DEF Stock!Keys, Keys
    <2>7. Stock!Apply(r)
      BY <2>2, <2>5, <2>6, SameOperations, SameLegsQty DEF Stock!Apply, MappedStock, MappedApplied
    <2> QED
      BY <2>7
  <1>7. CASE req[r].legs = <<>>
    <2>1. req[r].rows = <<>>
      BY <1>2, <1>7
    <2>2. MappedApplied' = MappedApplied
      BY <1>2, <1>5, <2>1 DEF MappedApplied
    <2>3. \A k \in Keys : balance'[k].onHand = balance[k].onHand
      <3> TAKE k \in Keys
      <3>1. PICK P : /\ IsSum(P, Len(req[r].legs), LegQty(req[r].legs, k))
                     /\ req[r].delta[k] = P[Len(req[r].rows)]
        BY DEF DeltasInv, DeltaSums
      <3>2. req[r].delta[k] = 0
        BY <2>1, <3>1 DEF IsSum
      <3>3. booked[k] \in Int
        BY DEF IInv, TypeOK
      <3> QED
        BY <1>3, <1>4, <3>2, <3>3
    <2>4. MappedStock' = MappedStock
      BY <2>3 DEF MappedStock
    <2> QED
      BY <2>2, <2>4
  <1> QED
    BY <1>6, <1>7

LEMMA OnlyCommitBooks ==
    ASSUME NEW r \in Requests, Arrive(r) \/ Work(r) \/ Rollback(r), ~Commit(r)
    PROVE  ledger' = ledger
  BY DEF Arrive, BeginMovement, FetchGrn, BeginRebuild, Work, BeginPostGrn, ReadBalance,
         RefuseInsufficient, SumLedger, ReadReserved, UpsertBalance, AbortDeadlock,
         EmitGrnPosted, DropGrnPosted, Rollback

LEMMA RefinesStep ==
    ASSUME IInv, SerialInv, DeltasInv, SerialInv', IInv', [Next]_vars
    PROVE  [Stock!Next]_(<<MappedStock, MappedApplied>>)
  <1>1. CASE UNCHANGED vars
    BY <1>1 DEF vars, MappedStock, MappedApplied
  <1>2. ASSUME NEW r \in Requests, Arrive(r) \/ Work(r) \/ Rollback(r), ~Commit(r)
        PROVE  UNCHANGED <<MappedStock, MappedApplied>>
    BY <1>2, OnlyCommitMoves, OnlyCommitBooks DEF MappedStock, MappedApplied
  <1>3. ASSUME NEW r \in Requests, Commit(r)
        PROVE  Stock!Next \/ UNCHANGED <<MappedStock, MappedApplied>>
    BY <1>3, CommitApplies DEF Stock!Next
  <1> QED
    BY <1>1, <1>2, <1>3 DEF Next, Finished

\* With one connection the cached stock behaves as the abstract one: every
\* request applies all its movements in one step and at most once, no step
\* leaves a negative stock, and nothing else, a rebuild included, moves it.
THEOREM SerialStockIsAtomic == PoolSize = 1 => (Spec => ImplementsAtomicStock)
  <1> SUFFICES ASSUME PoolSize = 1 PROVE Spec => ImplementsAtomicStock
    OBVIOUS
  <1>1. IInv /\ SerialInv /\ [Next]_vars => SerialInv'
    BY SerialStep
  <1>2. IInv /\ SerialInv /\ DeltasInv /\ SerialInv' /\ IInv' /\ [Next]_vars
          => [Stock!Next]_(<<MappedStock, MappedApplied>>)
    BY RefinesStep
  <1>3. Spec => []IInv /\ []SerialInv /\ []DeltasInv
    BY <1>1, SerialInit, DeltasInit, DeltasStep, InductiveInvariant, PTL DEF Spec
  <1>4. Spec => [][Stock!Next]_(<<MappedStock, MappedApplied>>)
    BY <1>2, <1>3, PTL DEF Spec
  <1> QED
    BY <1>4, RefinesInit, PTL DEF Spec, ImplementsAtomicStock, Stock!Spec, MappedStock, MappedApplied

=============================================================================

------------------------------ MODULE MrpProofs ------------------------------
(***************************************************************************)
(* Proofs about Boms, for any items, styles, requests and versions; about  *)
(* the MRP runs over them, for any number of runs, of which any may fail,  *)
(* die or be overtaken by others between any two of its statements; and    *)
(* about the engine, for any bills, demands, stock and depth: when what it *)
(* plans is needed, and how much of it.                                    *)
(***************************************************************************)
EXTENDS Mrp, FoldLemmas, SequenceTheorems

\* What a step that moves request r to q and the rows to bom' has to show.
LEMMA TypeKept ==
    ASSUME BomTypeOK, NEW r \in BomRequests, NEW q \in BomRequest,
           bomReq' = [bomReq EXCEPT ![r] = q],
           bom' \in [BomItems -> [Versions -> BomRow]],
           q.pc # "idle",
           q.pc \in {"latest", "create", "delete", "insert", "update"} => q.item \in BomItems,
           q.pc \in {"create", "delete", "insert", "update"} => q.version \in Versions,
           q.pc \in {"latest", "create", "delete", "insert"} => q.lines # None
    PROVE  BomTypeOK'
  <1>1. bomReq' \in [BomRequests -> BomRequest] /\ bomReq'[r] = q
    BY DEF BomTypeOK
  <1>2. \A s \in BomRequests \ {r} : bomReq'[s] = bomReq[s]
    BY DEF BomTypeOK
  <1> QED
    BY <1>1, <1>2 DEF BomTypeOK, Working

\* A row that is updated keeps its shape.
LEMMA RowsTyped ==
    ASSUME BomTypeOK, NEW it \in BomItems, NEW v \in Versions, NEW row \in BomRow,
           bom' = [bom EXCEPT ![it][v] = row]
    PROVE  bom' \in [BomItems -> [Versions -> BomRow]]
  BY DEF BomTypeOK

\* Every row and every request has the shape the schema and the DTOs give it.
THEOREM BomTypeCorrect == BomSpec => []BomTypeOK
<1>1. BomInit => BomTypeOK
  BY BomsAssumption, OpeningAssumption
  DEF BomInit, BomTypeOK, BomIdle, BomRequest, Working
<1>2. BomTypeOK /\ [BomNext]_bomVars => BomTypeOK'
  <2> SUFFICES ASSUME BomTypeOK, [BomNext]_bomVars
               PROVE  BomTypeOK'
    OBVIOUS
  <2> USE BomsAssumption
  <2>1. ASSUME NEW r \in BomRequests, NEW it \in BomItems, NEW s \in Styles \cup {None},
               NEW ls \in LineChoices, Deactivate(r, it, s, ls)
        PROVE  BomTypeOK'
    <3> DEFINE q == [Creation(it, s, 0, ls) EXCEPT !.pc = "latest"]
    <3>1. bom' \in [BomItems -> [Versions -> BomRow]]
      <4>1. \A v \in Versions : [bom[it][v] EXCEPT !.active = FALSE] \in BomRow
        <5> TAKE v \in Versions
        <5>1. bom[it][v] \in BomRow
          BY DEF BomTypeOK
        <5> QED
          BY <5>1 DEF BomRow
      <4>2. [v \in Versions |-> IF Matches(it, s, v)
                               THEN [bom[it][v] EXCEPT !.active = FALSE]
                               ELSE bom[it][v]] \in [Versions -> BomRow]
        BY <4>1 DEF BomTypeOK
      <4> QED
        BY <2>1, <4>2 DEF Deactivate, BomTypeOK
    <3>2. q \in BomRequest /\ q.pc = "latest" /\ q.item = it /\ q.lines = ls
      BY DEF Creation, BomIdle, BomRequest
    <3>3. bomReq' = [bomReq EXCEPT ![r] = q]
      BY <2>1 DEF Deactivate
    <3> HIDE DEF q
    <3> QED
      BY <3>1, <3>2, <3>3, TypeKept
  <2>2. ASSUME NEW r \in BomRequests, ReadLatest(r)
        PROVE  BomTypeOK'
    <3>1. PICK u \in 0..(MaxVersion - 1) :
            bomReq' = [bomReq EXCEPT ![r].pc = "create", ![r].version = u + 1]
      BY <2>2 DEF ReadLatest
    <3> DEFINE q == [bomReq[r] EXCEPT !.pc = "create", !.version = u + 1]
    <3>2. u + 1 \in Versions /\ u + 1 \in Nat
      BY DEF Versions
    <3>3. q \in BomRequest /\ q.pc = "create" /\ q.item \in BomItems
          /\ q.version = u + 1 /\ q.lines # None
      BY <2>2, <3>2 DEF BomTypeOK, BomRequest, ReadLatest, Working
    <3>4. bomReq' = [bomReq EXCEPT ![r] = q]
      BY <3>1 DEF BomTypeOK, BomRequest
    <3>5. bom' \in [BomItems -> [Versions -> BomRow]]
      BY <2>2 DEF ReadLatest, BomTypeOK
    <3> HIDE DEF q
    <3> QED
      BY <3>2, <3>3, <3>4, <3>5, TypeKept
  <2>3. ASSUME NEW r \in BomRequests, NEW label \in {"done", "rejected", "failed"},
               BomAnswer(r, label), bom' \in [BomItems -> [Versions -> BomRow]]
        PROVE  BomTypeOK'
    <3> DEFINE q == [bomReq[r] EXCEPT !.pc = label, !.version = 0, !.lines = None]
    <3>1. q \in BomRequest /\ q.pc = label
      BY DEF BomTypeOK, BomRequest
    <3>2. bomReq' = [bomReq EXCEPT ![r] = q]
      BY <2>3 DEF BomAnswer, BomTypeOK, BomRequest
    <3> HIDE DEF q
    <3> QED
      BY <2>3, <3>1, <3>2, TypeKept
  <2>4. ASSUME NEW r \in BomRequests, CreateVersion(r)
        PROVE  BomTypeOK'
    <3>1. /\ bomReq[r].item \in BomItems /\ bomReq[r].version \in Versions
          /\ NewRow(bomReq[r]) \in BomRow
      BY <2>4 DEF CreateVersion, BomTypeOK, BomRequest, BomRow, Working, NewRow
    <3>2. bom' \in [BomItems -> [Versions -> BomRow]]
      BY <2>4, <3>1, RowsTyped DEF CreateVersion, BomTypeOK
    <3> QED
      BY <2>3, <2>4, <3>2 DEF CreateVersion
  <2>5. ASSUME NEW r \in BomRequests, NEW it \in BomItems, NEW v \in Versions,
               NEW ls \in LineChoices, CreateGiven(r, it, v, ls)
        PROVE  BomTypeOK'
    <3>1. PICK label \in {"rejected", "done"} :
            bomReq' = [bomReq EXCEPT ![r] = [BomIdle EXCEPT !.item = it, !.pc = label]]
      BY <2>5 DEF CreateGiven
    <3> DEFINE q == [BomIdle EXCEPT !.item = it, !.pc = label]
    <3>2. q \in BomRequest /\ q.pc = label
      BY DEF BomIdle, BomRequest
    <3>3. NewRow(Creation(it, None, v, ls)) \in BomRow
      BY DEF NewRow, Creation, BomIdle, BomRow
    <3>4. bom' \in [BomItems -> [Versions -> BomRow]]
      BY <2>5, <3>3, RowsTyped DEF CreateGiven, BomTypeOK
    <3> HIDE DEF q
    <3> QED
      BY <3>1, <3>2, <3>4, TypeKept DEF q
  <2>6. ASSUME NEW r \in BomRequests, NEW it \in BomItems, NEW v \in Versions,
               NEW ls \in {None} \cup LineChoices, NEW a \in BOOLEAN \cup {None},
               FindBom(r, it, v, ls, a)
        PROVE  BomTypeOK'
    <3>1. bom' \in [BomItems -> [Versions -> BomRow]]
      BY <2>6 DEF FindBom, BomTypeOK
    <3>2. CASE bom[it][v].present
      <4>1. PICK label \in {"update", "delete"} :
              /\ label = IF ls = None THEN "update" ELSE "delete"
              /\ bomReq' = [bomReq EXCEPT ![r] =
                              [Creation(it, None, v, ls) EXCEPT !.pc = label, !.active = a]]
        BY <2>6, <3>2 DEF FindBom
      <4> DEFINE q == [Creation(it, None, v, ls) EXCEPT !.pc = label, !.active = a]
      <4>2. v \in Nat
        BY DEF Versions
      <4>3. /\ q \in BomRequest /\ q.item = it /\ q.version = v /\ q.lines = ls
            /\ q.pc = label
        BY <4>2 DEF Creation, BomIdle, BomRequest
      <4> HIDE DEF q
      <4> QED
        BY <3>1, <4>1, <4>3, TypeKept DEF q
    <3>3. CASE ~bom[it][v].present
      <4> DEFINE q == [BomIdle EXCEPT !.pc = "rejected"]
      <4>1. q \in BomRequest /\ q.pc = "rejected"
        BY DEF BomIdle, BomRequest
      <4>2. bomReq' = [bomReq EXCEPT ![r] = q]
        BY <2>6, <3>3 DEF FindBom
      <4> HIDE DEF q
      <4> QED
        BY <3>1, <4>1, <4>2, TypeKept
    <3> QED
      BY <3>2, <3>3
  <2>7. ASSUME NEW r \in BomRequests, DeleteLines(r) \/ InsertLines(r)
        PROVE  BomTypeOK'
    <3>1. /\ bomReq[r].pc \in {"delete", "insert"} /\ bomReq[r].lines # None
          /\ bomReq[r].item \in BomItems /\ bomReq[r].version \in Versions
          /\ bomReq[r].lines \subseteq Components
      BY <2>7 DEF DeleteLines, InsertLines, BomTypeOK, BomRequest, Working
    <3>2. bom[bomReq[r].item][bomReq[r].version].lines \subseteq Components
      BY <3>1 DEF BomTypeOK, BomRow
    <3>3. PICK ls \in SUBSET Components : SetLines(r, ls)
      BY <2>7, <3>1, <3>2 DEF DeleteLines, InsertLines
    <3>4. [bom[bomReq[r].item][bomReq[r].version] EXCEPT !.lines = ls] \in BomRow
      <4>1. bom[bomReq[r].item][bomReq[r].version] \in BomRow
        BY <3>1 DEF BomTypeOK
      <4> QED
        BY <4>1 DEF BomRow
    <3>5. bom' = [bom EXCEPT ![bomReq[r].item][bomReq[r].version] =
                    [bom[bomReq[r].item][bomReq[r].version] EXCEPT !.lines = ls]]
      BY <3>1, <3>3 DEF SetLines, BomTypeOK
    <3>6. bom' \in [BomItems -> [Versions -> BomRow]]
      BY <3>1, <3>4, <3>5, RowsTyped
    <3>7. PICK label \in {"insert", "update"} : bomReq' = [bomReq EXCEPT ![r].pc = label]
      BY <2>7 DEF DeleteLines, InsertLines, BomGoto
    <3> DEFINE q == [bomReq[r] EXCEPT !.pc = label]
    <3>8. /\ q \in BomRequest /\ q.pc = label /\ q.item = bomReq[r].item
          /\ q.version = bomReq[r].version /\ q.lines = bomReq[r].lines
      BY DEF BomTypeOK, BomRequest
    <3>9. bomReq' = [bomReq EXCEPT ![r] = q]
      BY <3>7 DEF BomTypeOK, BomRequest
    <3> HIDE DEF q
    <3> QED
      BY <3>1, <3>6, <3>8, <3>9, TypeKept
  <2>8. ASSUME NEW r \in BomRequests, UpdateRow(r)
        PROVE  BomTypeOK'
    <3> DEFINE it == bomReq[r].item
               v  == bomReq[r].version
               row == [bom[it][v] EXCEPT !.active =
                          IF bomReq[r].active = None THEN @ ELSE bomReq[r].active]
    <3>1. it \in BomItems /\ v \in Versions
      BY <2>8 DEF UpdateRow, BomTypeOK, Working
    <3>2. bom[it][v] \in BomRow /\ bomReq[r].active \in BOOLEAN \cup {None}
      BY <3>1 DEF BomTypeOK, BomRequest
    <3>3. row \in BomRow
      BY <3>2 DEF BomRow
    <3>4. bom' = [bom EXCEPT ![it][v] = row]
      BY <2>8, <3>1 DEF UpdateRow, BomTypeOK
    <3> HIDE DEF it, v, row
    <3>5. bom' \in [BomItems -> [Versions -> BomRow]]
      BY <3>1, <3>3, <3>4, RowsTyped
    <3> QED
      BY <2>3, <2>8, <3>5 DEF UpdateRow
  <2>9. ASSUME NEW r \in BomRequests, BomFail(r)
        PROVE  BomTypeOK'
    BY <2>3, <2>9 DEF BomFail, BomTypeOK
  <2>10. CASE UNCHANGED bomVars
    BY <2>10 DEF bomVars, BomTypeOK, Working
  <2> QED
    BY <2>1, <2>2, <2>4, <2>5, <2>6, <2>7, <2>8, <2>9, <2>10 DEF BomNext, BomStep
<1> QED
  BY <1>1, <1>2, PTL DEF BomSpec

-----------------------------------------------------------------------------
(* The latest version of an ordinary item is active, or the request that   *)
(* switched it off is still to create a higher one.                        *)

LEMMA SuccessorInit == BomInit => LatestHasSuccessor
  BY OpeningAssumption DEF BomInit, LatestHasSuccessor, Highest

\* A step that starts a request on another item, or ends the work of a request
\* that is no successor, and that neither adds versions to the item nor switches
\* any off, leaves the invariant as it is.
LEMMA SuccessorKept ==
    ASSUME LatestHasSuccessor, NEW item \in BomItems, NEW v \in Versions,
           NEW r \in BomRequests,
           Ordinary(item), Highest(item, v)',
           \A q \in BomRequests \ {r} : bomReq'[q] = bomReq[q],
           \A w \in Versions : bom'[item][w].present = bom[item][w].present,
           bom[item][v].active => bom'[item][v].active,
           bomReq[r].item # item \/ bomReq[r].pc \notin {"latest", "create"}
    PROVE  bom'[item][v].active \/ Successor(item, v)'
  <1>1. Highest(item, v)
    BY DEF Highest
  <1>2. CASE bom[item][v].active
    BY <1>2
  <1>3. CASE Successor(item, v)
    <2>1. PICK q \in BomRequests :
            /\ bomReq[q].item = item
            /\ bomReq[q].pc = "latest" \/ (bomReq[q].pc = "create" /\ bomReq[q].version > v)
      BY <1>3 DEF Successor
    <2>2. bomReq'[q] = bomReq[q]
      BY <2>1
    <2> QED
      BY <2>1, <2>2 DEF Successor
  <1> QED
    BY <1>1, <1>2, <1>3 DEF LatestHasSuccessor

LEMMA SuccessorDeactivate ==
    ASSUME BomTypeOK, LatestHasSuccessor, NEW r \in BomRequests, NEW it \in BomItems,
           NEW s \in Styles \cup {None}, NEW ls \in LineChoices, Deactivate(r, it, s, ls)
    PROVE  LatestHasSuccessor'
  <1> SUFFICES ASSUME NEW item \in BomItems, NEW v \in Versions,
                      Ordinary(item)', Highest(item, v)'
               PROVE  bom'[item][v].active \/ Successor(item, v)'
    BY DEF LatestHasSuccessor
  <1>1. /\ bomReq'[r] = [Creation(it, s, 0, ls) EXCEPT !.pc = "latest"]
        /\ \A q \in BomRequests \ {r} : bomReq'[q] = bomReq[q]
        /\ bomReq[r] = BomIdle
    BY DEF Deactivate, MayAsk, BomTypeOK
  <1>2. bomReq'[r].item = it /\ bomReq'[r].pc = "latest"
    BY <1>1 DEF Creation, BomIdle
  <1>3. CASE item = it
    BY <1>2, <1>3 DEF Successor
  <1>4. CASE item # it
    <2>1. bom'[item] = bom[item]
      BY <1>4 DEF Deactivate, BomTypeOK
    <2>2. bomReq[r].item # item
      BY <1>1, BomsAssumption DEF BomIdle
    <2>3. Ordinary(item)
      BY <1>1, <2>2 DEF Ordinary
    <2> QED
      BY <1>1, <2>1, <2>2, <2>3, SuccessorKept
  <1> QED
    BY <1>3, <1>4

LEMMA SuccessorReadLatest ==
    ASSUME BomTypeOK, LatestHasSuccessor, NEW r \in BomRequests, ReadLatest(r)
    PROVE  LatestHasSuccessor'
  <1> SUFFICES ASSUME NEW item \in BomItems, NEW v \in Versions,
                      Ordinary(item)', Highest(item, v)'
               PROVE  bom'[item][v].active \/ Successor(item, v)'
    BY DEF LatestHasSuccessor
  <1>1. PICK u \in 0..(MaxVersion - 1) :
          /\ IsLatest(bomReq[r].item, bomReq[r].style, u)
          /\ bomReq' = [bomReq EXCEPT ![r].pc = "create", ![r].version = u + 1]
    BY DEF ReadLatest
  <1>2. /\ bomReq[r].pc = "latest"
        /\ bomReq'[r].pc = "create" /\ bomReq'[r].version = u + 1
        /\ bomReq'[r].item = bomReq[r].item
        /\ bomReq'[r].style = bomReq[r].style /\ bomReq'[r].active = bomReq[r].active
        /\ \A q \in BomRequests \ {r} : bomReq'[q] = bomReq[q]
    BY <1>1 DEF BomTypeOK, BomRequest, ReadLatest
  <1>3. bom' = bom
    BY DEF ReadLatest
  <1>4. Ordinary(item)
    BY <1>2 DEF Ordinary
  <1>5. CASE bomReq[r].item # item
    BY <1>2, <1>3, <1>4, <1>5, SuccessorKept
  <1>6. CASE bomReq[r].item = item
    <2>1. bomReq[r].style = None
      BY <1>4, <1>6 DEF Ordinary
    <2>2. bom[item][v].present
      BY <1>3 DEF Highest
    <2>3. v <= u
      BY <1>1, <1>6, <2>1, <2>2 DEF IsLatest, Matches
    <2>4. bomReq'[r].version > v
      BY <1>2, <2>3 DEF Versions
    <2> QED
      BY <1>2, <1>6, <2>4 DEF Successor
  <1> QED
    BY <1>5, <1>6

\* A version is created, whether or not by a request that switched others off.
LEMMA SuccessorCreated ==
    ASSUME LatestHasSuccessor, NEW item \in BomItems, NEW v \in Versions, NEW n \in Versions,
           NEW r \in BomRequests,
           Ordinary(item), Highest(item, v)',
           \A q \in BomRequests \ {r} : bomReq'[q] = bomReq[q],
           bom'[item][n].present, bom'[item][n].active,
           \A w \in Versions \ {n} : bom'[item][w] = bom[item][w],
           bomReq[r].pc = "latest" => bomReq[r].item # item,
           bomReq[r].item = item /\ bomReq[r].pc = "create" => bomReq[r].version = n
    PROVE  bom'[item][v].active \/ Successor(item, v)'
  <1>1. CASE v = n
    BY <1>1
  <1>2. CASE v # n
    <2>1. n <= v
      BY DEF Highest
    <2>2. bom'[item][v] = bom[item][v]
      BY <1>2
    <2>3. \A w \in Versions : bom[item][w].present => w <= v
      BY <2>1 DEF Highest
    <2>4. Highest(item, v)
      BY <2>2, <2>3 DEF Highest
    <2>5. CASE bom[item][v].active
      BY <2>2, <2>5
    <2>6. CASE Successor(item, v)
      <3>1. PICK q \in BomRequests :
              /\ bomReq[q].item = item
              /\ bomReq[q].pc = "latest" \/ (bomReq[q].pc = "create" /\ bomReq[q].version > v)
        BY <2>6 DEF Successor
      <3>2. q # r
        BY <2>1, <3>1 DEF Versions
      <3>3. bomReq'[q] = bomReq[q]
        BY <3>2
      <3> QED
        BY <3>1, <3>3 DEF Successor
    <2> QED
      BY <2>4, <2>5, <2>6 DEF LatestHasSuccessor
  <1> QED
    BY <1>1, <1>2

LEMMA SuccessorCreateVersion ==
    ASSUME BomTypeOK, LatestHasSuccessor, NEW r \in BomRequests, CreateVersion(r)
    PROVE  LatestHasSuccessor'
  <1> SUFFICES ASSUME NEW item \in BomItems, NEW v \in Versions,
                      Ordinary(item)', Highest(item, v)'
               PROVE  bom'[item][v].active \/ Successor(item, v)'
    BY DEF LatestHasSuccessor
  <1> DEFINE it == bomReq[r].item
             n  == bomReq[r].version
  <1>1. it \in BomItems /\ n \in Versions /\ bomReq[r].pc = "create"
    BY DEF BomTypeOK, Working, CreateVersion
  <1>2. /\ \A q \in BomRequests \ {r} : bomReq'[q] = bomReq[q]
        /\ bomReq'[r].item = bomReq[r].item
        /\ bomReq'[r].style = bomReq[r].style /\ bomReq'[r].active = bomReq[r].active
    BY DEF BomTypeOK, BomRequest, CreateVersion, BomAnswer
  <1>3. Ordinary(item)
    BY <1>1, <1>2 DEF Ordinary
  <1>4. CASE it # item
    <2>1. bom'[item] = bom[item]
      BY <1>1, <1>4 DEF CreateVersion, BomTypeOK
    <2> QED
      BY <1>2, <1>3, <1>4, <2>1, SuccessorKept
  <1>5. CASE it = item /\ ~bom[it][n].present
    <2>1. bom' = [bom EXCEPT ![it][n] = NewRow(bomReq[r])]
      BY <1>5 DEF CreateVersion
    <2>2. bom'[item][n].present /\ bom'[item][n].active
      BY <1>1, <1>5, <2>1 DEF BomTypeOK, NewRow
    <2>3. \A w \in Versions \ {n} : bom'[item][w] = bom[item][w]
      BY <1>1, <1>5, <2>1 DEF BomTypeOK
    <2> HIDE DEF it, n
    <2> QED
      BY <1>1, <1>2, <1>3, <2>2, <2>3, SuccessorCreated DEF it, n
  <1>6. CASE it = item /\ bom[it][n].present
    <2>1. bom' = bom
      BY <1>6 DEF CreateVersion
    <2>2. Highest(item, v) /\ n <= v
      BY <1>1, <1>6, <2>1 DEF Highest
    <2>3. CASE bom[item][v].active
      BY <2>1, <2>3
    <2>4. CASE Successor(item, v)
      <3>1. PICK q \in BomRequests :
              /\ bomReq[q].item = item
              /\ bomReq[q].pc = "latest" \/ (bomReq[q].pc = "create" /\ bomReq[q].version > v)
        BY <2>4 DEF Successor
      <3>2. q # r
        BY <1>1, <2>2, <3>1 DEF Versions
      <3>3. bomReq'[q] = bomReq[q]
        BY <1>2, <3>2
      <3> QED
        BY <3>1, <3>3 DEF Successor
    <2> QED
      BY <1>3, <2>2, <2>3, <2>4 DEF LatestHasSuccessor
  <1> QED
    BY <1>4, <1>5, <1>6

LEMMA SuccessorCreateGiven ==
    ASSUME BomTypeOK, LatestHasSuccessor, NEW r \in BomRequests, NEW it \in BomItems,
           NEW n \in Versions, NEW ls \in LineChoices, CreateGiven(r, it, n, ls)
    PROVE  LatestHasSuccessor'
  <1> SUFFICES ASSUME NEW item \in BomItems, NEW v \in Versions,
                      Ordinary(item)', Highest(item, v)'
               PROVE  bom'[item][v].active \/ Successor(item, v)'
    BY DEF LatestHasSuccessor
  <1>1. /\ \A q \in BomRequests \ {r} : bomReq'[q] = bomReq[q]
        /\ bomReq[r] = BomIdle
    BY DEF CreateGiven, MayAsk, BomTypeOK
  <1>2. bomReq[r].item = None /\ bomReq[r].pc = "idle" /\ None # item
    BY <1>1, BomsAssumption DEF BomIdle
  <1>3. Ordinary(item)
    BY <1>1, <1>2 DEF Ordinary
  <1>4. CASE bom'[item] = bom[item]
    BY <1>1, <1>2, <1>3, <1>4, SuccessorKept
  <1>5. CASE bom' = [bom EXCEPT ![it][n] = NewRow(Creation(it, None, n, ls))] /\ it = item
    <2>1. bom'[item][n].present /\ bom'[item][n].active
      BY <1>5 DEF BomTypeOK, NewRow
    <2>2. \A w \in Versions \ {n} : bom'[item][w] = bom[item][w]
      BY <1>5 DEF BomTypeOK
    <2> QED
      BY <1>1, <1>2, <1>3, <2>1, <2>2, SuccessorCreated
  <1>6. \/ bom' = bom
        \/ bom' = [bom EXCEPT ![it][n] = NewRow(Creation(it, None, n, ls))]
    BY DEF CreateGiven
  <1>7. it # item => bom'[item] = bom[item]
    BY <1>6 DEF BomTypeOK
  <1> QED
    BY <1>4, <1>5, <1>6, <1>7

LEMMA SuccessorUpdate ==
    ASSUME BomTypeOK, LatestHasSuccessor, NEW r \in BomRequests,
           DeleteLines(r) \/ InsertLines(r) \/ UpdateRow(r)
    PROVE  LatestHasSuccessor'
  <1> SUFFICES ASSUME NEW item \in BomItems, NEW v \in Versions,
                      Ordinary(item)', Highest(item, v)'
               PROVE  bom'[item][v].active \/ Successor(item, v)'
    BY DEF LatestHasSuccessor
  <1> DEFINE it == bomReq[r].item
             n  == bomReq[r].version
  <1>1. it \in BomItems /\ n \in Versions /\ bomReq[r].pc \in {"delete", "insert", "update"}
    BY DEF BomTypeOK, Working, DeleteLines, InsertLines, UpdateRow
  <1>2. /\ \A q \in BomRequests \ {r} : bomReq'[q] = bomReq[q]
        /\ bomReq'[r].item = it
        /\ bomReq'[r].style = bomReq[r].style /\ bomReq'[r].active = bomReq[r].active
    BY DEF BomTypeOK, BomRequest, DeleteLines, InsertLines, UpdateRow, BomAnswer, BomGoto
  <1>3. Ordinary(item)
    BY <1>1, <1>2 DEF Ordinary
  <1>4. \A w \in Versions : it # item \/ w # n => bom'[item][w] = bom[item][w]
    BY <1>1 DEF BomTypeOK, DeleteLines, InsertLines, UpdateRow, SetLines
  <1>5. it = item => /\ bom'[item][n].present = bom[item][n].present
                     /\ bom[item][n].active => bom'[item][n].active
    <2>1. bom[it][n] \in BomRow
      BY <1>1 DEF BomTypeOK
    <2>2. CASE DeleteLines(r) \/ InsertLines(r)
      <3>1. PICK ls : bom' = [bom EXCEPT ![it][n].lines = ls]
        BY <2>2 DEF DeleteLines, InsertLines, SetLines
      <3>2. bom'[it][n] = [bom[it][n] EXCEPT !.lines = ls]
        BY <1>1, <3>1 DEF BomTypeOK
      <3> QED
        BY <2>1, <3>2 DEF BomRow
    <2>3. CASE UpdateRow(r)
      <3>1. it = item => bomReq[r].active # FALSE
        BY <1>3 DEF Ordinary
      <3>2. bomReq[r].active \in BOOLEAN \cup {None}
        BY DEF BomTypeOK, BomRequest
      <3>3. bom'[it][n] = [bom[it][n] EXCEPT !.active =
                             IF bomReq[r].active = None THEN @ ELSE bomReq[r].active]
        BY <1>1, <2>3 DEF BomTypeOK, UpdateRow
      <3> QED
        BY <2>1, <3>1, <3>2, <3>3 DEF BomRow
    <2> QED
      BY <2>2, <2>3
  <1>6. /\ \A w \in Versions : bom'[item][w].present = bom[item][w].present
        /\ bom[item][v].active => bom'[item][v].active
    BY <1>4, <1>5
  <1> HIDE DEF it, n
  <1> QED
    BY <1>1, <1>2, <1>3, <1>6, SuccessorKept

LEMMA SuccessorFindBom ==
    ASSUME BomTypeOK, LatestHasSuccessor, NEW r \in BomRequests, NEW it \in BomItems,
           NEW n \in Versions, NEW ls \in {None} \cup LineChoices,
           NEW a \in BOOLEAN \cup {None}, FindBom(r, it, n, ls, a)
    PROVE  LatestHasSuccessor'
  <1> SUFFICES ASSUME NEW item \in BomItems, NEW v \in Versions,
                      Ordinary(item)', Highest(item, v)'
               PROVE  bom'[item][v].active \/ Successor(item, v)'
    BY DEF LatestHasSuccessor
  <1>1. /\ \A q \in BomRequests \ {r} : bomReq'[q] = bomReq[q]
        /\ bomReq[r] = BomIdle /\ bom' = bom
    BY DEF FindBom, MayAsk, BomTypeOK
  <1>2. bomReq[r].item # item
    BY <1>1, BomsAssumption DEF BomIdle
  <1>3. Ordinary(item)
    BY <1>1, <1>2 DEF Ordinary
  <1> QED
    BY <1>1, <1>2, <1>3, SuccessorKept

LEMMA SuccessorBomFail ==
    ASSUME BomTypeOK, LatestHasSuccessor, NEW r \in BomRequests, BomFail(r)
    PROVE  LatestHasSuccessor'
  <1> SUFFICES ASSUME NEW item \in BomItems, NEW v \in Versions,
                      Ordinary(item)', Highest(item, v)'
               PROVE  bom'[item][v].active \/ Successor(item, v)'
    BY DEF LatestHasSuccessor
  <1>1. /\ \A q \in BomRequests \ {r} : bomReq'[q] = bomReq[q]
        /\ bomReq'[r].pc = "failed" /\ bomReq'[r].item = bomReq[r].item /\ bom' = bom
    BY DEF BomFail, BomAnswer, BomTypeOK, BomRequest
  <1>2. bomReq[r].item # item
    BY <1>1 DEF Ordinary
  <1>3. Ordinary(item)
    BY <1>1, <1>2 DEF Ordinary
  <1> QED
    BY <1>1, <1>2, <1>3, SuccessorKept

\* The latest version of an item on which every request ended well is active,
\* whatever the interleaving of creations and updates by the two services.
THEOREM LatestStaysActive == BomSpec => []LatestIsActive
<1>1. BomTypeOK /\ LatestHasSuccessor /\ [BomNext]_bomVars => LatestHasSuccessor'
  <2>1. CASE UNCHANGED bomVars
    <3>1. bom' = bom /\ bomReq' = bomReq
      BY <2>1 DEF bomVars
    <3>2. \A item \in BomItems : Ordinary(item)' = Ordinary(item)
      BY <3>1 DEF Ordinary
    <3>3. \A item \in BomItems, v \in Versions :
            Highest(item, v)' = Highest(item, v) /\ Successor(item, v)' = Successor(item, v)
      BY <3>1 DEF Highest, Successor
    <3> QED
      BY <3>1, <3>2, <3>3 DEF LatestHasSuccessor
  <2> QED
    BY <2>1, SuccessorDeactivate, SuccessorReadLatest, SuccessorCreateVersion,
       SuccessorCreateGiven, SuccessorUpdate, SuccessorFindBom, SuccessorBomFail
    DEF BomNext, BomStep
<1>2. BomTypeOK /\ LatestHasSuccessor => LatestIsActive
  BY DEF LatestHasSuccessor, LatestIsActive, Successor, Working
<1> QED
  BY <1>1, <1>2, SuccessorInit, BomTypeCorrect, PTL DEF BomSpec

-----------------------------------------------------------------------------
(* The runs over the bills.                                                *)

\* To the bills a planning run is a stuttering step: what holds of Boms holds here.
LEMMA RunsKeepBoms == MrpSpec => BomSpec
  <1>1. MrpInit => BomInit
    BY DEF MrpInit
  <1>2. [MrpNext]_mrpVars => [BomNext]_bomVars
    BY DEF MrpNext, RunStep, CreateRun, LoadAndPlan, CompleteEmpty, AnswerEmpty, SaveLines,
           CountRequisitions, SaveRequisitions, Complete, CompleteUnheard, Answer, Throw, MarkFailed,
           LoseRun,
           ApproveRequisitions, mrpVars, bomVars
  <1> QED
    BY <1>1, <1>2, PTL DEF MrpSpec, BomSpec

ItemsOf(x) == {p.item : p \in {q \in prs : q.run = x}}

Whole(x) ==
    /\ run[x].lines = run[x].plan
    /\ ItemsOf(x) = run[x].short

\* Before its requisitions are inserted a run has none.
Early == {"idle", "load", "empty", "reread", "lines", "count", "requisitions"}

\* What a run has written, by the step it stands at.
RunSound(x) ==
    /\ run[x].pc \in Early => \A p \in prs : p.run # x
    /\ run[x].pc \in {"idle", "load"} => run[x].lines = {}
    /\ run[x].pc = "empty" =>
         run[x].demand = {} /\ run[x].plan = {} /\ run[x].short = {} /\ run[x].lines = {}
    /\ run[x].pc = "reread" => run[x].demand = {}
    /\ run[x].pc \in {"count", "requisitions", "complete"} => run[x].lines = run[x].plan
    /\ run[x].pc = "complete" => ItemsOf(x) = run[x].short
    /\ run[x].status = "COMPLETED" =>
         /\ Whole(x)
         /\ run[x].pc \in {"reread", "catch", "unheard", "answer", "done", "lost"}
         /\ run[x].demand # {} => run[x].pc \in {"unheard", "answer", "done", "lost"}

\* Numbers never exceed the requisitions there are, so that a number that was
\* counted is free until another run inserts; that run overlaps.
NumbersSound ==
    /\ IsFiniteSet(prs)
    /\ \A p \in prs : p.number <= Cardinality(prs)
    /\ \A x \in Runs : Counted(x) =>
         /\ run[x].seq \in 1..(Cardinality(prs) + 1)
         /\ \A z \in Runs \ {x} : Counted(z) => run[x].overlaps /\ run[z].overlaps
         /\ \A p \in prs : p.number >= run[x].seq => run[x].overlaps /\ run[p.run].overlaps
    /\ NumbersDistinct

RunsTyped ==
    /\ run \in [Runs -> Run]
    /\ prs \subseteq Requisition
    /\ \A p, q \in prs : (p.run = q.run /\ p.item = q.item) => p = q

RunsInv ==
    /\ RunsTyped
    /\ \A x \in Runs : RunSound(x)
    /\ NumbersSound

LEMMA NoRunType == NoRun \in Run
  BY DEF NoRun, Run

LEMMA InitRuns == MrpInit => RunsInv
  <1> SUFFICES ASSUME MrpInit PROVE RunsInv
    OBVIOUS
  <1>1. RunsTyped
    BY NoRunType DEF MrpInit, RunsTyped
  <1>2. \A x \in Runs : RunSound(x)
    BY RunsAssumption DEF MrpInit, NoRun, RunSound, Early
  <1>3. NumbersSound
    BY FS_EmptySet DEF MrpInit, NoRun, NumbersSound, NumbersDistinct, Counted
  <1> QED
    BY <1>1, <1>2, <1>3 DEF RunsInv

\* explodeBom() of no demand finds no material, at any depth.
LEMMA NothingDemanded ==
    ASSUME NEW map \in BomMaps
    PROVE  Materials(map, {}) = {}
  <1> DEFINE L == Level(map, {})
             Next0(f) == [n \in 0..MaxDepth |->
                            IF n = 0 THEN {} ELSE Children(map, f[n - 1]) \cap DOMAIN map]
             none == [n \in 0..MaxDepth |-> {}]
  <1>1. Children(map, {}) = {}
    BY DEF Children
  <1>2. none = Next0(none)
    <2>1. ASSUME NEW n \in 0..MaxDepth, n # 0 PROVE none[n - 1] = {}
      BY <2>1, RunsAssumption
    <2> QED
      BY <1>1, <2>1
  <1>3. L = Next0(L)
    BY <1>2 DEF Level
  <1> DEFINE T == {n \in Nat : n \in 0..MaxDepth => L[n] = {}}
  <1> HIDE DEF L
  <1>4. 0 \in T
    BY <1>3, RunsAssumption
  <1>5. ASSUME NEW n \in T PROVE n + 1 \in T
    <2>1. ASSUME n + 1 \in 0..MaxDepth PROVE L[n + 1] = {}
      <3>1. n \in 0..MaxDepth /\ (n + 1) - 1 = n /\ n + 1 # 0
        BY <2>1, RunsAssumption
      <3>2. L[n] = {}
        BY <3>1
      <3> QED
        BY <1>1, <1>3, <2>1, <3>1, <3>2
    <2> QED
      BY <2>1
  <1>6. T = Nat
    <2> HIDE DEF T
    <2>1. T \subseteq Nat
      BY DEF T
    <2> QED
      BY <1>4, <1>5, <2>1, SetInduction
  <1>7. \A n \in 0..(MaxDepth - 1) : Children(map, L[n]) = {}
    <2> TAKE n \in 0..(MaxDepth - 1)
    <2>1. n \in 0..MaxDepth /\ n \in T
      BY <1>6, RunsAssumption
    <2> QED
      BY <1>1, <2>1
  <1> QED
    BY <1>7 DEF Materials, L

\* A step of one run that leaves the requisitions alone and counts nothing.
LEMMA RunMoves ==
    ASSUME RunsInv, NEW x \in Runs, NEW q \in Run,
           run' = [run EXCEPT ![x] = q], prs' = prs,
           q.pc # "requisitions", q.overlaps = run[x].overlaps,
           q.pc \in Early => run[x].pc \in Early,
           q.pc \in {"idle", "load"} => q.lines = {},
           q.pc = "empty" => q.demand = {} /\ q.plan = {} /\ q.short = {} /\ q.lines = {},
           q.pc = "reread" => q.demand = {},
           q.pc \in {"count", "complete"} => q.lines = q.plan,
           q.pc = "complete" => ItemsOf(x) = q.short,
           q.status = "COMPLETED" =>
             /\ q.lines = q.plan /\ ItemsOf(x) = q.short
             /\ q.pc \in {"reread", "catch", "unheard", "answer", "done", "lost"}
             /\ q.demand # {} => q.pc \in {"unheard", "answer", "done", "lost"}
    PROVE  RunsInv'
  <1>1. run'[x] = q /\ \A y \in Runs \ {x} : run'[y] = run[y]
    BY DEF RunsInv, RunsTyped
  <1>2. RunsTyped'
    BY DEF RunsInv, RunsTyped
  <1>3. \A y \in Runs : ItemsOf(y)' = ItemsOf(y)
    BY DEF ItemsOf
  <1>4. RunSound(x)'
    <2>1. q.pc \in Early => \A p \in prs : p.run # x
      BY DEF RunsInv, RunSound
    <2> QED
      BY <1>1, <1>3, <2>1 DEF RunSound, Whole
  <1>5. \A y \in Runs \ {x} : RunSound(y)'
    BY <1>1, <1>3 DEF RunsInv, RunSound, Whole
  <1>6. /\ \A y \in Runs : run'[y].overlaps = run[y].overlaps
        /\ \A y \in Runs : Counted(y)' => Counted(y) /\ run'[y] = run[y]
    BY <1>1 DEF Counted
  <1>7. \A p \in prs : p.run \in Runs
    BY DEF RunsInv, RunsTyped, Requisition
  <1>8. NumbersSound'
    BY <1>6, <1>7 DEF RunsInv, NumbersSound, NumbersDistinct
  <1> QED
    BY <1>2, <1>4, <1>5, <1>8 DEF RunsInv

LEMMA MaterialsType ==
    ASSUME BomTypeOK, NEW map \in BomMaps, NEW demand
    PROVE  Materials(map, demand) \subseteq Components
  <1>1. ASSUME NEW items PROVE Children(map, items) \subseteq Components
    <2>1. \A it \in items \cap DOMAIN map : it \in BomItems /\ map[it] \in Versions
      BY DEF BomMaps
    <2>2. \A it \in items \cap DOMAIN map : bom[it][map[it]].lines \subseteq Components
      BY <2>1 DEF BomTypeOK, BomRow
    <2> QED
      BY <2>2 DEF Children
  <1> QED
    BY <1>1 DEF Materials

\* The steps of runMrp() that write the run or its lines only.
LEMMA PlainSteps ==
    ASSUME BomTypeOK, RunsInv, NEW x \in Runs,
           \/ CreateRun(x) \/ LoadAndPlan(x) \/ CompleteEmpty(x) \/ AnswerEmpty(x)
           \/ SaveLines(x) \/ Complete(x) \/ CompleteUnheard(x) \/ Answer(x) \/ Throw(x)
           \/ MarkFailed(x) \/ LoseRun(x)
    PROVE  RunsInv'
  <1>1. run[x] \in Run /\ RunSound(x)
    BY DEF RunsInv, RunsTyped
  <1>2. CASE LoadAndPlan(x)
    <2>1. PICK demand \in Demands, map \in BomMaps :
            \E short \in SUBSET Materials(map, demand) :
              run' = [run EXCEPT ![x] =
                        [@ EXCEPT !.pc = IF demand = {} THEN "empty" ELSE "lines",
                                  !.demand = demand, !.plan = Materials(map, demand),
                                  !.short = short]]
      BY <1>2 DEF LoadAndPlan
    <2>2. PICK short \in SUBSET Materials(map, demand) :
            run' = [run EXCEPT ![x] =
                     [@ EXCEPT !.pc = IF demand = {} THEN "empty" ELSE "lines",
                               !.demand = demand, !.plan = Materials(map, demand),
                               !.short = short]]
      BY <2>1
    <2> DEFINE plan == Materials(map, demand)
               label == IF demand = {} THEN "empty" ELSE "lines"
               q == [run[x] EXCEPT !.pc = label, !.demand = demand, !.plan = plan, !.short = short]
    <2>3. plan \subseteq Components /\ short \subseteq plan /\ demand \subseteq BomItems
      BY MaterialsType, RunsAssumption
    <2>4. demand = {} => plan = {} /\ short = {}
      BY NothingDemanded, <2>3
    <2>5. label \in {"empty", "lines"} /\ (label = "empty" => demand = {})
      OBVIOUS
    <2> HIDE DEF plan, label
    <2>6. /\ q \in Run /\ q.pc = label /\ q.demand = demand /\ q.plan = plan /\ q.short = short
          /\ q.lines = run[x].lines /\ q.status = run[x].status /\ q.overlaps = run[x].overlaps
      BY <1>1, <2>3, <2>5 DEF Run
    <2>7. run' = [run EXCEPT ![x] = q]
      BY <2>2 DEF plan, label
    <2>8. run[x].pc = "load" /\ prs' = prs /\ run[x].lines = {} /\ run[x].status # "COMPLETED"
      BY <1>1, <1>2 DEF LoadAndPlan, RunSound
    <2> HIDE DEF q
    <2> QED
      BY <2>4, <2>5, <2>6, <2>7, <2>8, RunMoves DEF Early
  <1>3. CASE SaveLines(x)
    <2> DEFINE q == [run[x] EXCEPT !.pc = "count", !.lines = run[x].plan]
    <2>1. /\ q \in Run /\ q.pc = "count" /\ q.lines = q.plan
          /\ q.status = run[x].status /\ q.overlaps = run[x].overlaps
      BY <1>1 DEF Run
    <2>2. run' = [run EXCEPT ![x] = q] /\ prs' = prs /\ run[x].pc = "lines"
      BY <1>1, <1>3 DEF SaveLines, Run
    <2>3. run[x].status # "COMPLETED"
      BY <1>1, <2>2 DEF RunSound
    <2> HIDE DEF q
    <2> QED
      BY <2>1, <2>2, <2>3, RunMoves DEF Early
  <1>4. ASSUME NEW label \in {"load", "reread", "unheard", "answer", "catch", "thrown", "done",
                             "lost"},
               NEW status \in {"RUNNING", "COMPLETED", "FAILED", None},
               run' = [run EXCEPT ![x] = [run[x] EXCEPT !.pc = label, !.status = status]],
               prs' = prs,
               label = "load" => run[x].pc = "idle" /\ status = "RUNNING",
               label = "reread" => run[x].pc = "empty",
               status = "COMPLETED" =>
                 /\ Whole(x)
                 /\ label \in {"reread", "catch", "unheard", "answer", "done", "lost"}
                 /\ run[x].demand # {} => label \in {"unheard", "answer", "done", "lost"}
        PROVE  RunsInv'
    <2> DEFINE q == [run[x] EXCEPT !.pc = label, !.status = status]
    <2>1. /\ q \in Run /\ q.pc = label /\ q.status = status /\ q.demand = run[x].demand
          /\ q.plan = run[x].plan /\ q.short = run[x].short /\ q.lines = run[x].lines
          /\ q.overlaps = run[x].overlaps
      BY <1>1 DEF Run
    <2>2. /\ label \in Early => run[x].pc \in Early
          /\ label = "load" => run[x].lines = {}
          /\ label = "reread" => run[x].demand = {}
      BY <1>1, <1>4 DEF Early, RunSound
    <2> HIDE DEF q
    <2> QED
      BY <1>4, <2>1, <2>2, RunMoves DEF q, Whole
  <1>5. CASE CreateRun(x)
    <2>1. run' = [run EXCEPT ![x] = [run[x] EXCEPT !.pc = "load", !.status = "RUNNING"]]
      BY <1>1, <1>5 DEF CreateRun, Run
    <2> QED
      BY <1>4, <1>5, <2>1 DEF CreateRun
  <1>6. CASE CompleteEmpty(x) \/ Complete(x) \/ CompleteUnheard(x)
    <2>1. PICK label \in {"reread", "unheard", "answer"} :
             /\ run' = [run EXCEPT ![x] = [run[x] EXCEPT !.pc = label, !.status = "COMPLETED"]]
             /\ run[x].pc = IF label = "reread" THEN "empty" ELSE "complete"
      BY <1>1, <1>6 DEF CompleteEmpty, Complete, CompleteUnheard, Run
    <2>2. Whole(x)
      <3>1. CASE run[x].pc = "empty"
        BY <1>1, <3>1 DEF RunSound, Whole, ItemsOf, Early
      <3>2. CASE run[x].pc = "complete"
        BY <1>1, <3>2 DEF RunSound, Whole
      <3> QED
        BY <2>1, <3>1, <3>2
    <2>3. label = "reread" => run[x].pc = "empty" /\ run[x].demand = {}
      BY <1>1, <2>1 DEF RunSound
    <2>4. prs' = prs
      BY <1>6 DEF CompleteEmpty, Complete, CompleteUnheard
    <2> QED
      BY <1>4, <2>1, <2>2, <2>3, <2>4
  <1>7. CASE MarkFailed(x)
    <2>1. run' = [run EXCEPT ![x] = [run[x] EXCEPT !.pc = "thrown", !.status = "FAILED"]]
      BY <1>1, <1>7 DEF MarkFailed, Run
    <2> QED
      BY <1>4, <1>7, <2>1 DEF MarkFailed
  <1>8. CASE AnswerEmpty(x) \/ Answer(x) \/ Throw(x) \/ LoseRun(x)
    <2>1. PICK label \in {"done", "catch", "lost"} : run' = [run EXCEPT ![x].pc = label]
      BY <1>8 DEF AnswerEmpty, Answer, Throw, LoseRun, RunGoto
    <2>2. run' = [run EXCEPT ![x] = [run[x] EXCEPT !.pc = label, !.status = run[x].status]]
      BY <1>1, <2>1 DEF Run
    <2>3. prs' = prs /\ run[x].status \in {"RUNNING", "COMPLETED", "FAILED", None}
      BY <1>1, <1>8 DEF AnswerEmpty, Answer, Throw, LoseRun, Run
    <2>4. run[x].status = "COMPLETED" => Whole(x)
      BY <1>1 DEF RunSound
    <2>5. run[x].status = "COMPLETED" /\ run[x].demand # {} => label \in {"done", "lost"}
      <3>1. ASSUME run[x].status = "COMPLETED", run[x].demand # {} PROVE label # "catch"
        <4>1. run[x].pc \in {"unheard", "answer", "done", "lost"}
          BY <1>1, <3>1 DEF RunSound
        <4>2. ~Throw(x)
          BY <4>1 DEF Throw
        <4>3. \E other \in {"done", "lost"} : run' = [run EXCEPT ![x].pc = other]
          BY <1>8, <4>2 DEF AnswerEmpty, Answer, LoseRun, RunGoto
        <4>4. run'[x].pc = label /\ run'[x].pc \in {"done", "lost"}
          BY <1>1, <2>1, <4>3 DEF RunsInv, RunsTyped, Run
        <4> QED
          BY <4>4
      <3> QED
        BY <3>1
    <2> QED
      BY <1>4, <2>2, <2>3, <2>4, <2>5
  <1> QED
    BY <1>2, <1>3, <1>5, <1>6, <1>7, <1>8

\* nextPrNumber(): the number is free now, and whoever counts meanwhile is
\* marked on both sides.
LEMMA CountStep ==
    ASSUME RunsInv, NEW x \in Runs, CountRequisitions(x)
    PROVE  RunsInv'
  <1>1. run[x] \in Run /\ RunSound(x) /\ run[x].pc = "count" /\ prs' = prs
    BY DEF RunsInv, RunsTyped, CountRequisitions
  <1> DEFINE other == \E z \in Runs \ {x} : Counted(z)
             q == [run[x] EXCEPT !.pc = "requisitions", !.seq = NextNumber, !.overlaps = other]
  <1>2. NextNumber \in Nat \ {0} /\ NextNumber = Cardinality(prs) + 1 /\ Cardinality(prs) \in Nat
    BY FS_CardinalityType DEF RunsInv, NumbersSound, NextNumber
  <1>3. other \in BOOLEAN
    OBVIOUS
  <1> HIDE DEF other
  <1>4. /\ q \in Run /\ q.pc = "requisitions" /\ q.seq = Cardinality(prs) + 1
        /\ q.overlaps = other /\ q.status = run[x].status
        /\ q.lines = run[x].lines /\ q.plan = run[x].plan /\ q.short = run[x].short
    BY <1>1, <1>2, <1>3 DEF Run
  <1>5. run'[x] = q
    BY DEF CountRequisitions, other
  <1> HIDE DEF q
  <1>6. ASSUME NEW y \in Runs \ {x}
        PROVE  /\ run'[y] \in Run /\ run'[y].pc = run[y].pc /\ run'[y].status = run[y].status
               /\ run'[y].demand = run[y].demand /\ run'[y].plan = run[y].plan
               /\ run'[y].short = run[y].short /\ run'[y].lines = run[y].lines
               /\ run'[y].seq = run[y].seq
               /\ run[y].overlaps => run'[y].overlaps
               /\ Counted(y) => run'[y].overlaps
    <2>1. run[y] \in Run
      BY DEF RunsInv, RunsTyped
    <2>2. run'[y] = IF Counted(y) THEN [run[y] EXCEPT !.overlaps = TRUE] ELSE run[y]
      BY DEF CountRequisitions
    <2> QED
      BY <2>1, <2>2 DEF Run
  <1>7. RunsTyped'
    <2>1. run' \in [Runs -> Run]
      <3>1. run' = [y \in Runs |-> run'[y]]
        BY DEF CountRequisitions
      <3>2. \A y \in Runs : run'[y] \in Run
        BY <1>4, <1>5, <1>6
      <3> QED
        BY <3>1, <3>2
    <2> QED
      BY <1>1, <2>1 DEF RunsInv, RunsTyped
  <1>8. \A y \in Runs : ItemsOf(y)' = ItemsOf(y)
    BY <1>1 DEF ItemsOf
  <1>9. RunSound(x)'
    BY <1>1, <1>4, <1>5 DEF RunSound, Early
  <1>10. \A y \in Runs \ {x} : RunSound(y)'
    BY <1>1, <1>6, <1>8 DEF RunsInv, RunSound, Whole
  <1>11. NumbersSound'
    <2>1. \A p \in prs : p.number \in Nat /\ p.number <= Cardinality(prs) /\ p.run \in Runs
      BY DEF RunsInv, NumbersSound, RunsTyped, Requisition
    <2>2. \A p \in prs : run[p.run].overlaps => run'[p.run].overlaps
      <3>1. \A p \in prs : p.run # x
        BY <1>1 DEF RunSound, Early
      <3> QED
        BY <1>6, <2>1, <3>1
    <2>3. ASSUME NEW y \in Runs, Counted(y)'
          PROVE  /\ run'[y].seq \in 1..(Cardinality(prs) + 1)
                 /\ \A z \in Runs \ {y} : Counted(z)' => run'[y].overlaps /\ run'[z].overlaps
                 /\ \A p \in prs : p.number >= run'[y].seq =>
                                     run'[y].overlaps /\ run'[p.run].overlaps
      <3>1. CASE y = x
        <4>1. \A z \in Runs \ {x} : Counted(z)' => Counted(z)
          BY <1>6 DEF Counted
        <4>2. \A z \in Runs \ {x} : Counted(z) => other /\ run'[z].overlaps
          BY <1>6 DEF other
        <4> QED
          BY <3>1, <1>2, <1>4, <1>5, <2>1, <4>1, <4>2
      <3>2. CASE y # x
        <4>1. Counted(y) /\ run'[y].overlaps /\ run'[y].seq = run[y].seq
          BY <1>6, <2>3, <3>2 DEF Counted
        <4>2. other
          BY <3>2, <4>1 DEF other
        <4>3. \A z \in Runs \ {y} : Counted(z)' => run'[z].overlaps
          BY <1>4, <1>5, <1>6, <4>2 DEF Counted
        <4>4. \A p \in prs : p.number >= run[y].seq => run[p.run].overlaps
          BY <4>1 DEF RunsInv, NumbersSound
        <4>5. run[y].seq \in 1..(Cardinality(prs) + 1)
          BY <4>1 DEF RunsInv, NumbersSound
        <4> QED
          BY <4>1, <4>3, <4>4, <4>5, <2>2
      <3> QED
        BY <3>1, <3>2
    <2>4. NumbersDistinct'
      BY <1>1, <2>2 DEF RunsInv, NumbersSound, NumbersDistinct
    <2> QED
      BY <1>1, <2>3, <2>4 DEF RunsInv, NumbersSound
  <1> QED
    BY <1>7, <1>9, <1>10, <1>11 DEF RunsInv

\* approvePrs() rewrites the status of requisitions, one for one.
LEMMA ApproveStep ==
    ASSUME RunsInv, NEW named \in SUBSET prs, ApproveRequisitions(named)
    PROVE  RunsInv'
  <1> DEFINE Ap(p) == IF p \in named /\ p.status = "OPEN" THEN [p EXCEPT !.status = "APPROVED"] ELSE p
  <1>1. ASSUME NEW p \in prs
        PROVE  /\ Ap(p) \in Requisition /\ Ap(p).run = p.run /\ Ap(p).item = p.item
               /\ Ap(p).number = p.number
    BY DEF RunsInv, RunsTyped, Requisition
  <1>2. prs' = {Ap(p) : p \in prs} /\ run' = run
    BY DEF ApproveRequisitions
  <1> HIDE DEF Ap
  <1>3. \A p, q \in prs : Ap(p) = Ap(q) => p = q
    BY <1>1 DEF RunsInv, RunsTyped
  <1>4. IsFiniteSet(prs') /\ Cardinality(prs') = Cardinality(prs)
    <2> DEFINE f == [p \in prs |-> Ap(p)]
    <2>1. f \in Bijection(prs, prs')
      BY <1>2, <1>3 DEF Bijection, Injection, Surjection, IsInjective
    <2>2. ExistsBijection(prs, prs')
      BY <2>1 DEF ExistsBijection
    <2> QED
      BY <2>2, FS_Bijection DEF RunsInv, NumbersSound
  <1>5. RunsTyped'
    BY <1>1, <1>2 DEF RunsInv, RunsTyped
  <1>6. \A y \in Runs : ItemsOf(y)' = ItemsOf(y)
    BY <1>1, <1>2 DEF ItemsOf
  <1>7. \A y \in Runs : RunSound(y)'
    BY <1>1, <1>2, <1>6 DEF RunsInv, RunSound, Whole
  <1>8. NumbersDistinct'
    <2> SUFFICES ASSUME NEW u \in prs', NEW v \in prs', u # v, u.number = v.number
                 PROVE  u.run # v.run /\ run[u.run].overlaps /\ run[v.run].overlaps
      BY <1>2 DEF NumbersDistinct
    <2>1. PICK p \in prs, q \in prs : u = Ap(p) /\ v = Ap(q)
      BY <1>2
    <2>2. p # q /\ p.number = q.number
      BY <1>1, <2>1
    <2>3. p.run # q.run /\ run[p.run].overlaps /\ run[q.run].overlaps
      BY <2>2 DEF RunsInv, NumbersSound, NumbersDistinct
    <2> QED
      BY <1>1, <2>1, <2>3
  <1>9. NumbersSound'
    <2>1. ASSUME NEW u \in prs'
          PROVE  /\ u.number <= Cardinality(prs)
                 /\ \A x \in Runs : Counted(x) /\ u.number >= run[x].seq =>
                                     run[x].overlaps /\ run[u.run].overlaps
      <3>1. PICK p \in prs : u = Ap(p)
        BY <1>2
      <3>2. u.number = p.number /\ u.run = p.run
        BY <1>1, <3>1
      <3> QED
        BY <3>2 DEF RunsInv, NumbersSound
    <2>2. \A x \in Runs : Counted(x)' <=> Counted(x)
      BY <1>2 DEF Counted
    <2>3. \A x \in Runs : Counted(x) =>
            /\ run[x].seq \in 1..(Cardinality(prs) + 1)
            /\ \A z \in Runs \ {x} : Counted(z) => run[x].overlaps /\ run[z].overlaps
      BY DEF RunsInv, NumbersSound
    <2> QED
      BY <1>2, <1>4, <1>8, <2>1, <2>2, <2>3 DEF NumbersSound
  <1> QED
    BY <1>5, <1>7, <1>9 DEF RunsInv

\* The requisitions of a run: one for each short material, numbered from seq on.
LEMMA NumberedFacts ==
    ASSUME NEW x \in Runs, run[x] \in Run, run[x].seq \in Nat \ {0},
           NEW order \in SetToSeqs(run[x].short)
    PROVE  LET k == Cardinality(run[x].short)
               N == Numbered(x, order)
           IN  /\ k \in Nat /\ N \subseteq Requisition
               /\ IsFiniteSet(N) /\ Cardinality(N) = k
               /\ \A p \in N : p.run = x /\ p.number \in run[x].seq..(run[x].seq + k - 1)
               /\ \A p, q \in N : p.number = q.number => p = q
               /\ \A p, q \in N : p.item = q.item => p = q
               /\ {p.item : p \in N} = run[x].short
  <1> DEFINE S == run[x].short
             k == Cardinality(S)
             D == 1..k
             N == Numbered(x, order)
             At(i) == [run |-> x, item |-> order[i], number |-> run[x].seq + i - 1,
                       status |-> "OPEN"]
  <1>1. S \subseteq Components /\ IsFiniteSet(S)
    BY RunsAssumption, FS_Subset DEF Run
  <1>2. k \in Nat
    BY <1>1, FS_CardinalityType
  <1>3. order \in [D -> S] /\ \A i, j \in D : i # j => order[i] # order[j]
    BY DEF SetToSeqs
  <1> HIDE DEF S, k
  <1>4. IsFiniteSet(D) /\ Cardinality(D) = k
    BY <1>2, FS_Interval
  <1>5. DOMAIN order = D
    BY <1>3
  <1>6. N = {At(i) : i \in D}
    BY <1>5 DEF Numbered
  <1>7. \A i \in D : /\ At(i).run = x /\ At(i).item = order[i] /\ At(i) \in Requisition
                     /\ At(i).number = run[x].seq + i - 1
                     /\ At(i).number \in run[x].seq..(run[x].seq + k - 1)
    <2> SUFFICES ASSUME NEW i \in D
                 PROVE  /\ run[x].seq + i - 1 \in run[x].seq..(run[x].seq + k - 1)
                        /\ At(i) \in Requisition
      OBVIOUS
    <2>1. /\ run[x].seq + i - 1 \in run[x].seq..(run[x].seq + k - 1)
          /\ run[x].seq + i - 1 \in Nat \ {0}
      <3>1. \A s \in Nat \ {0}, m \in Nat : \A j \in 1..m :
              s + j - 1 \in s..(s + m - 1) /\ s + j - 1 \in Nat \ {0}
        OBVIOUS
      <3> QED
        BY <1>2, <3>1
    <2>2. order[i] \in Components
      BY <1>1, <1>3
    <2> DEFINE n == run[x].seq + i - 1
    <2>3. n \in Nat \ {0}
      BY <2>1
    <2> HIDE DEF n
    <2>4. [run |-> x, item |-> order[i], number |-> n, status |-> "OPEN"] \in Requisition
      BY <2>2, <2>3 DEF Requisition
    <2> QED
      BY <2>1, <2>4 DEF n
  <1>8. \A i, j \in D : At(i).number = At(j).number => i = j
    BY <1>2
  <1>9. \A i, j \in D : At(i).item = At(j).item => i = j
    BY <1>3, <1>7
  <1> HIDE DEF At, N, D
  <1>10. IsFiniteSet(N) /\ Cardinality(N) = k
    <2> DEFINE f == [i \in D |-> At(i)]
    <2>1. f \in Bijection(D, N)
      BY <1>6, <1>8 DEF Bijection, Injection, Surjection, IsInjective
    <2>2. ExistsBijection(D, N)
      BY <2>1 DEF ExistsBijection
    <2> QED
      BY <1>4, <2>2, FS_Bijection
  <1>11. {p.item : p \in N} = S
    <2>1. order \in Injection(D, S)
      BY <1>3 DEF Injection, IsInjective
    <2>2. order \in Surjection(D, S)
      BY <1>1, <1>4, <2>1, FS_Injection DEF k
    <2>3. \A c \in S : \E i \in D : order[i] = c
      BY <2>2 DEF Surjection
    <2>4. \A i \in D : order[i] \in S
      BY <1>3
    <2> QED
      BY <1>6, <1>7, <2>3, <2>4
  <1>12. \A p, q \in N : p.number = q.number => p = q
    BY <1>6, <1>8
  <1>13. \A p, q \in N : p.item = q.item => p = q
    BY <1>6, <1>9
  <1>14. N \subseteq Requisition /\ \A p \in N : p.run = x
    BY <1>6, <1>7
  <1>15. \A p \in N : p.number \in run[x].seq..(run[x].seq + k - 1)
    BY <1>6, <1>7
  <1> QED
    BY <1>2, <1>10, <1>11, <1>12, <1>13, <1>14, <1>15 DEF N, k, S

\* createPrs(): the requisitions join, under numbers no run took that did not
\* overlap with this one.
LEMMA SaveStep ==
    ASSUME RunsInv, NEW x \in Runs, SaveRequisitions(x)
    PROVE  RunsInv'
  <1>1. /\ run[x] \in Run /\ RunSound(x) /\ run[x].pc = "requisitions" /\ Counted(x)
        /\ run[x].status # "COMPLETED"
    BY DEF RunsInv, RunsTyped, SaveRequisitions, RunSound, Counted
  <1> DEFINE C == Cardinality(prs)
             seq == run[x].seq
             k == Cardinality(run[x].short)
             q == [run[x] EXCEPT !.pc = "complete", !.seq = 0]
  <1>2. /\ IsFiniteSet(prs) /\ C \in Nat /\ seq \in 1..(C + 1)
        /\ \A z \in Runs \ {x} : Counted(z) => run[x].overlaps /\ run[z].overlaps
        /\ \A p \in prs : p.number >= seq => run[x].overlaps /\ run[p.run].overlaps
    BY <1>1, FS_CardinalityType DEF RunsInv, NumbersSound
  <1>3. PICK order \in SetToSeqs(run[x].short) : prs' = prs \cup Numbered(x, order)
    BY DEF SaveRequisitions
  <1> DEFINE N == Numbered(x, order)
  <1>4. /\ k \in Nat /\ N \subseteq Requisition /\ IsFiniteSet(N) /\ Cardinality(N) = k
        /\ \A p \in N : p.run = x /\ p.number \in seq..(seq + k - 1)
        /\ \A p, u \in N : p.number = u.number => p = u
        /\ \A p, u \in N : p.item = u.item => p = u
        /\ {p.item : p \in N} = run[x].short
    <2>1. seq \in Nat \ {0}
      BY <1>2
    <2> QED
      BY <1>1, <2>1, NumberedFacts
  <1>5. /\ q \in Run /\ q.pc = "complete" /\ q.status = run[x].status /\ q.lines = run[x].lines
        /\ q.plan = run[x].plan /\ q.short = run[x].short /\ q.overlaps = run[x].overlaps
    BY <1>1 DEF Run
  <1>6. run' = [run EXCEPT ![x] = q]
    BY <1>1 DEF SaveRequisitions, Run
  <1> HIDE DEF q, N, C, k
  <1>7. run'[x] = q /\ \A y \in Runs \ {x} : run'[y] = run[y]
    BY <1>6 DEF RunsInv, RunsTyped
  <1>8. prs' = prs \cup N
    BY <1>3 DEF N
  <1>9. \A p \in prs : p \in Requisition /\ p.run \in Runs \ {x} /\ p.number \in Nat
    BY <1>1 DEF RunsInv, RunsTyped, RunSound, Early, Requisition
  <1>10. RunsTyped'
    <2>1. \A p \in prs, u \in N : p.run # u.run
      BY <1>4, <1>9
    <2>2. \A p, u \in prs' : (p.run = u.run /\ p.item = u.item) => p = u
      BY <1>4, <1>8, <2>1 DEF RunsInv, RunsTyped
    <2>3. run' \in [Runs -> Run]
      BY <1>5, <1>6 DEF RunsInv, RunsTyped
    <2> QED
      BY <1>4, <1>8, <1>9, <2>2, <2>3 DEF RunsTyped
  <1>11. RunSound(x)'
    <2>1. ItemsOf(x)' = run[x].short
      <3>1. {p \in prs' : p.run = x} = N
        BY <1>4, <1>8, <1>9
      <3> QED
        BY <1>4, <3>1 DEF ItemsOf
    <2>2. run[x].lines = run[x].plan
      BY <1>1 DEF RunSound
    <2> QED
      BY <1>1, <1>5, <1>7, <2>1, <2>2 DEF RunSound, Early
  <1>12. ASSUME NEW y \in Runs \ {x} PROVE RunSound(y)'
    <2>1. {p \in prs' : p.run = y} = {p \in prs : p.run = y}
      BY <1>4, <1>8
    <2>2. ItemsOf(y)' = ItemsOf(y)
      BY <2>1 DEF ItemsOf
    <2>3. (\A p \in prs : p.run # y) => \A p \in prs' : p.run # y
      BY <1>4, <1>8
    <2>4. RunSound(y)
      BY DEF RunsInv
    <2> QED
      BY <1>7, <2>2, <2>3, <2>4 DEF RunSound, Whole
  <1>13. IsFiniteSet(prs') /\ Cardinality(prs') = C + k
    <2>1. prs \cap N = {}
      BY <1>4, <1>9
    <2>2. /\ IsFiniteSet(prs \cup N)
          /\ Cardinality(prs \cup N) = Cardinality(prs) + Cardinality(N) - Cardinality(prs \cap N)
      BY <1>2, <1>4, FS_Union
    <2>3. Cardinality(prs \cap N) = 0
      BY <2>1, FS_EmptySet
    <2> HIDE DEF C
    <2>4. Cardinality(prs \cup N) = C + k - 0
      BY <1>4, <2>2, <2>3 DEF C
    <2> QED
      BY <1>2, <1>4, <1>8, <2>2, <2>4
  <1>14. \A p \in prs' : p.number \in Nat /\ p.number <= C + k
    <2>1. \A p \in prs : p.number <= C
      BY DEF RunsInv, NumbersSound, C
    <2>2. \A p \in N : p.number \in Nat /\ p.number <= C + k
      BY <1>2, <1>4
    <2> QED
      BY <1>2, <1>4, <1>8, <1>9, <2>1, <2>2
  <1>15. \A y \in Runs : run'[y].overlaps = run[y].overlaps
    BY <1>5, <1>7
  <1>16. ASSUME NEW y \in Runs, Counted(y)'
         PROVE  /\ run'[y].seq \in 1..((C + k) + 1)
                /\ \A z \in Runs \ {y} : Counted(z)' => run'[y].overlaps /\ run'[z].overlaps
                /\ \A p \in prs' : p.number >= run'[y].seq =>
                                    run'[y].overlaps /\ run'[p.run].overlaps
    <2>1. y # x /\ Counted(y) /\ run'[y] = run[y]
      BY <1>5, <1>7, <1>16 DEF Counted
    <2>2. /\ run[y].seq \in 1..(C + 1)
          /\ \A z \in Runs \ {y} : Counted(z) => run[y].overlaps /\ run[z].overlaps
          /\ \A p \in prs : p.number >= run[y].seq => run[y].overlaps /\ run[p.run].overlaps
      BY <2>1 DEF RunsInv, NumbersSound, C
    <2>3. \A z \in Runs : Counted(z)' => Counted(z)
      BY <1>5, <1>7 DEF Counted
    <2>4. run[x].overlaps /\ run[y].overlaps
      BY <1>2, <2>1
    <2>5. run[y].seq \in 1..((C + k) + 1)
      BY <1>2, <1>4, <2>2
    <2>6. \A p \in prs' : p.number >= run[y].seq => run[p.run].overlaps
      BY <1>4, <1>8, <2>2, <2>4
    <2>7. \A p \in prs' : p.run \in Runs
      BY <1>4, <1>8, <1>9
    <2> QED
      BY <1>15, <2>1, <2>2, <2>3, <2>4, <2>5, <2>6, <2>7
  <1>17. NumbersDistinct'
    <2>1. ASSUME NEW p \in prs, NEW u \in N, p.number = u.number
          PROVE  p.run # u.run /\ run[p.run].overlaps /\ run[u.run].overlaps
      <3>1. p.number >= seq
        BY <1>2, <1>4, <2>1
      <3> QED
        BY <1>2, <1>4, <1>9, <3>1
    <2>2. \A p, u \in prs : (p # u /\ p.number = u.number) =>
             p.run # u.run /\ run[p.run].overlaps /\ run[u.run].overlaps
      BY DEF RunsInv, NumbersSound, NumbersDistinct
    <2>3. \A p, u \in prs' : (p # u /\ p.number = u.number) =>
             p.run # u.run /\ run[p.run].overlaps /\ run[u.run].overlaps
      BY <1>4, <1>8, <2>1, <2>2
    <2>4. \A p \in prs' : p.run \in Runs
      BY <1>4, <1>8, <1>9
    <2> QED
      BY <1>15, <2>3, <2>4 DEF NumbersDistinct
  <1>18. NumbersSound'
    BY <1>13, <1>14, <1>16, <1>17 DEF NumbersSound
  <1> QED
    BY <1>10, <1>11, <1>12, <1>18 DEF RunsInv

LEMMA RunsStep ==
    ASSUME BomTypeOK, RunsInv, [MrpNext]_mrpVars
    PROVE  RunsInv'
  <1>1. CASE UNCHANGED runVars
    <2>1. run' = run /\ prs' = prs
      BY <1>1 DEF runVars
    <2>2. \A x \in Runs : ItemsOf(x)' = ItemsOf(x)
      BY <2>1 DEF ItemsOf
    <2> QED
      BY <2>1, <2>2 DEF RunsInv, RunsTyped, RunSound, Whole, NumbersSound, NumbersDistinct, Counted
  <1>2. ASSUME NEW x \in Runs, RunStep(x) PROVE RunsInv'
    BY <1>2, PlainSteps, CountStep, SaveStep DEF RunStep
  <1> QED
    BY <1>1, <1>2, ApproveStep DEF MrpNext, mrpVars, runVars

\* The inductive invariant of the planning runs.
THEOREM RunsAreSound == MrpSpec => [](BomTypeOK /\ RunsInv)
  <1>1. MrpSpec => []BomTypeOK
    BY RunsKeepBoms, BomTypeCorrect, PTL
  <1>2. BomTypeOK /\ RunsInv /\ [MrpNext]_mrpVars => RunsInv'
    BY RunsStep
  <1> QED
    BY <1>1, <1>2, InitRuns, PTL DEF MrpSpec

\* Bills, runs and requisitions keep the shapes of the schema, and a run has at
\* most one requisition for each material.
THEOREM MrpTypeCorrect == MrpSpec => []MrpTypeOK
  <1>1. BomTypeOK /\ RunsInv => MrpTypeOK
    BY DEF RunsInv, RunsTyped, MrpTypeOK
  <1> QED
    BY <1>1, RunsAreSound, PTL

\* For any number of runs: two requisitions share a number only if their runs
\* were between their count and their insert at the same time.
THEOREM NumbersClashOnOverlapOnly == MrpSpec => []NumbersDistinct
  <1>1. RunsInv => NumbersDistinct
    BY DEF RunsInv, NumbersSound
  <1> QED
    BY <1>1, RunsAreSound, PTL

\* For any bills, demands and depth: a run is COMPLETED only with all the lines
\* and all the requisitions of its plan, whatever failed or ran beside it.
THEOREM CompletedRunsAreWhole == MrpSpec => []CompletedIsWhole
  <1>1. RunsInv => CompletedIsWhole
    BY DEF RunsInv, RunSound, Whole, ItemsOf, CompletedIsWhole
  <1> QED
    BY <1>1, RunsAreSound, PTL

\* No failure after the fact takes back a run that planned something, but for that
\* of the answer to its completion.
THEOREM CompletedStaysCompleted == MrpSpec => CompletedIsFinal
  <1>1. RunsInv /\ [MrpNext]_mrpVars =>
          [\A x \in Runs : (run[x].status = "COMPLETED" /\ run[x].demand # {}) =>
              run[x].pc = "unheard" \/ run'[x].status = "COMPLETED"]_mrpVars
    <2> SUFFICES ASSUME RunsInv, MrpNext, NEW x \in Runs,
                        run[x].status = "COMPLETED", run[x].demand # {},
                        run[x].pc # "unheard"
                 PROVE  run'[x].status = "COMPLETED"
      OBVIOUS
    <2>1. run[x] \in Run /\ run[x].pc \in {"answer", "done", "lost"}
      BY DEF RunsInv, RunsTyped, RunSound
    <2>2. CASE run' = run
      BY <2>2
    <2>3. ASSUME NEW y \in Runs, RunStep(y) PROVE run'[x].status = "COMPLETED"
      <3>1. CASE CountRequisitions(y)
        <4>1. run'[x] = IF Counted(x) THEN [run[x] EXCEPT !.overlaps = TRUE] ELSE run[x]
          BY <2>1, <3>1 DEF CountRequisitions
        <4> QED
          BY <2>1, <4>1 DEF Run
      <3>2. CASE x # y /\ ~CountRequisitions(y)
        BY <2>3, <3>2 DEF RunsInv, RunsTyped, RunStep, CreateRun, LoadAndPlan, CompleteEmpty,
              AnswerEmpty, SaveLines, SaveRequisitions, Complete, CompleteUnheard, Answer,
              Throw, MarkFailed, LoseRun, RunGoto
      <3>3. CASE x = y /\ ~CountRequisitions(y)
        <4>1. Answer(x) \/ LoseRun(x)
          BY <2>1, <2>3, <3>3 DEF RunStep, CreateRun, LoadAndPlan, CompleteEmpty, AnswerEmpty,
                SaveLines, SaveRequisitions, Complete, CompleteUnheard, Throw, MarkFailed
        <4> QED
          BY <2>1, <4>1 DEF Answer, LoseRun, RunGoto, RunsInv, RunsTyped, Run
      <3> QED
        BY <3>1, <3>2, <3>3
    <2> QED
      BY <2>2, <2>3 DEF MrpNext, runVars, ApproveRequisitions
  <1> QED
    BY <1>1, RunsAreSound, PTL DEF MrpSpec, CompletedIsFinal

-----------------------------------------------------------------------------
(* What lies below an item.                                                *)

IsBills(map) ==
    DOMAIN map \subseteq Items /\ \A item \in DOMAIN map : map[item] \in Seq(EngineLine)

PartOf(map, whole, part) ==
    whole \in DOMAIN map /\ \E i \in DOMAIN map[whole] : map[whole][i].child = part

\* part lies k levels below item, by one of the paths of the bills.
Deep(map, item, k, part) ==
    \E path \in [0 .. k -> Items] :
        /\ path[0] = item /\ path[k] = part
        /\ \A j \in 0 .. (k - 1) : PartOf(map, path[j], path[j + 1])

LEMMA DeepItself ==
    ASSUME NEW map, NEW item \in Items
    PROVE  Deep(map, item, 0, item) /\ \A part : Deep(map, item, 0, part) => part = item
  <1>1. [j \in 0 .. 0 |-> item] \in [0 .. 0 -> Items] /\ 0 \in 0 .. 0 /\ 0 .. (0 - 1) = {}
    OBVIOUS
  <1>2. Deep(map, item, 0, item)
    BY <1>1 DEF Deep
  <1> QED
    BY <1>2 DEF Deep

LEMMA DeepAppend ==
    ASSUME NEW map, NEW k \in Nat, NEW item, NEW last, Deep(map, item, k, last),
           NEW part \in Items, PartOf(map, last, part)
    PROVE  Deep(map, item, k + 1, part)
  <1>1. PICK path \in [0 .. k -> Items] :
           /\ path[0] = item /\ path[k] = last
           /\ \A j \in 0 .. (k - 1) : PartOf(map, path[j], path[j + 1])
    BY DEF Deep
  <1> DEFINE longer == [j \in 0 .. (k + 1) |-> IF j = k + 1 THEN part ELSE path[j]]
  <1>2. \A j \in 0 .. k : longer[j] = path[j] /\ j # k + 1 /\ j \in 0 .. (k + 1)
    OBVIOUS
  <1>3. longer[k + 1] = part /\ longer \in [0 .. (k + 1) -> Items]
    OBVIOUS
  <1> HIDE DEF longer
  <1>4. longer[0] = item /\ longer[k] = last
    BY <1>1, <1>2
  <1>5. ASSUME NEW j \in 0 .. ((k + 1) - 1) PROVE PartOf(map, longer[j], longer[j + 1])
    <2>1. CASE j = k
      BY <1>3, <1>4, <2>1
    <2>2. CASE j # k
      <3>1. j \in 0 .. (k - 1) /\ j \in 0 .. k /\ j + 1 \in 0 .. k
        BY <2>2
      <3> QED
        BY <1>1, <1>2, <3>1
    <2> QED
      BY <2>1, <2>2
  <1> QED
    BY <1>3, <1>4, <1>5 DEF Deep

LEMMA DeepPrepend ==
    ASSUME NEW map, NEW k \in Nat, NEW item \in Items, NEW first, PartOf(map, item, first),
           NEW part, Deep(map, first, k, part)
    PROVE  Deep(map, item, k + 1, part)
  <1>1. PICK path \in [0 .. k -> Items] :
           /\ path[0] = first /\ path[k] = part
           /\ \A j \in 0 .. (k - 1) : PartOf(map, path[j], path[j + 1])
    BY DEF Deep
  <1> DEFINE longer == [j \in 0 .. (k + 1) |-> IF j = 0 THEN item ELSE path[j - 1]]
  <1>2. \A j \in 0 .. k : longer[j + 1] = path[j]
    <2> TAKE j \in 0 .. k
    <2>1. j + 1 # 0 /\ j + 1 \in 0 .. (k + 1) /\ (j + 1) - 1 = j
      OBVIOUS
    <2> QED
      BY <2>1
  <1>3. longer[0] = item /\ longer \in [0 .. (k + 1) -> Items]
    OBVIOUS
  <1> HIDE DEF longer
  <1>4. longer[1] = first /\ longer[k + 1] = part
    <2>1. 0 \in 0 .. k /\ k \in 0 .. k /\ 0 + 1 = 1
      OBVIOUS
    <2> QED
      BY <1>1, <1>2, <2>1
  <1>5. ASSUME NEW j \in 0 .. ((k + 1) - 1) PROVE PartOf(map, longer[j], longer[j + 1])
    <2>1. CASE j = 0
      BY <1>3, <1>4, <2>1
    <2>2. CASE j # 0
      <3>1. j - 1 \in 0 .. (k - 1) /\ j - 1 \in 0 .. k /\ j \in 0 .. k /\ (j - 1) + 1 = j
        BY <2>2
      <3> QED
        BY <1>1, <1>2, <3>1
    <2> QED
      BY <2>1, <2>2
  <1> QED
    BY <1>3, <1>4, <1>5 DEF Deep

\* A path that is not empty starts with a part of the item ...
LEMMA DeepHead ==
    ASSUME NEW map, NEW k \in Nat, NEW item, NEW part, Deep(map, item, k + 1, part)
    PROVE  \E first \in Items : PartOf(map, item, first) /\ Deep(map, first, k, part)
  <1>1. PICK path \in [0 .. (k + 1) -> Items] :
           /\ path[0] = item /\ path[k + 1] = part
           /\ \A j \in 0 .. ((k + 1) - 1) : PartOf(map, path[j], path[j + 1])
    BY DEF Deep
  <1> DEFINE shorter == [j \in 0 .. k |-> path[j + 1]]
  <1>2. shorter \in [0 .. k -> Items] /\ shorter[0] = path[1] /\ shorter[k] = part
    BY <1>1
  <1>3. \A j \in 0 .. (k - 1) : PartOf(map, shorter[j], shorter[j + 1])
    <2> TAKE j \in 0 .. (k - 1)
    <2>1. j \in 0 .. k /\ j + 1 \in 0 .. k /\ j + 1 \in 0 .. ((k + 1) - 1)
      OBVIOUS
    <2> QED
      BY <1>1, <2>1
  <1> HIDE DEF shorter
  <1>4. Deep(map, path[1], k, part)
    BY <1>2, <1>3 DEF Deep
  <1>5. PartOf(map, item, path[1]) /\ path[1] \in Items
    <2>1. 0 \in 0 .. ((k + 1) - 1) /\ 0 + 1 = 1 /\ 1 \in 0 .. (k + 1)
      OBVIOUS
    <2> QED
      BY <1>1, <2>1
  <1> QED
    BY <1>4, <1>5

\* ... and ends with a part of another.
LEMMA DeepLast ==
    ASSUME NEW map, NEW k \in Nat, NEW item, NEW part, Deep(map, item, k + 1, part)
    PROVE  \E last \in Items : Deep(map, item, k, last) /\ PartOf(map, last, part)
  <1>1. PICK path \in [0 .. (k + 1) -> Items] :
           /\ path[0] = item /\ path[k + 1] = part
           /\ \A j \in 0 .. ((k + 1) - 1) : PartOf(map, path[j], path[j + 1])
    BY DEF Deep
  <1> DEFINE shorter == [j \in 0 .. k |-> path[j]]
  <1>2. shorter \in [0 .. k -> Items] /\ shorter[0] = item /\ shorter[k] = path[k]
    BY <1>1
  <1>3. \A j \in 0 .. (k - 1) : PartOf(map, shorter[j], shorter[j + 1])
    <2> TAKE j \in 0 .. (k - 1)
    <2>1. j \in 0 .. k /\ j + 1 \in 0 .. k /\ j \in 0 .. ((k + 1) - 1)
      OBVIOUS
    <2> QED
      BY <1>1, <2>1
  <1> HIDE DEF shorter
  <1>4. Deep(map, item, k, path[k])
    BY <1>2, <1>3 DEF Deep
  <1>5. PartOf(map, path[k], part) /\ path[k] \in Items
    BY <1>1
  <1> QED
    BY <1>4, <1>5

\* x is a material n levels or less below item, to be ordered so long before.
Material(map, item, n, x, lead) ==
    /\ x \notin DOMAIN map
    /\ \E k \in 0 .. (n - 1) : \E whole \in DOMAIN map :
          /\ Deep(map, item, k, whole)
          /\ \E i \in DOMAIN map[whole] : map[whole][i].child = x /\ map[whole][i].lead = lead

LEMMA MaterialLead ==
    ASSUME NEW map, IsBills(map), NEW item, NEW n, NEW x, NEW lead, Material(map, item, n, x, lead)
    PROVE  x \in Items /\ lead \in Nat
  <1>1. PICK whole \in DOMAIN map :
           \E i \in DOMAIN map[whole] : map[whole][i].child = x /\ map[whole][i].lead = lead
    BY DEF Material
  <1>2. PICK i \in DOMAIN map[whole] : map[whole][i].child = x /\ map[whole][i].lead = lead
    BY <1>1
  <1>3. map[whole] \in Seq(EngineLine)
    BY DEF IsBills
  <1>4. map[whole][i] \in EngineLine
    BY <1>3
  <1> QED
    BY <1>2, <1>4 DEF EngineLine

\* The materials of an item are those on its own lines and below them.
LEMMA MaterialBelow ==
    ASSUME NEW map, IsBills(map), NEW n \in Nat, NEW item \in Items, NEW x, NEW lead
    PROVE  Material(map, item, n + 1, x, lead) <=>
              /\ item \in DOMAIN map /\ x \notin DOMAIN map
              /\ \E i \in DOMAIN map[item] :
                    \/ map[item][i].child = x /\ map[item][i].lead = lead
                    \/ /\ map[item][i].child \in DOMAIN map
                       /\ Material(map, map[item][i].child, n, x, lead)
  <1>1. ASSUME Material(map, item, n + 1, x, lead)
        PROVE  /\ item \in DOMAIN map /\ x \notin DOMAIN map
               /\ \E i \in DOMAIN map[item] :
                    \/ map[item][i].child = x /\ map[item][i].lead = lead
                    \/ /\ map[item][i].child \in DOMAIN map
                       /\ Material(map, map[item][i].child, n, x, lead)
    <2>1. PICK k \in 0 .. n, whole \in DOMAIN map :
             /\ Deep(map, item, k, whole)
             /\ \E i \in DOMAIN map[whole] : map[whole][i].child = x /\ map[whole][i].lead = lead
      BY <1>1 DEF Material
    <2>2. CASE k = 0
      <3>1. whole = item
        BY <2>1, <2>2, DeepItself
      <3> QED
        BY <1>1, <2>1, <3>1 DEF Material
    <2>3. CASE k # 0
      <3>1. PICK j \in Nat : k = j + 1
        <4>1. k - 1 \in Nat /\ k = (k - 1) + 1
          BY <2>3
        <4> QED
          BY <4>1
      <3>2. PICK first \in Items : PartOf(map, item, first) /\ Deep(map, first, j, whole)
        BY <2>1, <3>1, DeepHead
      <3>3. first \in DOMAIN map
        <4>1. CASE j = 0
          BY <2>1, <3>2, <4>1, DeepItself
        <4>2. CASE j # 0
          <5>1. PICK h \in Nat : j = h + 1
            <6>1. j - 1 \in Nat /\ j = (j - 1) + 1
              BY <4>2
            <6> QED
              BY <6>1
          <5>2. \E second \in Items : PartOf(map, first, second) /\ Deep(map, second, h, whole)
            BY <3>2, <5>1, DeepHead
          <5> QED
            BY <5>2 DEF PartOf
        <4> QED
          BY <4>1, <4>2
      <3>4. Material(map, first, n, x, lead)
        <4>1. j \in 0 .. (n - 1)
          BY <3>1
        <4> QED
          BY <1>1, <2>1, <3>2, <4>1 DEF Material
      <3>5. x \notin DOMAIN map
        BY <1>1 DEF Material
      <3>6. PICK i \in DOMAIN map[item] : map[item][i].child = first
        BY <3>2 DEF PartOf
      <3>7. item \in DOMAIN map
        BY <3>2 DEF PartOf
      <3> QED
        BY <3>3, <3>4, <3>5, <3>6, <3>7
    <2> QED
      BY <2>2, <2>3
  <1>2. ASSUME item \in DOMAIN map, x \notin DOMAIN map, NEW i \in DOMAIN map[item],
               map[item][i].child = x /\ map[item][i].lead = lead
        PROVE  Material(map, item, n + 1, x, lead)
    <2>1. Deep(map, item, 0, item) /\ 0 \in 0 .. ((n + 1) - 1)
      BY DeepItself
    <2> QED
      BY <1>2, <2>1 DEF Material
  <1>3. ASSUME item \in DOMAIN map, NEW i \in DOMAIN map[item],
               Material(map, map[item][i].child, n, x, lead)
        PROVE  Material(map, item, n + 1, x, lead)
    <2>1. PICK k \in 0 .. (n - 1), whole \in DOMAIN map :
             /\ Deep(map, map[item][i].child, k, whole)
             /\ \E j \in DOMAIN map[whole] : map[whole][j].child = x /\ map[whole][j].lead = lead
      BY <1>3 DEF Material
    <2>2. PartOf(map, item, map[item][i].child)
      BY <1>3 DEF PartOf
    <2>3. Deep(map, item, k + 1, whole) /\ k + 1 \in 0 .. ((n + 1) - 1)
      BY <2>1, <2>2, DeepPrepend
    <2> QED
      BY <1>3, <2>1, <2>3 DEF Material
  <1> QED
    BY <1>1, <1>2, <1>3

-----------------------------------------------------------------------------
(* The leaves of an explosion.                                             *)

HasLeaf(leaves, x, lead) ==
    \E i \in DOMAIN leaves : leaves[i].item = x /\ leaves[i].lead = lead

LEMMA LeafInRange ==
    ASSUME NEW leaves, NEW x, NEW lead
    PROVE  HasLeaf(leaves, x, lead) <=> \E e \in Range(leaves) : e.item = x /\ e.lead = lead
  BY DEF HasLeaf, Range

\* A flattened sequence is put together one sequence after the other.
Joins(P, ss, S) ==
    /\ P \in [0 .. Len(ss) -> Seq(S)]
    /\ P[0] = <<>>
    /\ \A i \in 1 .. Len(ss) : P[i] = P[i - 1] \o ss[i]

LEMMA FlattenGoes ==
    ASSUME NEW S, NEW ss \in Seq(Seq(S))
    PROVE  \E P : Joins(P, ss, S) /\ P[Len(ss)] = FlattenSeq(ss)
  <1> DEFINE n == Len(ss)
             A == Seq(S)
             base == <<>>
             step == [i \in 1 .. n |-> [a \in A |-> a \o ss[i]]]
             Step(f) == [i \in 1 .. n |-> IF i = 1 THEN ss[i] ELSE f[i - 1] \o ss[i]]
             F == CHOOSE f : f = Step(f)
  <1>1. n \in Nat /\ DOMAIN ss = 1 .. n /\ \A i \in 1 .. n : ss[i] \in Seq(S)
    OBVIOUS
  <1>2. base \in A /\ \A i \in 1 .. n : \A a \in A : step[i][a] = a \o ss[i]
    OBVIOUS
  <1> HIDE DEF step
  <1>3. ASSUME NEW i \in 1 .. n, NEW a \in A PROVE step[i][a] \in A
    <2>1. a \in Seq(S) /\ ss[i] \in Seq(S)
      BY <1>1
    <2>2. a \o ss[i] \in Seq(S)
      BY <2>1
    <2> QED
      BY <1>2, <2>2
  <1>4. PICK P : GoesBy(P, n, A, base, step)
    <2> HIDE DEF A, base
    <2> QED
      BY <1>1, <1>2, <1>3, RecursionExists
  <1>5. \A i \in 1 .. n : i - 1 \in 0 .. n
    BY <1>1
  <1>6. \A i \in 1 .. n : P[i] = P[i - 1] \o ss[i]
    BY <1>2, <1>4, <1>5 DEF GoesBy
  <1>7. Joins(P, ss, S)
    BY <1>4, <1>6 DEF Joins, GoesBy
  <1>8. CASE n = 0
    <2>1. FlattenSeq(ss) = <<>> /\ ss = <<>>
      BY <1>8 DEF FlattenSeq
    <2> QED
      BY <1>7, <1>8, <2>1 DEF Joins
  <1>9. CASE n # 0
    <2>1. FlattenSeq(ss) = F[n]
      BY <1>9 DEF FlattenSeq
    <2>2. F = Step(F)
      <3> DEFINE f == [i \in 1 .. n |-> P[i]]
      <3>1. ASSUME NEW i \in 1 .. n PROVE f[i] = IF i = 1 THEN ss[i] ELSE f[i - 1] \o ss[i]
        <4>1. CASE i = 1
          <5>1. i - 1 = 0
            BY <4>1
          <5>2. P[i] = <<>> \o ss[i]
            BY <1>6, <1>7, <5>1 DEF Joins
          <5>3. \A t \in Seq(S) : <<>> \o t = t
            OBVIOUS
          <5> QED
            BY <1>1, <4>1, <5>2, <5>3
        <4>2. CASE i # 1
          <5>1. i - 1 \in 1 .. n
            BY <1>1, <4>2
          <5> QED
            BY <1>6, <4>2, <5>1
        <4> QED
          BY <4>1, <4>2
      <3>2. f = Step(f)
        BY <3>1
      <3> QED
        BY <3>2
    <2>3. \A i \in 1 .. n : F[i] = IF i = 1 THEN ss[i] ELSE F[i - 1] \o ss[i]
      BY <2>2
    <2> HIDE DEF F, Step
    <2> DEFINE T == {k \in Nat : k \in 1 .. n => F[k] = P[k]}
    <2>4. 0 \in T
      OBVIOUS
    <2>5. ASSUME NEW k \in T PROVE k + 1 \in T
      <3>1. k \in Nat
        OBVIOUS
      <3> SUFFICES ASSUME k + 1 \in 1 .. n PROVE F[k + 1] = P[k + 1]
        BY <3>1
      <3>2. P[k + 1] = P[k] \o ss[k + 1] /\ (k + 1) - 1 = k
        <4>1. (k + 1) - 1 = k
          BY <3>1
        <4> QED
          BY <1>6, <4>1
      <3>3. CASE k = 0
        <4>1. k + 1 = 1 /\ 1 \in 1 .. n /\ P[0] = <<>>
          BY <1>7, <3>3 DEF Joins
        <4>2. F[1] = ss[1] /\ P[1] = <<>> \o ss[1] /\ ss[1] \in Seq(S)
          <5> HIDE DEF T, n
          <5>1. P[1] = P[0] \o ss[1]
            BY <3>2, <3>3, <4>1
          <5>2. P[1] = <<>> \o ss[1]
            BY <4>1, <5>1
          <5> QED
            BY <1>1, <2>3, <4>1, <5>2
        <4>3. \A t \in Seq(S) : <<>> \o t = t
          OBVIOUS
        <4> QED
          BY <3>3, <4>2, <4>3
      <3>4. CASE k # 0
        <4>1. k \in 1 .. n /\ k + 1 # 1
          BY <1>1, <3>1, <3>4
        <4> QED
          BY <2>3, <3>2, <4>1
      <3> QED
        BY <3>3, <3>4
    <2>6. T = Nat
      BY <2>4, <2>5, SetInduction
    <2> HIDE DEF T
    <2>7. n \in T /\ n \in 1 .. n
      BY <1>1, <1>9, <2>6
    <2>8. F[n] = P[n]
      BY <2>7 DEF T
    <2> QED
      BY <1>7, <2>1, <2>8
  <1> QED
    BY <1>8, <1>9

\* A flattened sequence has the elements of the sequences in it.
LEMMA FlattenElements ==
    ASSUME NEW S, NEW ss \in Seq(Seq(S))
    PROVE  /\ FlattenSeq(ss) \in Seq(S)
           /\ \A e : e \in Range(FlattenSeq(ss)) <=> \E i \in DOMAIN ss : e \in Range(ss[i])
  <1> DEFINE n == Len(ss)
  <1>1. n \in Nat /\ DOMAIN ss = 1 .. n /\ \A i \in 1 .. n : ss[i] \in Seq(S)
    OBVIOUS
  <1>2. PICK P : Joins(P, ss, S) /\ P[n] = FlattenSeq(ss)
    BY FlattenGoes
  <1>3. /\ P \in [0 .. n -> Seq(S)] /\ P[0] = <<>>
         /\ \A i \in 1 .. n : P[i] = P[i - 1] \o ss[i]
    BY <1>2 DEF Joins
  <1> HIDE DEF n
  <1> DEFINE Flat(k) == \A e : e \in Range(P[k]) <=> \E i \in 1 .. k : e \in Range(ss[i])
             T == {k \in Nat : k <= n => Flat(k)}
  <1>4. 0 \in T
    <2> USE DEF Flat
    <2>1. P[0] = <<>> /\ Range(<<>>) = {} /\ 1 .. 0 = {}
      BY <1>3 DEF Range
    <2> QED
      BY <2>1
  <1> HIDE DEF Flat
  <1>5. ASSUME NEW k \in T PROVE k + 1 \in T
    <2>1. k \in Nat
      OBVIOUS
    <2>2. k <= n => Flat(k)
      OBVIOUS
    <2> SUFFICES ASSUME k + 1 <= n PROVE Flat(k + 1)
      BY <2>1
    <2> HIDE DEF T
    <2>3. k + 1 \in 1 .. n /\ k \in 0 .. n /\ k <= n /\ (k + 1) - 1 = k
      BY <1>1, <2>1
    <2>4. Flat(k)
      BY <2>3, <2>2
    <2>5. PICK a \in Seq(S) : a = P[k]
      BY <1>3, <2>3
    <2>6. P[k + 1] = a \o ss[k + 1] /\ ss[k + 1] \in Seq(S)
      BY <1>1, <1>3, <2>3, <2>5
    <2>7. Range(P[k + 1]) = Range(a) \cup Range(ss[k + 1])
      BY <2>6, RangeConcatenation
    <2>8. \A i : i \in 1 .. (k + 1) <=> i \in 1 .. k \/ i = k + 1
      BY <2>1
    <2> QED
      BY <2>4, <2>5, <2>7, <2>8 DEF Flat
  <1>6. T = Nat
    BY <1>4, <1>5, SetInduction
  <1>7. Flat(n)
    <2> HIDE DEF T
    <2>1. n \in T /\ n <= n
      BY <1>1, <1>6
    <2> QED
      BY <2>1 DEF T
  <1>8. FlattenSeq(ss) \in Seq(S)
    <2>1. n \in 0 .. n
      BY <1>1
    <2> QED
      BY <1>2, <1>3, <2>1
  <1> QED
    BY <1>1, <1>2, <1>7, <1>8 DEF Flat

LEMMA ProductIsPositive ==
    ASSUME NEW a \in Nat \ {0}, NEW b \in Nat \ {0}
    PROVE  a * b \in Nat \ {0}
  OBVIOUS

Leaf == [item : Items, per : Nat \ {0}, lines : Nat \ {0}, lead : Nat]

LEMMA ThroughLeaf ==
    ASSUME NEW line \in EngineLine, NEW leaf \in Leaf
    PROVE  /\ Through(line, leaf) \in Leaf
           /\ Through(line, leaf).item = leaf.item /\ Through(line, leaf).lead = leaf.lead
           /\ Through(line, leaf).per = leaf.per * line.per
           /\ Through(line, leaf).lines = leaf.lines + 1
  <1>1. PICK a \in Nat \ {0}, b \in Nat \ {0} : a = leaf.per /\ b = line.per
    BY DEF Leaf, EngineLine
  <1>2. PICK per \in Nat \ {0} : per = a * b
    BY ProductIsPositive
  <1>3. PICK lines \in Nat \ {0} : lines = leaf.lines + 1
    BY DEF Leaf
  <1>4. Through(line, leaf) = [item |-> leaf.item, per |-> per, lines |-> lines, lead |-> leaf.lead]
    <2>1. per = leaf.per * line.per
      BY <1>1, <1>2
    <2>2. Through(line, leaf) = [leaf EXCEPT !.per = per, !.lines = lines]
      BY <1>3, <2>1, Zenon DEF Through
    <2> QED
      BY <2>2 DEF Leaf
  <1>5. leaf.item \in Items /\ leaf.lead \in Nat
    BY DEF Leaf
  <1> QED
    BY <1>1, <1>2, <1>3, <1>4, <1>5 DEF Leaf

AllLeaves == [Items -> Seq(Leaf)]

\* The leaves a line stands for, given those of every item one level less deep.
OfLine(map, prev, line) ==
    IF line.child \in DOMAIN map
    THEN [j \in DOMAIN prev[line.child] |-> Through(line, prev[line.child][j])]
    ELSE <<[item |-> line.child, per |-> line.per, lines |-> 1, lead |-> line.lead]>>

OfItem(map, prev, item) ==
    IF item \notin DOMAIN map THEN <<>>
    ELSE FlattenSeq([i \in DOMAIN map[item] |-> OfLine(map, prev, map[item][i])])

Deeper(map, prev) == [item \in Items |-> OfItem(map, prev, item)]

LEMMA OfLineLeaves ==
    ASSUME NEW map, NEW prev \in AllLeaves, NEW line \in EngineLine
    PROVE  /\ OfLine(map, prev, line) \in Seq(Leaf)
           /\ \A x, lead : HasLeaf(OfLine(map, prev, line), x, lead) <=>
                 IF line.child \in DOMAIN map THEN HasLeaf(prev[line.child], x, lead)
                 ELSE x = line.child /\ lead = line.lead
  <1>1. line.child \in Items /\ line.per \in Nat \ {0} /\ line.lead \in Nat
    BY DEF EngineLine
  <1>2. CASE line.child \in DOMAIN map
    <2>1. PICK below \in Seq(Leaf) : below = prev[line.child]
      BY <1>1 DEF AllLeaves
    <2>2. OfLine(map, prev, line) = [j \in DOMAIN below |-> Through(line, below[j])]
      BY <1>2, <2>1 DEF OfLine
    <2>3. ASSUME NEW leaf \in Leaf
          PROVE  /\ Through(line, leaf) \in Leaf
                 /\ Through(line, leaf).item = leaf.item /\ Through(line, leaf).lead = leaf.lead
      BY ThroughLeaf
    <2>4. \A j \in DOMAIN below : below[j] \in Leaf
      OBVIOUS
    <2>5. DOMAIN below = 1 .. Len(below) /\ Len(below) \in Nat
      OBVIOUS
    <2>6. [j \in DOMAIN below |-> Through(line, below[j])] \in Seq(Leaf)
      <3>1. [j \in 1 .. Len(below) |-> Through(line, below[j])] \in [1 .. Len(below) -> Leaf]
        BY <2>3, <2>4, <2>5
      <3> QED
        BY <2>5, <3>1
    <2>7. \A x, lead : HasLeaf([j \in DOMAIN below |-> Through(line, below[j])], x, lead)
                          <=> HasLeaf(below, x, lead)
      BY <2>3, <2>4 DEF HasLeaf
    <2> QED
      BY <1>2, <2>1, <2>2, <2>6, <2>7
  <1>3. CASE line.child \notin DOMAIN map
    <2> DEFINE leaf == [item |-> line.child, per |-> line.per, lines |-> 1, lead |-> line.lead]
    <2>1. leaf \in Leaf /\ leaf.item = line.child /\ leaf.lead = line.lead
      BY <1>1 DEF Leaf
    <2>2. OfLine(map, prev, line) = <<leaf>>
      BY <1>3 DEF OfLine
    <2> HIDE DEF leaf
    <2>3. <<leaf>> \in Seq(Leaf) /\ DOMAIN <<leaf>> = {1} /\ <<leaf>>[1] = leaf
      BY <2>1
    <2> QED
      BY <1>3, <2>1, <2>2, <2>3 DEF HasLeaf
  <1> QED
    BY <1>2, <1>3

LEMMA OfItemLeaves ==
    ASSUME NEW map, IsBills(map), NEW prev \in AllLeaves, NEW item \in Items
    PROVE  /\ OfItem(map, prev, item) \in Seq(Leaf)
           /\ \A x, lead : HasLeaf(OfItem(map, prev, item), x, lead) <=>
                 /\ item \in DOMAIN map
                 /\ \E i \in DOMAIN map[item] :
                       IF map[item][i].child \in DOMAIN map
                       THEN HasLeaf(prev[map[item][i].child], x, lead)
                       ELSE x = map[item][i].child /\ lead = map[item][i].lead
  <1>1. CASE item \notin DOMAIN map
    <2>1. OfItem(map, prev, item) = <<>> /\ DOMAIN <<>> = {}
      BY <1>1 DEF OfItem
    <2> QED
      BY <1>1, <2>1 DEF HasLeaf
  <1>2. CASE item \in DOMAIN map
    <2>1. PICK lines \in Seq(EngineLine) : lines = map[item]
      BY <1>2 DEF IsBills
    <2> DEFINE ss == [i \in DOMAIN lines |-> OfLine(map, prev, lines[i])]
    <2>2. OfItem(map, prev, item) = FlattenSeq(ss)
      BY <1>2, <2>1 DEF OfItem
    <2>3. \A i \in DOMAIN lines : lines[i] \in EngineLine
      OBVIOUS
    <2>4. /\ DOMAIN ss = DOMAIN lines
          /\ \A i \in DOMAIN lines : ss[i] = OfLine(map, prev, lines[i])
      OBVIOUS
    <2>5. ss \in Seq(Seq(Leaf))
      <3>1. DOMAIN lines = 1 .. Len(lines) /\ Len(lines) \in Nat
        OBVIOUS
      <3>2. \A i \in 1 .. Len(lines) : OfLine(map, prev, lines[i]) \in Seq(Leaf)
        BY <2>3, <3>1, OfLineLeaves
      <3>3. [i \in 1 .. Len(lines) |-> OfLine(map, prev, lines[i])] \in [1 .. Len(lines) -> Seq(Leaf)]
        BY <3>2
      <3> QED
        BY <3>1, <3>3
    <2> HIDE DEF ss
    <2>6. /\ FlattenSeq(ss) \in Seq(Leaf)
          /\ \A e : e \in Range(FlattenSeq(ss)) <=> \E i \in DOMAIN ss : e \in Range(ss[i])
      BY <2>5, FlattenElements
    <2>7. ASSUME NEW x, NEW lead
          PROVE  HasLeaf(FlattenSeq(ss), x, lead) <=> \E i \in DOMAIN ss : HasLeaf(ss[i], x, lead)
      <3>1. HasLeaf(FlattenSeq(ss), x, lead)
               <=> \E e \in Range(FlattenSeq(ss)) : e.item = x /\ e.lead = lead
        BY LeafInRange
      <3>2. \A i \in DOMAIN ss : HasLeaf(ss[i], x, lead)
               <=> \E e \in Range(ss[i]) : e.item = x /\ e.lead = lead
        BY LeafInRange
      <3> QED
        BY <2>6, <3>1, <3>2
    <2>8. ASSUME NEW x, NEW lead, NEW i \in DOMAIN lines
          PROVE  HasLeaf(ss[i], x, lead) <=>
                    IF lines[i].child \in DOMAIN map THEN HasLeaf(prev[lines[i].child], x, lead)
                    ELSE x = lines[i].child /\ lead = lines[i].lead
      <3>1. ss[i] = OfLine(map, prev, lines[i]) /\ lines[i] \in EngineLine
        BY <2>3, <2>4
      <3>2. HasLeaf(OfLine(map, prev, lines[i]), x, lead) <=>
               IF lines[i].child \in DOMAIN map THEN HasLeaf(prev[lines[i].child], x, lead)
               ELSE x = lines[i].child /\ lead = lines[i].lead
        BY <3>1, OfLineLeaves
      <3> QED
        BY <3>1, <3>2
    <2> QED
      BY <1>2, <2>1, <2>2, <2>4, <2>6, <2>7, <2>8
  <1> QED
    BY <1>1, <1>2

NoLeaves == [item \in Items |-> <<>>]

LevelSteps(map) == [n \in 1 .. EngineDepth |-> [prev \in AllLeaves |-> Deeper(map, prev)]]

LEMMA LeavesGo ==
    ASSUME NEW map, IsBills(map)
    PROVE  \E L : /\ GoesBy(L, EngineDepth, AllLeaves, NoLeaves, LevelSteps(map))
                  /\ LeavesOf(map) = L[EngineDepth]
  <1> DEFINE D == EngineDepth
             Step(f) == [n \in 0 .. D |-> [item \in Items |->
                IF n = 0 \/ item \notin DOMAIN map THEN <<>>
                ELSE FlattenSeq([i \in DOMAIN map[item] |->
                   LET line == map[item][i]
                   IN  IF line.child \in DOMAIN map
                       THEN [j \in DOMAIN f[n - 1][line.child] |->
                               Through(line, f[n - 1][line.child][j])]
                       ELSE <<[item |-> line.child, per |-> line.per, lines |-> 1,
                               lead |-> line.lead]>>])]]
             F == CHOOSE f : f = Step(f)
  <1>1. D \in Nat
    BY EngineAssumption
  <1>2. LeavesOf(map) = F[D]
    BY DEF LeavesOf
  <1>3. NoLeaves \in AllLeaves
    <2>1. <<>> \in Seq(Leaf)
      OBVIOUS
    <2> QED
      BY <2>1 DEF NoLeaves, AllLeaves
  <1>4. \A n \in 1 .. D : \A prev \in AllLeaves :
           LevelSteps(map)[n][prev] = Deeper(map, prev) /\ LevelSteps(map)[n][prev] \in AllLeaves
    BY OfItemLeaves DEF LevelSteps, Deeper, AllLeaves
  <1>5. PICK P : GoesBy(P, D, AllLeaves, NoLeaves, LevelSteps(map))
    <2>1. \A n \in 1 .. D : \A prev \in AllLeaves : LevelSteps(map)[n][prev] \in AllLeaves
      BY <1>4
    <2> HIDE DEF D
    <2> QED
      BY <1>1, <1>3, <2>1, RecursionExists
  <1>6. ASSUME NEW f PROVE Step(f) = [n \in 0 .. D |-> IF n = 0 THEN NoLeaves ELSE Deeper(map, f[n - 1])]
    <2> DEFINE body(n, item) ==
                 IF n = 0 \/ item \notin DOMAIN map THEN <<>>
                 ELSE FlattenSeq([i \in DOMAIN map[item] |->
                   LET line == map[item][i]
                   IN  IF line.child \in DOMAIN map
                       THEN [j \in DOMAIN f[n - 1][line.child] |->
                               Through(line, f[n - 1][line.child][j])]
                       ELSE <<[item |-> line.child, per |-> line.per, lines |-> 1,
                               lead |-> line.lead]>>])
    <2>1. Step(f) = [n \in 0 .. D |-> [item \in Items |-> body(n, item)]]
      OBVIOUS
    <2>2. ASSUME NEW n, n # 0, NEW item PROVE body(n, item) = OfItem(map, f[n - 1], item)
      BY <2>2, Zenon DEF OfItem, OfLine
    <2>3. ASSUME NEW n, n = 0, NEW item PROVE body(n, item) = <<>>
      BY <2>3
    <2> HIDE DEF body
    <2>4. ASSUME NEW n \in 0 .. D
          PROVE  [item \in Items |-> body(n, item)] = IF n = 0 THEN NoLeaves ELSE Deeper(map, f[n - 1])
      <3>1. CASE n = 0
        BY <2>3, <3>1 DEF NoLeaves
      <3>2. CASE n # 0
        BY <2>2, <3>2 DEF Deeper
      <3> QED
        BY <3>1, <3>2
    <2> HIDE DEF Step
    <2> QED
      BY <2>1, <2>4
  <1> HIDE DEF Step
  <1>7. P = Step(P)
    <2>1. P = [n \in 0 .. D |-> P[n]]
      BY <1>5 DEF GoesBy
    <2>2. ASSUME NEW n \in 0 .. D PROVE P[n] = IF n = 0 THEN NoLeaves ELSE Deeper(map, P[n - 1])
      <3>1. CASE n = 0
        BY <1>5, <3>1 DEF GoesBy
      <3>2. CASE n # 0
        <4>1. n \in 1 .. D /\ n - 1 \in 0 .. D
          BY <1>1, <3>2
        <4> QED
          BY <1>4, <1>5, <3>2, <4>1 DEF GoesBy
      <3> QED
        BY <3>1, <3>2
    <2> QED
      BY <1>6, <2>1, <2>2
  <1>8. F = Step(F)
    BY <1>7
  <1> HIDE DEF F
  <1>9. GoesBy(F, D, AllLeaves, NoLeaves, LevelSteps(map))
    <2>1. \A n \in 0 .. D : F[n] = IF n = 0 THEN NoLeaves ELSE Deeper(map, F[n - 1])
      BY <1>6, <1>8
    <2>2. F = [n \in 0 .. D |-> F[n]]
      BY <1>6, <1>8
    <2>3. F[0] = NoLeaves
      <3>1. 0 \in 0 .. D
        BY <1>1
      <3> QED
        BY <2>1, <3>1
    <2>4. ASSUME NEW n \in 1 .. D, F[n - 1] \in AllLeaves PROVE F[n] = LevelSteps(map)[n][F[n - 1]]
      <3>1. n \in 0 .. D /\ n # 0
        BY <1>1
      <3>2. F[n] = Deeper(map, F[n - 1])
        BY <2>1, <3>1
      <3> QED
        BY <1>4, <2>4, <3>2
    <2>5. StepsUp(F, D, AllLeaves, NoLeaves, LevelSteps(map))
      BY <2>2, <2>3, <2>4 DEF StepsUp
    <2>6. StepsWithin(D, AllLeaves, LevelSteps(map))
      BY <1>4 DEF StepsWithin
    <2> QED
      BY <1>1, <1>3, <2>5, <2>6, RecursionGoes
  <1> QED
    BY <1>2, <1>9

\* The leaves of an item are the materials below it, with the lead times of the lines
\* that ask for them.
LEMMA LeavesAreMaterials ==
    ASSUME NEW map, IsBills(map), NEW item \in Items
    PROVE  /\ LeavesOf(map)[item] \in Seq(Leaf)
           /\ \A x, lead : HasLeaf(LeavesOf(map)[item], x, lead) <=>
                 Material(map, item, EngineDepth, x, lead)
  <1>1. PICK L : /\ GoesBy(L, EngineDepth, AllLeaves, NoLeaves, LevelSteps(map))
                 /\ LeavesOf(map) = L[EngineDepth]
    BY LeavesGo
  <1> DEFINE T == {n \in Nat : n <= EngineDepth =>
                     \A it \in Items : \A x, lead :
                        HasLeaf(L[n][it], x, lead) <=> Material(map, it, n, x, lead)}
  <1>2. 0 \in T
    <2>1. ASSUME NEW it \in Items, NEW x, NEW lead
          PROVE  ~ HasLeaf(L[0][it], x, lead) /\ ~ Material(map, it, 0, x, lead)
      <3>1. L[0][it] = <<>> /\ DOMAIN <<>> = {} /\ 0 .. (0 - 1) = {}
        BY <1>1 DEF GoesBy, NoLeaves
      <3> QED
        BY <3>1 DEF HasLeaf, Material
    <2> QED
      BY <2>1
  <1>3. ASSUME NEW n \in T PROVE n + 1 \in T
    <2>1. n \in Nat
      OBVIOUS
    <2> SUFFICES ASSUME n + 1 <= EngineDepth, NEW it \in Items, NEW x, NEW lead
                 PROVE  HasLeaf(L[n + 1][it], x, lead) <=> Material(map, it, n + 1, x, lead)
      BY <2>1
    <2>2. n + 1 \in 1 .. EngineDepth /\ n \in 0 .. EngineDepth /\ (n + 1) - 1 = n /\ n <= EngineDepth
      BY <2>1, EngineAssumption
    <2>3. L[n] \in AllLeaves /\ L[n + 1] = LevelSteps(map)[n + 1][L[n]]
      BY <1>1, <2>2 DEF GoesBy
    <2>4. L[n + 1][it] = OfItem(map, L[n], it)
      BY <2>2, <2>3 DEF LevelSteps, Deeper
    <2>5. \A i \in DOMAIN map[it] : it \in DOMAIN map =>
             map[it][i].child \in Items
             /\ (HasLeaf(L[n][map[it][i].child], x, lead) <=> Material(map, map[it][i].child, n, x, lead))
      <3>1. it \in DOMAIN map => map[it] \in Seq(EngineLine)
        BY DEF IsBills
      <3>2. it \in DOMAIN map => \A i \in DOMAIN map[it] : map[it][i] \in EngineLine
        BY <3>1
      <3>3. it \in DOMAIN map => \A i \in DOMAIN map[it] : map[it][i].child \in Items
        BY <3>2 DEF EngineLine
      <3>4. \A other \in Items : HasLeaf(L[n][other], x, lead) <=> Material(map, other, n, x, lead)
        BY <2>2
      <3> QED
        BY <3>3, <3>4
    <2>6. Material(map, it, n + 1, x, lead) <=>
              /\ it \in DOMAIN map /\ x \notin DOMAIN map
              /\ \E i \in DOMAIN map[it] :
                    \/ map[it][i].child = x /\ map[it][i].lead = lead
                    \/ map[it][i].child \in DOMAIN map /\ Material(map, map[it][i].child, n, x, lead)
      BY <2>1, MaterialBelow
    <2>7. HasLeaf(L[n + 1][it], x, lead) <=>
              /\ it \in DOMAIN map
              /\ \E i \in DOMAIN map[it] :
                    IF map[it][i].child \in DOMAIN map THEN HasLeaf(L[n][map[it][i].child], x, lead)
                    ELSE x = map[it][i].child /\ lead = map[it][i].lead
      BY <2>3, <2>4, OfItemLeaves
    <2>8. \A i \in DOMAIN map[it] :
             Material(map, map[it][i].child, n, x, lead) => x \notin DOMAIN map
      BY DEF Material
    <2> QED
      BY <2>5, <2>6, <2>7, <2>8
  <1>4. T = Nat
    BY <1>2, <1>3, SetInduction
  <1>5. \A x, lead : HasLeaf(L[EngineDepth][item], x, lead) <=>
                        Material(map, item, EngineDepth, x, lead)
    <2> HIDE DEF T
    <2>1. EngineDepth \in T /\ EngineDepth \in Nat /\ EngineDepth <= EngineDepth
      BY <1>4, EngineAssumption
    <2> QED
      BY <2>1 DEF T
  <1>6. LeavesOf(map)[item] \in Seq(Leaf)
    <2>1. EngineDepth \in 0 .. EngineDepth
      BY EngineAssumption
    <2> QED
      BY <1>1, <2>1 DEF GoesBy, AllLeaves
  <1> QED
    BY <1>1, <1>5, <1>6

\* The leaves of the lines of an item, one list for each line.
LeafLists(map, prev, item, ss) ==
    /\ ss \in Seq(Seq(Leaf)) /\ OfItem(map, prev, item) = FlattenSeq(ss)
    /\ DOMAIN ss = DOMAIN map[item]
    /\ \A i \in DOMAIN ss : map[item][i] \in EngineLine /\ ss[i] = OfLine(map, prev, map[item][i])

LEMMA LeafListsExist ==
    ASSUME NEW map, IsBills(map), NEW prev \in AllLeaves, NEW item \in DOMAIN map
    PROVE  \E ss : LeafLists(map, prev, item, ss)
  <1>1. PICK lines \in Seq(EngineLine) : lines = map[item]
    BY DEF IsBills
  <1> DEFINE ss == [i \in DOMAIN lines |-> OfLine(map, prev, lines[i])]
  <1>2. OfItem(map, prev, item) = FlattenSeq(ss)
    BY <1>1 DEF OfItem
  <1>3. DOMAIN lines = 1 .. Len(lines) /\ Len(lines) \in Nat /\ \A i \in 1 .. Len(lines) : lines[i] \in EngineLine
    OBVIOUS
  <1>4. \A i \in 1 .. Len(lines) : OfLine(map, prev, lines[i]) \in Seq(Leaf)
    BY <1>3, OfLineLeaves
  <1>5. ss \in Seq(Seq(Leaf))
    <2>1. [i \in 1 .. Len(lines) |-> OfLine(map, prev, lines[i])] \in [1 .. Len(lines) -> Seq(Leaf)]
      BY <1>4
    <2> QED
      BY <1>3, <2>1
  <1>6. DOMAIN ss = DOMAIN lines /\ \A i \in DOMAIN lines : ss[i] = OfLine(map, prev, lines[i])
    OBVIOUS
  <1> HIDE DEF ss
  <1>7. LeafLists(map, prev, item, ss)
    BY <1>1, <1>2, <1>3, <1>5, <1>6 DEF LeafLists
  <1> QED
    BY <1>7

\* No leaf is further below than the explosion goes.
Within(leaves, n) == \A leaf \in Range(leaves) : leaf.lines <= n

NearLeaf == {leaf \in Leaf : leaf.lines <= EngineDepth}

LEMMA OfLineWithin ==
    ASSUME NEW map, NEW prev \in AllLeaves, NEW line \in EngineLine, NEW n \in Nat,
           \A item \in Items : Within(prev[item], n)
    PROVE  Within(OfLine(map, prev, line), n + 1)
  <1>1. CASE line.child \in DOMAIN map
    <2>1. PICK below \in Seq(Leaf) : below = prev[line.child] /\ Within(below, n)
      BY DEF AllLeaves, EngineLine
    <2>2. OfLine(map, prev, line) = [j \in DOMAIN below |-> Through(line, below[j])]
      BY <1>1, <2>1 DEF OfLine
    <2>3. ASSUME NEW j \in DOMAIN below PROVE Through(line, below[j]).lines <= n + 1
      <3>1. PICK leaf \in Leaf : leaf = below[j] /\ leaf.lines <= n
        BY <2>1 DEF Within, Range
      <3>2. Through(line, leaf).lines = leaf.lines + 1 /\ leaf.lines \in Nat
        BY ThroughLeaf DEF Leaf
      <3> QED
        BY <3>1, <3>2
    <2> QED
      BY <2>2, <2>3 DEF Within, Range
  <1>2. CASE line.child \notin DOMAIN map
    <2> DEFINE leaf == [item |-> line.child, per |-> line.per, lines |-> 1, lead |-> line.lead]
    <2>1. OfLine(map, prev, line) = <<leaf>> /\ leaf.lines = 1
      BY <1>2 DEF OfLine
    <2> HIDE DEF leaf
    <2>2. Range(<<leaf>>) = {leaf}
      BY DEF Range
    <2>3. 1 <= n + 1
      OBVIOUS
    <2> QED
      BY <2>1, <2>2, <2>3 DEF Within
  <1> QED
    BY <1>1, <1>2

LEMMA OfItemWithin ==
    ASSUME NEW map, IsBills(map), NEW prev \in AllLeaves, NEW n \in Nat,
           \A other \in Items : Within(prev[other], n), NEW item \in Items
    PROVE  Within(OfItem(map, prev, item), n + 1)
  <1>1. CASE item \notin DOMAIN map
    <2>1. OfItem(map, prev, item) = <<>> /\ Range(<<>>) = {}
      BY <1>1 DEF OfItem, Range
    <2> QED
      BY <2>1 DEF Within
  <1>2. CASE item \in DOMAIN map
    <2>1. PICK ss : LeafLists(map, prev, item, ss)
      BY <1>2, LeafListsExist
    <2>2. \A e : e \in Range(FlattenSeq(ss)) <=> \E i \in DOMAIN ss : e \in Range(ss[i])
      BY <2>1, FlattenElements DEF LeafLists
    <2>3. ASSUME NEW i \in DOMAIN ss PROVE Within(ss[i], n + 1)
      <3>1. PICK line \in EngineLine : ss[i] = OfLine(map, prev, line)
        BY <2>1 DEF LeafLists
      <3> QED
        BY <3>1, OfLineWithin
    <2> QED
      BY <2>1, <2>2, <2>3 DEF Within, LeafLists
  <1> QED
    BY <1>1, <1>2

LEMMA LeavesAreNear ==
    ASSUME NEW map, IsBills(map), NEW item \in Items
    PROVE  LeavesOf(map)[item] \in Seq(NearLeaf)
  <1>1. PICK L : /\ GoesBy(L, EngineDepth, AllLeaves, NoLeaves, LevelSteps(map))
                 /\ LeavesOf(map) = L[EngineDepth]
    BY LeavesGo
  <1> DEFINE T == {n \in Nat : n <= EngineDepth => \A it \in Items : Within(L[n][it], n)}
  <1>2. 0 \in T
    BY <1>1 DEF GoesBy, NoLeaves, Within, Range
  <1>3. ASSUME NEW n \in T PROVE n + 1 \in T
    <2>1. n \in Nat
      OBVIOUS
    <2> SUFFICES ASSUME n + 1 <= EngineDepth, NEW it \in Items PROVE Within(L[n + 1][it], n + 1)
      BY <2>1
    <2>2. n + 1 \in 1 .. EngineDepth /\ n \in 0 .. EngineDepth /\ (n + 1) - 1 = n /\ n <= EngineDepth
      BY <2>1, EngineAssumption
    <2>3. L[n] \in AllLeaves /\ L[n + 1] = LevelSteps(map)[n + 1][L[n]]
      BY <1>1, <2>2 DEF GoesBy
    <2>4. L[n + 1][it] = OfItem(map, L[n], it)
      BY <2>2, <2>3 DEF LevelSteps, Deeper
    <2>5. \A other \in Items : Within(L[n][other], n)
      BY <2>2
    <2> QED
      BY <2>1, <2>3, <2>4, <2>5, OfItemWithin
  <1>4. T = Nat
    BY <1>2, <1>3, SetInduction
  <1>5. Within(LeavesOf(map)[item], EngineDepth)
    <2> HIDE DEF T
    <2>1. EngineDepth \in T /\ EngineDepth <= EngineDepth
      BY <1>4, EngineAssumption
    <2> QED
      BY <1>1, <2>1 DEF T
  <1>6. PICK leaves \in Seq(Leaf) : leaves = LeavesOf(map)[item]
    BY LeavesAreMaterials
  <1>7. \A i \in DOMAIN leaves : leaves[i] \in NearLeaf
    BY <1>5, <1>6 DEF Within, Range, NearLeaf
  <1>8. leaves \in Seq(NearLeaf)
    <2>1. DOMAIN leaves = 1 .. Len(leaves) /\ Len(leaves) \in Nat
      OBVIOUS
    <2>2. leaves \in [1 .. Len(leaves) -> NearLeaf]
      BY <1>7, <2>1
    <2> QED
      BY <2>1, <2>2
  <1> QED
    BY <1>6, <1>8

\* What a piece is counted in is a positive number, at every depth.
LEMMA UnitIsPositive ==
    ASSUME NEW n \in 0 .. EngineDepth
    PROVE  Unit(n) \in Nat \ {0}
  <1> DEFINE D == EngineDepth
             A == Nat \ {0}
             step == [k \in 1 .. D |-> [a \in A |-> 100 * a]]
             Step(f) == [k \in 0 .. D |-> IF k = 0 THEN 1 ELSE 100 * f[k - 1]]
  <1>1. D \in Nat /\ 1 \in A
    BY EngineAssumption
  <1>2. \A k \in 1 .. D : \A a \in A : step[k][a] = 100 * a /\ step[k][a] \in A
    OBVIOUS
  <1> HIDE DEF step, A, D
  <1>3. PICK P : GoesBy(P, D, A, 1, step)
    BY <1>1, <1>2, RecursionExists
  <1>4. \A k \in 1 .. D : k - 1 \in 0 .. D
    BY <1>1
  <1>5. P = Step(P)
    <2>1. \A k \in 1 .. D : P[k] = 100 * P[k - 1]
      BY <1>2, <1>3, <1>4 DEF GoesBy
    <2>2. \A k \in 0 .. D : k # 0 => k \in 1 .. D
      BY <1>1
    <2> QED
      BY <1>3, <2>1, <2>2 DEF GoesBy
  <1>6. Hundreds = Step(Hundreds)
    BY <1>5 DEF Hundreds, D
  <1> DEFINE T == {k \in Nat : k <= D => Hundreds[k] \in A}
  <1>7. 0 \in T
    <2>1. 0 \in 0 .. D
      BY <1>1
    <2>2. Hundreds[0] = 1
      BY <1>6, <2>1
    <2> QED
      BY <1>1, <2>2
  <1>8. ASSUME NEW k \in T PROVE k + 1 \in T
    <2>1. k \in Nat
      OBVIOUS
    <2> SUFFICES ASSUME k + 1 <= D PROVE Hundreds[k + 1] \in A
      BY <2>1
    <2>2. k + 1 \in 0 .. D /\ k + 1 # 0 /\ (k + 1) - 1 = k /\ k <= D
      BY <1>1, <2>1
    <2>3. Hundreds[k + 1] = 100 * Hundreds[k] /\ Hundreds[k] \in A
      BY <1>6, <2>2
    <2> QED
      BY <2>3 DEF A
  <1>9. T = Nat
    BY <1>7, <1>8, SetInduction
  <1>10. D - n \in Nat /\ D - n <= D
    BY <1>1 DEF D
  <1> HIDE DEF T
  <1>11. D - n \in T
    BY <1>9, <1>10
  <1> QED
    BY <1>10, <1>11 DEF T, Unit, A, D

-----------------------------------------------------------------------------
(* The items within so many levels below an item.                          *)

\* A set of items, and the parts of those of them that have a bill.
WithParts(map, set) ==
    set \cup {l.child : l \in UNION {Range(map[p]) : p \in set \cap DOMAIN map}}

LEMMA PartsAreItems ==
    ASSUME NEW map, IsBills(map), NEW set \in SUBSET Items
    PROVE  /\ WithParts(map, set) \in SUBSET Items
           /\ \A q \in WithParts(map, set) : q \in set \/ \E p \in set : PartOf(map, p, q)
  <1> SUFFICES ASSUME NEW q \in WithParts(map, set)
               PROVE  q \in Items /\ (q \in set \/ \E p \in set : PartOf(map, p, q))
    OBVIOUS
  <1>1. CASE q \in set
    BY <1>1
  <1>2. CASE q \notin set
    <2>1. PICK p \in set \cap DOMAIN map : \E l \in Range(map[p]) : q = l.child
      BY <1>2 DEF WithParts
    <2>2. PICK l \in Range(map[p]) : q = l.child
      BY <2>1
    <2>3. PICK i \in DOMAIN map[p] : l = map[p][i]
      BY <2>2 DEF Range
    <2>4. map[p] \in Seq(EngineLine)
      BY <2>1 DEF IsBills
    <2>5. l \in EngineLine
      BY <2>3, <2>4
    <2>6. q \in Items
      BY <2>2, <2>5 DEF EngineLine
    <2>7. PartOf(map, p, q)
      BY <2>1, <2>2, <2>3 DEF PartOf
    <2> QED
      BY <2>1, <2>6, <2>7
  <1> QED
    BY <1>1, <1>2

LEMMA BelowIsDeep ==
    ASSUME IsBills(calc.map), NEW item \in Items, NEW part \in Below(item)
    PROVE  \E k \in 0 .. (EngineDepth - 1) : Deep(calc.map, item, k, part)
  <1>1. PICK map : map = calc.map /\ IsBills(map)
    OBVIOUS
  <1>2. PICK N \in Nat : N = EngineDepth - 1
    BY EngineAssumption
  <1> DEFINE Step(f) == [n \in 0 .. N |->
                IF n = 0 THEN {item}
                ELSE f[n - 1] \cup {l.child : l \in UNION {Range(map[p]) :
                                                  p \in f[n - 1] \cap DOMAIN map}}]
             F == CHOOSE f : f = Step(f)
             A == SUBSET Items
             base == {item}
             step == [n \in 1 .. N |-> [set \in A |-> WithParts(map, set)]]
  <1>3. Below(item) = F[N]
    BY <1>1, <1>2 DEF Below
  <1>4. \A n \in 1 .. N : \A set \in A : step[n][set] = WithParts(map, set)
    OBVIOUS
  <1> HIDE DEF step
  <1>5. base \in A /\ \A n \in 1 .. N : \A set \in A : step[n][set] \in A
    BY <1>1, <1>4, PartsAreItems
  <1>6. PICK P : GoesBy(P, N, A, base, step)
    <2> HIDE DEF A, base
    <2> QED
      BY <1>2, <1>5, RecursionExists
  <1>7. ASSUME NEW f PROVE Step(f) = [n \in 0 .. N |-> IF n = 0 THEN base ELSE WithParts(map, f[n - 1])]
    BY DEF WithParts
  <1> HIDE DEF Step
  <1>8. P = Step(P)
    <2>1. P = [n \in 0 .. N |-> P[n]]
      BY <1>6 DEF GoesBy
    <2>2. ASSUME NEW n \in 0 .. N PROVE P[n] = IF n = 0 THEN base ELSE WithParts(map, P[n - 1])
      <3>1. CASE n = 0
        BY <1>6, <3>1 DEF GoesBy
      <3>2. CASE n # 0
        <4>1. n \in 1 .. N /\ n - 1 \in 0 .. N
          BY <1>2, <3>2
        <4>2. P[n] = step[n][P[n - 1]] /\ P[n - 1] \in A
          BY <1>6, <4>1 DEF GoesBy
        <4> QED
          BY <1>4, <3>2, <4>1, <4>2
      <3> QED
        BY <3>1, <3>2
    <2> HIDE DEF base
    <2> QED
      BY <1>7, <2>1, <2>2
  <1>9. F = Step(F)
    BY <1>8
  <1> HIDE DEF F
  <1>10. \A n \in 0 .. N : F[n] = IF n = 0 THEN {item} ELSE WithParts(map, F[n - 1])
    BY <1>7, <1>9
  <1> DEFINE Bounded(n) == /\ F[n] \in SUBSET Items
                          /\ \A q \in F[n] : \E k \in 0 .. n : Deep(map, item, k, q)
             T == {n \in Nat : n <= N => Bounded(n)}
  <1>11. 0 \in T
    <2>1. F[0] = {item} /\ 0 \in 0 .. 0
      BY <1>2, <1>10
    <2>2. Deep(map, item, 0, item)
      BY DeepItself
    <2> QED
      BY <2>1, <2>2
  <1>12. ASSUME NEW n \in T PROVE n + 1 \in T
    <2>1. n \in Nat
      OBVIOUS
    <2> SUFFICES ASSUME n + 1 <= N PROVE Bounded(n + 1)
      BY <2>1
    <2>2. n <= N /\ n + 1 \in 0 .. N /\ n + 1 # 0 /\ (n + 1) - 1 = n
      BY <1>2, <2>1
    <2>3. F[n + 1] = WithParts(map, F[n])
      BY <1>10, <2>2
    <2>4. Bounded(n)
      BY <2>2
    <2>5. F[n] \in SUBSET Items
      BY <2>4
    <2>6. /\ WithParts(map, F[n]) \in SUBSET Items
          /\ \A q \in WithParts(map, F[n]) : q \in F[n] \/ \E p \in F[n] : PartOf(map, p, q)
      BY <1>1, <2>5, PartsAreItems
    <2>7. ASSUME NEW q \in F[n + 1] PROVE \E k \in 0 .. (n + 1) : Deep(map, item, k, q)
      <3>1. CASE q \in F[n]
        <4>1. PICK k \in 0 .. n : Deep(map, item, k, q)
          BY <2>4, <3>1
        <4>2. k \in 0 .. (n + 1)
          BY <2>1
        <4> QED
          BY <4>1, <4>2
      <3>2. CASE q \notin F[n]
        <4>1. PICK p \in F[n] : PartOf(map, p, q)
          BY <2>3, <2>6, <3>2
        <4>2. PICK k \in 0 .. n : Deep(map, item, k, p)
          BY <2>4
        <4>3. q \in Items
          BY <2>3, <2>6
        <4>4. Deep(map, item, k + 1, q)
          BY <4>1, <4>2, <4>3, DeepAppend
        <4>5. k + 1 \in 0 .. (n + 1)
          BY <2>1
        <4> QED
          BY <4>4, <4>5
      <3> QED
        BY <3>1, <3>2
    <2> QED
      BY <2>3, <2>6, <2>7
  <1>13. T = Nat
    BY <1>11, <1>12, SetInduction
  <1>14. Bounded(N)
    <2> HIDE DEF T, Bounded
    <2>1. N \in T /\ N <= N
      BY <1>2, <1>13
    <2> QED
      BY <2>1 DEF T
  <1> QED
    BY <1>1, <1>2, <1>3, <1>14

-----------------------------------------------------------------------------
(* What an explosion adds to the gross requirements.                       *)

GrossEntry == [item : Items, qty : Int, need : Int, lead : Nat]

\* The entries of an item, of which there is one, are early enough for a demand.
InTimeFor(gross, x, need, lead) ==
    /\ \E i \in DOMAIN gross : gross[i].item = x
    /\ \A i \in DOMAIN gross : gross[i].item = x => gross[i].need <= need /\ gross[i].lead >= lead

\* more is gross with the entry of an item that is in time for a demand, and nothing lost.
Grows(gross, more, item, need, lead) ==
    /\ more \in Seq(GrossEntry)
    /\ InTimeFor(more, item, need, lead)
    /\ \A x : \A n \in Int, l \in Nat : InTimeFor(gross, x, n, l) => InTimeFor(more, x, n, l)
    /\ \A i \in DOMAIN more :
          more[i].item = item \/ \E j \in DOMAIN gross : gross[j].item = more[i].item

LEMMA AccumulatePlans ==
    ASSUME NEW gross \in Seq(GrossEntry), NEW item \in Items, NEW qty \in Int, NEW need \in Int,
           NEW lead \in Nat
    PROVE  Grows(gross, Accumulate(gross, item, qty, need, lead), item, need, lead)
  <1>1. DOMAIN gross = 1 .. Len(gross) /\ Len(gross) \in Nat
    OBVIOUS
  <1>2. \A i \in DOMAIN gross : gross[i] \in GrossEntry
    OBVIOUS
  <1>3. CASE Position(gross, item) = {}
    <2> DEFINE e == [item |-> item, qty |-> qty, need |-> need, lead |-> lead]
    <2>1. e \in GrossEntry /\ e.item = item /\ e.need = need /\ e.lead = lead
      BY DEF GrossEntry
    <2>2. Accumulate(gross, item, qty, need, lead) = Append(gross, e)
      BY <1>3 DEF Accumulate
    <2> HIDE DEF e
    <2> DEFINE a == Append(gross, e)
    <2>3. /\ a \in Seq(GrossEntry) /\ DOMAIN a = 1 .. (Len(gross) + 1)
          /\ a[Len(gross) + 1] = e /\ \A i \in 1 .. Len(gross) : a[i] = gross[i]
      BY <2>1
    <2> HIDE DEF a
    <2>4. \A i \in DOMAIN gross : gross[i].item # item
      BY <1>3 DEF Position
    <2>5. /\ \A i \in DOMAIN a : i \in DOMAIN gross \/ i = Len(gross) + 1
          /\ \A i \in DOMAIN gross : i \in DOMAIN a /\ a[i] = gross[i]
          /\ Len(gross) + 1 \in DOMAIN a
      BY <1>1, <2>3
    <2>6. InTimeFor(a, item, need, lead)
      BY <2>1, <2>3, <2>4, <2>5 DEF InTimeFor
    <2>7. ASSUME NEW x, NEW n \in Int, NEW l \in Nat, InTimeFor(gross, x, n, l)
          PROVE  InTimeFor(a, x, n, l)
      <3>1. x # item
        BY <2>4, <2>7 DEF InTimeFor
      <3> QED
        BY <2>1, <2>3, <2>5, <2>7, <3>1 DEF InTimeFor
    <2>8. ASSUME NEW i \in DOMAIN a
          PROVE  a[i].item = item \/ \E j \in DOMAIN gross : gross[j].item = a[i].item
      BY <2>1, <2>3, <2>5
    <2>9. Accumulate(gross, item, qty, need, lead) = a
      BY <2>2 DEF a
    <2>10. Grows(gross, a, item, need, lead)
      BY <2>3, <2>6, <2>7, <2>8 DEF Grows
    <2> QED
      BY <2>9, <2>10
  <1>4. CASE Position(gross, item) # {}
    <2> DEFINE a == [i \in DOMAIN gross |->
                       IF i \in Position(gross, item)
                       THEN [gross[i] EXCEPT !.qty = @ + qty, !.need = Smaller(@, need),
                                             !.lead = Larger(@, lead)]
                       ELSE gross[i]]
    <2>1. Accumulate(gross, item, qty, need, lead) = a
      BY <1>4 DEF Accumulate
    <2>2. DOMAIN a = DOMAIN gross
      OBVIOUS
    <2>3. ASSUME NEW i \in DOMAIN gross
          PROVE  /\ a[i] \in GrossEntry /\ a[i].item = gross[i].item
                 /\ a[i].need <= gross[i].need /\ a[i].lead >= gross[i].lead
                 /\ gross[i].item = item => a[i].need <= need /\ a[i].lead >= lead
      <3>1. gross[i] \in GrossEntry
        BY <1>2
      <3>2. gross[i].qty \in Int /\ gross[i].need \in Int /\ gross[i].lead \in Nat /\ gross[i].item \in Items
        BY <3>1 DEF GrossEntry
      <3>3. CASE i \in Position(gross, item)
        <4>1. PICK q \in Int : q = gross[i].qty + qty
          BY <3>2
        <4>2. PICK d \in Int : d = Smaller(gross[i].need, need) /\ d <= gross[i].need /\ d <= need
          BY <3>2 DEF Smaller
        <4>3. PICK t \in Nat : t = Larger(gross[i].lead, lead) /\ t >= gross[i].lead /\ t >= lead
          BY <3>2 DEF Larger
        <4>4. a[i] = [gross[i] EXCEPT !.qty = q, !.need = d, !.lead = t]
          BY <3>1, <3>3, <4>1, <4>2, <4>3 DEF GrossEntry
        <4> HIDE DEF a
        <4>5. PICK e \in GrossEntry : e = gross[i]
          BY <3>1
        <4>6. PICK f \in GrossEntry : f = [e EXCEPT !.qty = q, !.need = d, !.lead = t]
          BY DEF GrossEntry
        <4>7. f.item = e.item /\ f.need = d /\ f.lead = t
          BY <4>6 DEF GrossEntry
        <4>8. a[i] = f
          BY <4>4, <4>5, <4>6, Zenon
        <4>9. /\ f \in GrossEntry /\ f.item = gross[i].item
              /\ f.need <= gross[i].need /\ f.lead >= gross[i].lead
              /\ f.need <= need /\ f.lead >= lead
          BY <4>2, <4>3, <4>5, <4>7
        <4> QED
          BY <4>8, <4>9
      <3>4. CASE i \notin Position(gross, item)
        <4>1. a[i] = gross[i] /\ gross[i].item # item
          BY <3>4 DEF Position
        <4> HIDE DEF a
        <4> QED
          BY <3>1, <3>2, <4>1
      <3> QED
        BY <3>3, <3>4
    <2>4. a \in Seq(GrossEntry)
      <3>1. a = [i \in 1 .. Len(gross) |-> a[i]]
        BY <1>1
      <3> HIDE DEF a
      <3>2. \A i \in 1 .. Len(gross) : a[i] \in GrossEntry
        BY <1>1, <2>3
      <3>3. [i \in 1 .. Len(gross) |-> a[i]] \in [1 .. Len(gross) -> GrossEntry]
        BY <3>2
      <3> QED
        BY <1>1, <3>1, <3>3
    <2> HIDE DEF a
    <2>5. \E i \in DOMAIN gross : gross[i].item = item
      BY <1>4 DEF Position
    <2>6. InTimeFor(a, item, need, lead)
      BY <2>2, <2>3, <2>5 DEF InTimeFor
    <2>7. ASSUME NEW x, NEW n \in Int, NEW l \in Nat, InTimeFor(gross, x, n, l)
          PROVE  InTimeFor(a, x, n, l)
      <3>1. \E i \in DOMAIN a : a[i].item = x
        BY <2>2, <2>3, <2>7 DEF InTimeFor
      <3>2. ASSUME NEW i \in DOMAIN a, a[i].item = x PROVE a[i].need <= n /\ a[i].lead >= l
        <4>1. a[i] \in GrossEntry /\ gross[i] \in GrossEntry
          BY <1>2, <2>2, <2>3
        <4>2. a[i].need \in Int /\ a[i].lead \in Nat /\ gross[i].need \in Int /\ gross[i].lead \in Nat
          BY <4>1 DEF GrossEntry
        <4>3. gross[i].item = x /\ a[i].need <= gross[i].need /\ a[i].lead >= gross[i].lead
          BY <2>2, <2>3, <3>2
        <4>4. gross[i].need <= n /\ gross[i].lead >= l
          BY <2>2, <2>7, <4>3 DEF InTimeFor
        <4> QED
          BY <4>2, <4>3, <4>4
      <3> QED
        BY <3>1, <3>2 DEF InTimeFor
    <2>8. \A i \in DOMAIN a : \E j \in DOMAIN gross : gross[j].item = a[i].item
      BY <2>2, <2>3
    <2>9. Grows(gross, a, item, need, lead)
      BY <2>4, <2>6, <2>7, <2>8 DEF Grows
    <2> QED
      BY <2>1, <2>9
  <1> QED
    BY <1>3, <1>4

\* The requirements an explosion goes through, one leaf after the other.
AddLeaf(demand, gross, leaf) ==
    Accumulate(gross, leaf.item, demand.qty * (leaf.per * Unit(leaf.lines)),
               demand.delivery, leaf.lead)

LEMMA AddsPositive ==
    ASSUME NEW demand \in EngineDemand, NEW leaf \in NearLeaf
    PROVE  /\ leaf.per * Unit(leaf.lines) \in Nat \ {0}
           /\ demand.qty * (leaf.per * Unit(leaf.lines)) \in Nat \ {0}
  <1>1. leaf.lines \in 0 .. EngineDepth
    BY EngineAssumption DEF Leaf, NearLeaf
  <1>2. PICK u \in Nat \ {0} : u = Unit(leaf.lines)
    BY <1>1, UnitIsPositive
  <1>3. PICK per \in Nat \ {0}, qty \in Nat \ {0} : per = leaf.per /\ qty = demand.qty
    BY DEF Leaf, NearLeaf, EngineDemand
  <1>4. PICK asked \in Nat \ {0} : asked = per * u
    BY ProductIsPositive
  <1>5. qty * asked \in Nat \ {0}
    BY ProductIsPositive
  <1> QED
    BY <1>2, <1>3, <1>4, <1>5

LEMMA AddLeafPlans ==
    ASSUME NEW demand \in EngineDemand, NEW gross \in Seq(GrossEntry), NEW leaf \in NearLeaf
    PROVE  Grows(gross, AddLeaf(demand, gross, leaf), leaf.item, demand.delivery, leaf.lead)
  <1>1. leaf.item \in Items /\ leaf.lead \in Nat
    BY DEF Leaf, NearLeaf
  <1>2. demand.delivery \in Int
    BY DEF EngineDemand
  <1>3. PICK qty \in Nat \ {0} : qty = demand.qty * (leaf.per * Unit(leaf.lines))
    BY AddsPositive
  <1>4. AddLeaf(demand, gross, leaf)
           = Accumulate(gross, leaf.item, qty, demand.delivery, leaf.lead)
    BY <1>3 DEF AddLeaf
  <1> QED
    BY <1>1, <1>2, <1>4, AccumulatePlans

IsExplosion(P, demand, gross, leaves) ==
    /\ P \in [0 .. Len(leaves) -> Seq(GrossEntry)]
    /\ P[0] = gross
    /\ \A k \in 1 .. Len(leaves) : P[k] = AddLeaf(demand, P[k - 1], leaves[k])

LEMMA ExplodeGoes ==
    ASSUME NEW map, NEW demand \in EngineDemand, NEW gross \in Seq(GrossEntry),
           NEW leaves \in Seq(NearLeaf), leaves = LeavesOf(map)[demand.item]
    PROVE  \E P : /\ IsExplosion(P, demand, gross, leaves)
                  /\ P[Len(leaves)] = Explode(gross, map, demand)
  <1> DEFINE n == Len(leaves)
             A == Seq(GrossEntry)
             Step(f) == [s \in SUBSET (1 .. n) |->
                IF s = {} THEN gross ELSE AddLeaf(demand, f[s \ {Max(s)}], leaves[Max(s)])]
             F == CHOOSE f : f = Step(f)
             g == [k \in 1 .. n |-> [a \in A |-> AddLeaf(demand, a, leaves[k])]]
  <1>1. n \in Nat /\ \A k \in 1 .. n : leaves[k] \in NearLeaf
    OBVIOUS
  <1>2. Explode(gross, map, demand) = F[1 .. n]
    <2>1. DOMAIN leaves = 1 .. n
      OBVIOUS
    <2> QED
      BY <2>1 DEF Explode, AddLeaf, FoldLeft, MapThenFoldSet
  <1> HIDE DEF n
  <1>3. \A k \in 1 .. n : \A a \in A : g[k][a] = AddLeaf(demand, a, leaves[k])
    OBVIOUS
  <1> HIDE DEF g
  <1>4. \A k \in 1 .. n : \A a \in A : g[k][a] \in A
    BY <1>1, <1>3, AddLeafPlans DEF Grows
  <1>5. gross \in A
    OBVIOUS
  <1> HIDE DEF A
  <1>6. \A s \in SUBSET (1 .. n) : s # {} => Max(s) \in 1 .. n
    BY <1>1, MaxIsMember
  <1>7. F = Step(F)
    <2>1. PICK f : IsFold(f, n, A, gross, g)
      BY <1>1, <1>4, <1>5, FoldFunctionExists
    <2>2. ASSUME NEW s \in SUBSET (1 .. n)
          PROVE  f[s] = IF s = {} THEN gross ELSE AddLeaf(demand, f[s \ {Max(s)}], leaves[Max(s)])
      <3>1. f[s \ {Max(s)}] \in A
        BY <2>1 DEF IsFold
      <3> QED
        BY <1>3, <1>6, <2>1, <3>1 DEF IsFold
    <2>3. f = Step(f)
      BY <2>1, <2>2 DEF IsFold
    <2> QED
      BY <2>3
  <1>8. \A s \in SUBSET (1 .. n) :
           F[s] = IF s = {} THEN gross ELSE AddLeaf(demand, F[s \ {Max(s)}], leaves[Max(s)])
    BY <1>7
  <1> HIDE DEF F, Step
  <1>9. TakesSteps(F, n, A, gross, g) /\ StepsWithin(n, A, g)
    BY <1>3, <1>4, <1>6, <1>8 DEF TakesSteps, StepsWithin
  <1>10. PICK P : GoesBy(P, n, A, gross, g) /\ P[n] = F[1 .. n]
    BY <1>1, <1>5, <1>9, FoldGoes
  <1>11. ASSUME NEW k \in 1 .. n PROVE P[k] = AddLeaf(demand, P[k - 1], leaves[k])
    <2>1. k - 1 \in 0 .. n
      BY <1>1
    <2> QED
      BY <1>3, <1>10, <2>1 DEF GoesBy
  <1>12. P \in [0 .. n -> A] /\ P[0] = gross
    BY <1>10 DEF GoesBy
  <1>13. P[n] = Explode(gross, map, demand)
    BY <1>2, <1>10
  <1>14. IsExplosion(P, demand, gross, leaves)
    BY <1>11, <1>12 DEF IsExplosion, A, n
  <1> QED
    BY <1>13, <1>14 DEF n

LEMMA ExplodePlans ==
    ASSUME NEW map, IsBills(map), NEW demand \in EngineDemand, NEW gross \in Seq(GrossEntry)
    PROVE  /\ Explode(gross, map, demand) \in Seq(GrossEntry)
           /\ \A x : \A n \in Int, l \in Nat :
                 InTimeFor(gross, x, n, l) => InTimeFor(Explode(gross, map, demand), x, n, l)
           /\ \A x, l : Material(map, demand.item, EngineDepth, x, l)
                           => InTimeFor(Explode(gross, map, demand), x, demand.delivery, l)
           /\ \A i \in DOMAIN Explode(gross, map, demand) :
                 \/ \E l : Material(map, demand.item, EngineDepth,
                                   Explode(gross, map, demand)[i].item, l)
                 \/ \E j \in DOMAIN gross : gross[j].item = Explode(gross, map, demand)[i].item
  <1>1. demand.item \in Items /\ demand.delivery \in Int
    BY DEF EngineDemand
  <1>2. PICK leaves \in Seq(NearLeaf) : leaves = LeavesOf(map)[demand.item]
    BY <1>1, LeavesAreNear
  <1>3. \A x, l : HasLeaf(leaves, x, l) <=> Material(map, demand.item, EngineDepth, x, l)
    BY <1>1, <1>2, LeavesAreMaterials
  <1>4. PICK P : /\ IsExplosion(P, demand, gross, leaves)
                  /\ P[Len(leaves)] = Explode(gross, map, demand)
    BY <1>2, ExplodeGoes
  <1>5. /\ P \in [0 .. Len(leaves) -> Seq(GrossEntry)]
        /\ P[0] = gross /\ P[Len(leaves)] = Explode(gross, map, demand)
        /\ \A k \in 1 .. Len(leaves) : P[k] = AddLeaf(demand, P[k - 1], leaves[k])
    BY <1>4 DEF IsExplosion
  <1> DEFINE n == Len(leaves)
             Kept(k) == \A x : \A d \in Int, l \in Nat : InTimeFor(gross, x, d, l) => InTimeFor(P[k], x, d, l)
             Grown(k) == \A i \in 1 .. k : InTimeFor(P[k], leaves[i].item, demand.delivery, leaves[i].lead)
             FromBelow(k) == \A i \in DOMAIN P[k] :
                            \/ \E l : HasLeaf(leaves, P[k][i].item, l)
                            \/ \E j \in DOMAIN gross : gross[j].item = P[k][i].item
             T == {k \in Nat : k <= n => Kept(k) /\ Grown(k) /\ FromBelow(k)}
  <1>6. n \in Nat /\ DOMAIN leaves = 1 .. n /\ \A k \in 1 .. n : leaves[k] \in NearLeaf
    OBVIOUS
  <1>7. \A k \in 1 .. n : HasLeaf(leaves, leaves[k].item, leaves[k].lead) /\ leaves[k].lead \in Nat
    BY <1>6 DEF HasLeaf, Leaf, NearLeaf
  <1>8. 0 \in T
    BY <1>5
  <1>9. ASSUME NEW k \in T PROVE k + 1 \in T
    <2>1. k \in Nat
      OBVIOUS
    <2> SUFFICES ASSUME k + 1 <= n PROVE Kept(k + 1) /\ Grown(k + 1) /\ FromBelow(k + 1)
      BY <2>1
    <2>2. k + 1 \in 1 .. n /\ k \in 0 .. n /\ k <= n /\ (k + 1) - 1 = k
      BY <1>6, <2>1
    <2>3. Kept(k) /\ Grown(k) /\ FromBelow(k)
      BY <2>2
    <2>4. PICK q \in Seq(GrossEntry) : q = P[k]
      BY <1>5, <2>2
    <2>5. PICK leaf \in NearLeaf : leaf = leaves[k + 1]
      BY <1>6, <2>2
    <2>6. P[k + 1] = AddLeaf(demand, q, leaf)
      BY <1>5, <2>2, <2>4, <2>5
    <2> HIDE DEF T, Kept, Grown, FromBelow, n
    <2>7. /\ InTimeFor(P[k + 1], leaf.item, demand.delivery, leaf.lead)
          /\ \A x : \A d \in Int, l \in Nat : InTimeFor(q, x, d, l) => InTimeFor(P[k + 1], x, d, l)
          /\ \A i \in DOMAIN P[k + 1] :
                P[k + 1][i].item = leaf.item \/ \E j \in DOMAIN q : q[j].item = P[k + 1][i].item
      BY <2>6, AddLeafPlans DEF Grows
    <2>8. Kept(k + 1)
      BY <2>3, <2>4, <2>7 DEF Kept
    <2>9. Grown(k + 1)
      <3> USE DEF Grown
      <3> TAKE i \in 1 .. (k + 1)
      <3>1. CASE i = k + 1
        BY <2>5, <2>7, <3>1
      <3>2. CASE i # k + 1
        <4>1. i \in 1 .. k /\ i \in 1 .. n
          BY <1>6, <2>1, <2>2, <3>2
        <4>2. InTimeFor(q, leaves[i].item, demand.delivery, leaves[i].lead)
          BY <2>3, <2>4, <4>1
        <4> QED
          BY <1>1, <1>7, <2>7, <4>1, <4>2
      <3> QED
        BY <3>1, <3>2
    <2>10. FromBelow(k + 1)
      <3>1. HasLeaf(leaves, leaf.item, leaf.lead)
        BY <1>7, <2>2, <2>5
      <3> QED
        BY <2>3, <2>4, <2>7, <3>1 DEF FromBelow
    <2> QED
      BY <2>8, <2>9, <2>10
  <1>10. T = Nat
    BY <1>8, <1>9, SetInduction
  <1>11. Kept(n) /\ Grown(n) /\ FromBelow(n)
    <2> HIDE DEF T, Kept, Grown, FromBelow
    <2>1. n \in T /\ n <= n
      BY <1>6, <1>10
    <2> QED
      BY <2>1 DEF T
  <1>12. ASSUME NEW x, NEW l, Material(map, demand.item, EngineDepth, x, l)
         PROVE  InTimeFor(P[n], x, demand.delivery, l)
    <2>1. PICK i \in 1 .. n : leaves[i].item = x /\ leaves[i].lead = l
      BY <1>3, <1>6, <1>12 DEF HasLeaf
    <2> QED
      BY <1>11, <2>1
  <1>13. P[n] \in Seq(GrossEntry)
    BY <1>5, <1>6
  <1>14. ASSUME NEW i \in DOMAIN P[n]
         PROVE  \/ \E l : Material(map, demand.item, EngineDepth, P[n][i].item, l)
                \/ \E j \in DOMAIN gross : gross[j].item = P[n][i].item
    BY <1>3, <1>11
  <1> QED
    BY <1>5, <1>11, <1>12, <1>13, <1>14

-----------------------------------------------------------------------------
(* The order of the lines.                                                 *)

PlanLines(rows) == {LineOf(rows, g) : g \in GrossEntry}

Sorted(lines) == \A i, j \in DOMAIN lines : i < j => lines[i].orderBy <= lines[j].orderBy

\* No item twice.
OneEach(lines) == \A i, j \in DOMAIN lines : lines[i].item = lines[j].item => i = j

SortedLines(rows) == {lines \in Seq(PlanLines(rows)) : Sorted(lines)}

LEMMA PlanLineDates ==
    ASSUME NEW rows, NEW g \in GrossEntry
    PROVE  /\ LineOf(rows, g) \in PlanLines(rows)
           /\ LineOf(rows, g).item = g.item /\ LineOf(rows, g).orderBy = g.need - g.lead
           /\ LineOf(rows, g).orderBy \in Int
  <1>1. g.need \in Int /\ g.lead \in Nat
    BY DEF GrossEntry
  <1>2. LineOf(rows, g).item = g.item /\ LineOf(rows, g).orderBy = g.need - g.lead
    BY DEF LineOf
  <1> QED
    BY <1>1, <1>2 DEF PlanLines

\* A line is put behind those that are at least as urgent, which are the first ones.
LEMMA BeforeIsPrefix ==
    ASSUME NEW rows, NEW sorted \in SortedLines(rows), NEW line \in PlanLines(rows)
    PROVE  \E m \in 0 .. Len(sorted) :
              /\ Cardinality({i \in DOMAIN sorted : ~ Sooner(line, sorted[i])}) = m
              /\ \A i \in 1 .. m : sorted[i].orderBy <= line.orderBy
              /\ \A i \in (m + 1) .. Len(sorted) : line.orderBy < sorted[i].orderBy
  <1> DEFINE N == {i \in DOMAIN sorted : ~ Sooner(line, sorted[i])}
             n == Len(sorted)
  <1>1. n \in Nat /\ DOMAIN sorted = 1 .. n /\ \A i \in 1 .. n : sorted[i] \in PlanLines(rows)
    BY DEF SortedLines
  <1>2. \A l \in PlanLines(rows) : l.orderBy \in Int
    BY PlanLineDates DEF PlanLines
  <1>3. line.orderBy \in Int /\ \A i \in 1 .. n : sorted[i].orderBy \in Int
    BY <1>1, <1>2
  <1>4. \A i \in 1 .. n : i \in N <=> sorted[i].orderBy <= line.orderBy
    BY <1>1, <1>3 DEF Sooner
  <1>5. \A i, j \in 1 .. n : i < j => sorted[i].orderBy <= sorted[j].orderBy
    BY <1>1 DEF SortedLines, Sorted
  <1>6. N \in SUBSET (1 .. n)
    BY <1>1
  <1> HIDE DEF N, n
  <1>7. PICK m \in 0 .. n : N = 1 .. m
    <2>1. CASE N = {}
      <3>1. N = 1 .. 0 /\ 0 \in 0 .. n
        BY <1>1, <2>1
      <3> QED
        BY <3>1
    <2>2. CASE N # {}
      <3>1. Max(N) \in N /\ \A i \in N : Max(N) >= i
        BY <1>1, <1>6, <2>2, MaxIsMember
      <3>2. PICK m \in 1 .. n : m = Max(N)
        BY <1>6, <3>1
      <3>3. ASSUME NEW i \in 1 .. m PROVE i \in N
        <4>1. CASE i = m
          BY <3>1, <3>2, <4>1
        <4>2. CASE i # m
          <5>1. i \in 1 .. n /\ i < m
            BY <1>1, <4>2
          <5>2. sorted[i].orderBy <= sorted[m].orderBy /\ sorted[m].orderBy <= line.orderBy
            BY <1>4, <1>5, <3>1, <3>2, <5>1
          <5> QED
            BY <1>3, <1>4, <5>1, <5>2
        <4> QED
          BY <4>1, <4>2
      <3>4. ASSUME NEW i \in N PROVE i \in 1 .. m
        <4>1. i \in 1 .. n /\ m >= i
          BY <1>6, <3>1, <3>2
        <4> QED
          BY <1>1, <4>1
      <3>5. N = 1 .. m
        BY <3>3, <3>4, Zenon
      <3>6. m \in 0 .. n
        BY <1>1
      <3> QED
        BY <3>5, <3>6
    <2> QED
      BY <2>1, <2>2
  <1>8. Cardinality(N) = m
    <2>1. CASE m = 0
      BY <1>7, <2>1, FS_EmptySet
    <2>2. CASE m # 0
      <3>1. Cardinality(1 .. m) = m - 1 + 1
        BY <1>1, <2>2, FS_Interval
      <3> QED
        BY <1>1, <1>7, <3>1
    <2> QED
      BY <2>1, <2>2
  <1>9. \A i \in 1 .. m : sorted[i].orderBy <= line.orderBy
    BY <1>1, <1>4, <1>7
  <1>10. ASSUME NEW i \in (m + 1) .. n PROVE line.orderBy < sorted[i].orderBy
    <2>1. i \in 1 .. n /\ i \notin 1 .. m
      BY <1>1
    <2> QED
      BY <1>3, <1>4, <1>7, <2>1
  <1> QED
    BY <1>8, <1>9, <1>10 DEF N, n

LEMMA InsertKeepsOrder ==
    ASSUME NEW rows, NEW sorted \in SortedLines(rows), NEW line \in PlanLines(rows)
    PROVE  /\ InsertLine(sorted, line) \in SortedLines(rows)
           /\ \A i \in DOMAIN InsertLine(sorted, line) :
                 \/ InsertLine(sorted, line)[i] = line
                 \/ \E j \in DOMAIN sorted : InsertLine(sorted, line)[i] = sorted[j]
           /\ \E i \in DOMAIN InsertLine(sorted, line) : InsertLine(sorted, line)[i] = line
           /\ \A j \in DOMAIN sorted :
                 \E i \in DOMAIN InsertLine(sorted, line) : InsertLine(sorted, line)[i] = sorted[j]
           /\ OneEach(sorted) /\ (\A j \in DOMAIN sorted : sorted[j].item # line.item)
                 => OneEach(InsertLine(sorted, line))
  <1> DEFINE n == Len(sorted)
             S == PlanLines(rows)
  <1>1. n \in Nat /\ DOMAIN sorted = 1 .. n /\ sorted \in Seq(S) /\ \A i \in 1 .. n : sorted[i] \in S
    BY DEF SortedLines
  <1>2. PICK m \in 0 .. n :
           /\ Cardinality({i \in DOMAIN sorted : ~ Sooner(line, sorted[i])}) = m
           /\ \A i \in 1 .. m : sorted[i].orderBy <= line.orderBy
           /\ \A i \in (m + 1) .. n : line.orderBy < sorted[i].orderBy
    BY BeforeIsPrefix
  <1> DEFINE head == SubSeq(sorted, 1, m)
             tail == SubSeq(sorted, m + 1, n)
             a == head \o <<line>> \o tail
  <1>3. InsertLine(sorted, line) = a
    BY <1>2 DEF InsertLine
  <1>4. head \in Seq(S) /\ Len(head) = m /\ \A i \in 1 .. m : head[i] = sorted[i]
    BY <1>1
  <1>5. tail \in Seq(S) /\ Len(tail) = n - m /\ \A i \in 1 .. (n - m) : tail[i] = sorted[m + i]
    <2> HIDE DEF n, S
    <2>1. m + 1 \in Int /\ n \in Int /\ \A i \in (m + 1) .. n : sorted[i] \in S
      BY <1>1
    <2>2. /\ SubSeq(sorted, m + 1, n) \in Seq(S)
          /\ Len(SubSeq(sorted, m + 1, n)) = IF m + 1 <= n THEN n - (m + 1) + 1 ELSE 0
          /\ \A i \in 1 .. n - (m + 1) + 1 : SubSeq(sorted, m + 1, n)[i] = sorted[(m + 1) + i - 1]
      BY <2>1, SubSeqProperties
    <2>3. n - (m + 1) + 1 = n - m /\ (m + 1 <= n \/ n - m = 0) /\ \A i \in 1 .. (n - m) : (m + 1) + i - 1 = m + i
      BY <1>1
    <2> QED
      BY <2>2, <2>3
  <1> HIDE DEF head, tail, S, n
  <1>6. <<line>> \in Seq(S) /\ Len(<<line>>) = 1 /\ <<line>>[1] = line
    BY DEF S
  <1>7. /\ a \in Seq(S) /\ Len(a) = n + 1
        /\ \A i \in 1 .. m : a[i] = sorted[i]
        /\ a[m + 1] = line
        /\ \A i \in (m + 2) .. (n + 1) : a[i] = sorted[i - 1]
    <2> DEFINE b == head \o <<line>>
    <2>1. /\ b \in Seq(S) /\ Len(b) = m + 1
          /\ \A i \in 1 .. m : b[i] = head[i]
          /\ b[m + 1] = line
      BY <1>1, <1>4, <1>6, ConcatProperties
    <2> HIDE DEF b
    <2>2. a = b \o tail
      BY DEF b
    <2>3. /\ b \o tail \in Seq(S) /\ Len(b \o tail) = Len(b) + Len(tail)
          /\ \A i \in 1 .. Len(b) + Len(tail) :
                (b \o tail)[i] = IF i <= Len(b) THEN b[i] ELSE tail[i - Len(b)]
      BY <1>5, <2>1, ConcatProperties
    <2>4. b \o tail \in Seq(S) /\ Len(b \o tail) = n + 1
      BY <1>1, <1>5, <2>1, <2>3
    <2>5. \A i \in 1 .. (m + 1) : (b \o tail)[i] = b[i]
      BY <1>1, <1>5, <2>1, <2>3
    <2>6. ASSUME NEW i \in (m + 2) .. (n + 1) PROVE (b \o tail)[i] = sorted[i - 1]
      <3>1. i - (m + 1) \in 1 .. (n - m) /\ m + (i - (m + 1)) = i - 1
        BY <1>1
      <3>2. (b \o tail)[i] = tail[i - (m + 1)]
        BY <1>1, <1>5, <2>1, <2>3
      <3> QED
        BY <1>5, <3>1, <3>2
    <2>7. \A i \in 1 .. m : i \in 1 .. (m + 1)
      BY <1>1
    <2>8. m + 1 \in 1 .. (m + 1)
      BY <1>1
    <2> HIDE DEF a
    <2> QED
      BY <1>4, <2>1, <2>2, <2>4, <2>5, <2>6, <2>7, <2>8
  <1> HIDE DEF a
  <1>8. DOMAIN a = 1 .. (n + 1)
    BY <1>1, <1>7
  <1>9. \A i \in 1 .. (n + 1) : \/ i \in 1 .. m /\ i \in 1 .. n
                                \/ i = m + 1
                                \/ i \in (m + 2) .. (n + 1) /\ i - 1 \in (m + 1) .. n /\ i - 1 \in 1 .. n
    BY <1>1
  <1>10. \A i \in 1 .. (n + 1) : a[i] = line \/ \E j \in 1 .. n : a[i] = sorted[j]
    BY <1>7, <1>9
  <1>11. line.orderBy \in Int /\ \A i \in 1 .. n : sorted[i].orderBy \in Int
    BY <1>1, PlanLineDates DEF PlanLines, S
  <1>12. \A i, j \in 1 .. n : i < j => sorted[i].orderBy <= sorted[j].orderBy
    BY <1>1 DEF SortedLines, Sorted
  <1>13. ASSUME NEW i \in 1 .. (n + 1), NEW j \in 1 .. (n + 1), i < j
         PROVE  a[i].orderBy <= a[j].orderBy
    <2>1. CASE i \in 1 .. m /\ i \in 1 .. n
      <3>1. CASE j \in 1 .. m /\ j \in 1 .. n
        BY <1>7, <1>12, <1>13, <2>1, <3>1
      <3>2. CASE j = m + 1
        BY <1>2, <1>7, <2>1, <3>2
      <3>3. CASE j \in (m + 2) .. (n + 1) /\ j - 1 \in (m + 1) .. n /\ j - 1 \in 1 .. n
        <4>1. sorted[i].orderBy <= line.orderBy /\ line.orderBy < sorted[j - 1].orderBy
          BY <1>2, <2>1, <3>3
        <4>2. sorted[i].orderBy <= sorted[j - 1].orderBy
          BY <1>11, <2>1, <3>3, <4>1
        <4> QED
          BY <1>7, <2>1, <3>3, <4>2
      <3> QED
        BY <1>9, <3>1, <3>2, <3>3
    <2>2. CASE i = m + 1
      <3>1. j \in (m + 2) .. (n + 1) /\ j - 1 \in (m + 1) .. n /\ j - 1 \in 1 .. n
        BY <1>1, <1>13, <2>2
      <3>2. line.orderBy < sorted[j - 1].orderBy
        BY <1>2, <3>1
      <3>3. line.orderBy <= sorted[j - 1].orderBy
        BY <1>11, <3>1, <3>2
      <3> QED
        BY <1>7, <2>2, <3>1, <3>3
    <2>3. CASE i \in (m + 2) .. (n + 1) /\ i - 1 \in (m + 1) .. n /\ i - 1 \in 1 .. n
      <3>1. j \in (m + 2) .. (n + 1) /\ j - 1 \in 1 .. n /\ i - 1 < j - 1
        BY <1>1, <1>13, <2>3
      <3> QED
        BY <1>7, <1>12, <2>3, <3>1
    <2> QED
      BY <1>9, <2>1, <2>2, <2>3
  <1>14. Sorted(a)
    BY <1>8, <1>13 DEF Sorted
  <1>15. m + 1 \in 1 .. (n + 1)
    BY <1>1
  <1>16. ASSUME NEW j \in 1 .. n PROVE \E i \in 1 .. (n + 1) : a[i] = sorted[j]
    <2>1. CASE j \in 1 .. m
      <3>1. j \in 1 .. (n + 1)
        BY <1>1
      <3> QED
        BY <1>7, <2>1, <3>1
    <2>2. CASE j \notin 1 .. m
      <3>1. j + 1 \in (m + 2) .. (n + 1) /\ j + 1 \in 1 .. (n + 1) /\ (j + 1) - 1 = j
        BY <1>1, <2>2
      <3>2. a[j + 1] = sorted[j]
        BY <1>7, <3>1
      <3> QED
        BY <3>1, <3>2
    <2> QED
      BY <2>1, <2>2
  <1>17. a \in SortedLines(rows)
    BY <1>7, <1>14 DEF SortedLines, S
  <1>18. ASSUME OneEach(sorted), \A j \in 1 .. n : sorted[j].item # line.item
         PROVE  OneEach(a)
    <2>1. \A i, j \in 1 .. n : sorted[i].item = sorted[j].item => i = j
      BY <1>1, <1>18 DEF OneEach
    <2>2. \A i \in 1 .. (n + 1) : i # m + 1 =>
             \E k \in 1 .. n : a[i] = sorted[k] /\ k = IF i <= m THEN i ELSE i - 1
      <3> SUFFICES ASSUME NEW i \in 1 .. (n + 1), i # m + 1
                   PROVE  \E k \in 1 .. n : a[i] = sorted[k] /\ k = IF i <= m THEN i ELSE i - 1
        OBVIOUS
      <3>1. CASE i \in 1 .. m /\ i \in 1 .. n
        BY <1>1, <1>7, <3>1
      <3>2. CASE i \in (m + 2) .. (n + 1) /\ i - 1 \in (m + 1) .. n /\ i - 1 \in 1 .. n
        <4>1. a[i] = sorted[i - 1] /\ ~ (i <= m)
          BY <1>1, <1>7, <3>2
        <4> QED
          BY <3>2, <4>1
      <3> QED
        BY <1>9, <3>1, <3>2
    <2>3. ASSUME NEW i \in 1 .. (n + 1), NEW j \in 1 .. (n + 1), a[i].item = a[j].item
          PROVE  i = j
      <3>1. CASE i = m + 1 \/ j = m + 1
        BY <1>7, <1>18, <2>2, <2>3, <3>1
      <3>2. CASE i # m + 1 /\ j # m + 1
        <4>1. PICK k \in 1 .. n : a[i] = sorted[k] /\ k = IF i <= m THEN i ELSE i - 1
          BY <2>2, <3>2
        <4>2. PICK l \in 1 .. n : a[j] = sorted[l] /\ l = IF j <= m THEN j ELSE j - 1
          BY <2>2, <3>2
        <4>3. k = l
          BY <2>1, <2>3, <4>1, <4>2
        <4> QED
          BY <1>1, <3>2, <4>1, <4>2, <4>3
      <3> QED
        BY <3>1, <3>2
    <2> QED
      BY <1>8, <2>3 DEF OneEach
  <1> QED
    BY <1>1, <1>3, <1>7, <1>8, <1>10, <1>15, <1>16, <1>17, <1>18

LEMMA LinesAreSorted ==
    ASSUME NEW rows, NEW gross \in Seq(GrossEntry)
    PROVE  /\ LinesOf(rows, gross) \in SortedLines(rows)
           /\ \A i \in DOMAIN LinesOf(rows, gross) :
                 \E j \in DOMAIN gross : LinesOf(rows, gross)[i] = LineOf(rows, gross[j])
           /\ \A j \in DOMAIN gross :
                 \E i \in DOMAIN LinesOf(rows, gross) : LinesOf(rows, gross)[i] = LineOf(rows, gross[j])
           /\ OneEach(gross) => OneEach(LinesOf(rows, gross))
  <1> DEFINE n == Len(gross)
             A == SortedLines(rows)
             Step(f) == [s \in SUBSET (1 .. n) |->
                IF s = {} THEN <<>> ELSE InsertLine(f[s \ {Max(s)}], LineOf(rows, gross[Max(s)]))]
             F == CHOOSE f : f = Step(f)
             g == [k \in 1 .. n |-> [a \in A |-> InsertLine(a, LineOf(rows, gross[k]))]]
             base == <<>>
  <1>1. n \in Nat /\ DOMAIN gross = 1 .. n /\ \A k \in 1 .. n : gross[k] \in GrossEntry
    OBVIOUS
  <1>2. LinesOf(rows, gross) = F[1 .. n]
    <2>1. DOMAIN gross = 1 .. n
      OBVIOUS
    <2> QED
      BY <2>1 DEF LinesOf, FoldLeft, MapThenFoldSet
  <1> HIDE DEF n
  <1>3. \A k \in 1 .. n : \A a \in A : g[k][a] = InsertLine(a, LineOf(rows, gross[k]))
    OBVIOUS
  <1> HIDE DEF g
  <1>4. \A k \in 1 .. n : LineOf(rows, gross[k]) \in PlanLines(rows)
    BY <1>1, PlanLineDates
  <1>5. \A k \in 1 .. n : \A a \in A : g[k][a] \in A
    BY <1>3, <1>4, InsertKeepsOrder
  <1>6. base \in A
    <2>1. <<>> \in Seq(PlanLines(rows)) /\ DOMAIN <<>> = {}
      OBVIOUS
    <2> QED
      BY <2>1 DEF SortedLines, Sorted
  <1> HIDE DEF A, base
  <1>7. \A s \in SUBSET (1 .. n) : s # {} => Max(s) \in 1 .. n
    BY <1>1, MaxIsMember
  <1>8. F = Step(F)
    <2>1. PICK f : IsFold(f, n, A, base, g)
      BY <1>1, <1>5, <1>6, FoldFunctionExists
    <2>2. ASSUME NEW s \in SUBSET (1 .. n)
          PROVE  f[s] = IF s = {} THEN base
                        ELSE InsertLine(f[s \ {Max(s)}], LineOf(rows, gross[Max(s)]))
      <3>1. f[s \ {Max(s)}] \in A
        BY <2>1 DEF IsFold
      <3> QED
        BY <1>3, <1>7, <2>1, <3>1 DEF IsFold
    <2>3. f = Step(f)
      BY <2>1, <2>2 DEF IsFold, base
    <2> QED
      BY <2>3
  <1>9. \A s \in SUBSET (1 .. n) :
           F[s] = IF s = {} THEN base ELSE InsertLine(F[s \ {Max(s)}], LineOf(rows, gross[Max(s)]))
    BY <1>8 DEF base
  <1> HIDE DEF F, Step
  <1>10. TakesSteps(F, n, A, base, g) /\ StepsWithin(n, A, g)
    BY <1>3, <1>5, <1>7, <1>9 DEF TakesSteps, StepsWithin
  <1>11. PICK P : GoesBy(P, n, A, base, g) /\ P[n] = F[1 .. n]
    BY <1>1, <1>6, <1>10, FoldGoes
  <1> DEFINE FromGross(k) == \A i \in DOMAIN P[k] : \E j \in 1 .. k : P[k][i] = LineOf(rows, gross[j])
             OfGross(k) == \A j \in 1 .. k : \E i \in DOMAIN P[k] : P[k][i] = LineOf(rows, gross[j])
             Apart(k) == OneEach(gross) => OneEach(P[k])
             T == {k \in Nat : k <= n => FromGross(k) /\ OfGross(k) /\ Apart(k)}
  <1>12. 0 \in T
    BY <1>11 DEF GoesBy, base, OneEach
  <1>13. ASSUME NEW k \in T PROVE k + 1 \in T
    <2>1. k \in Nat
      OBVIOUS
    <2> SUFFICES ASSUME k + 1 <= n PROVE FromGross(k + 1) /\ OfGross(k + 1) /\ Apart(k + 1)
      BY <2>1
    <2>2. k + 1 \in 1 .. n /\ k \in 0 .. n /\ k <= n /\ (k + 1) - 1 = k
      BY <1>1, <2>1
    <2>3. FromGross(k) /\ OfGross(k) /\ Apart(k)
      BY <2>2
    <2> HIDE DEF T, Apart
    <2>4. PICK a \in A : a = P[k]
      BY <1>11, <2>2 DEF GoesBy
    <2>5. PICK line \in PlanLines(rows) : line = LineOf(rows, gross[k + 1])
      BY <1>4, <2>2
    <2>6. P[k + 1] = InsertLine(a, line)
      BY <1>3, <1>11, <2>2, <2>4, <2>5 DEF GoesBy
    <2>7. /\ \A i \in DOMAIN P[k + 1] : P[k + 1][i] = line \/ \E j \in DOMAIN a : P[k + 1][i] = a[j]
          /\ \E i \in DOMAIN P[k + 1] : P[k + 1][i] = line
          /\ \A j \in DOMAIN a : \E i \in DOMAIN P[k + 1] : P[k + 1][i] = a[j]
          /\ OneEach(a) /\ (\A j \in DOMAIN a : a[j].item # line.item) => OneEach(P[k + 1])
      BY <2>6, InsertKeepsOrder DEF A
    <2>8. FromGross(k + 1)
      <3>1. \A j \in 1 .. k : j \in 1 .. (k + 1)
        BY <2>1
      <3>2. k + 1 \in 1 .. (k + 1)
        BY <2>1
      <3> QED
        BY <2>3, <2>4, <2>5, <2>7, <3>1, <3>2
    <2>9. ASSUME NEW j \in 1 .. (k + 1)
          PROVE  \E i \in DOMAIN P[k + 1] : P[k + 1][i] = LineOf(rows, gross[j])
      <3>1. CASE j = k + 1
        BY <2>5, <2>7, <3>1
      <3>2. CASE j # k + 1
        <4>1. j \in 1 .. k
          BY <2>1, <3>2
        <4>2. PICK h \in DOMAIN a : a[h] = LineOf(rows, gross[j])
          BY <2>3, <2>4, <4>1
        <4> QED
          BY <2>7, <4>2
      <3> QED
        BY <3>1, <3>2
    <2>10. ASSUME OneEach(gross) PROVE OneEach(P[k + 1])
      <3>1. OneEach(a)
        BY <2>3, <2>4, <2>10 DEF Apart
      <3>2. ASSUME NEW h \in DOMAIN a PROVE a[h].item # line.item
        <4>1. PICK j \in 1 .. k : a[h] = LineOf(rows, gross[j])
          BY <2>3, <2>4
        <4>2. j \in 1 .. n /\ j # k + 1
          BY <1>1, <2>1, <2>2
        <4>3. a[h].item = gross[j].item /\ line.item = gross[k + 1].item
          BY <1>1, <2>2, <2>5, <4>1, <4>2, PlanLineDates
        <4>4. gross[j].item # gross[k + 1].item
          BY <1>1, <2>2, <2>10, <4>2 DEF OneEach
        <4> QED
          BY <4>3, <4>4
      <3> QED
        BY <2>7, <3>1, <3>2
    <2> QED
      BY <2>8, <2>9, <2>10 DEF Apart
  <1>14. T = Nat
    BY <1>12, <1>13, SetInduction
  <1>15. FromGross(n) /\ OfGross(n) /\ Apart(n)
    <2> HIDE DEF T, FromGross, OfGross, Apart
    <2>1. n \in T /\ n <= n
      BY <1>1, <1>14
    <2> QED
      BY <2>1 DEF T
  <1>16. P[n] \in A
    <2>1. n \in 0 .. n
      BY <1>1
    <2> QED
      BY <1>11, <2>1 DEF GoesBy
  <1> QED
    BY <1>1, <1>2, <1>11, <1>15, <1>16 DEF A

\* What is requested is the lines with a net requirement.
LEMMA RequisitionsAreLines ==
    ASSUME NEW L, NEW lines \in Seq(L)
    PROVE  /\ Range(RequisitionsOf(lines)) \subseteq Range(lines)
           /\ \A l \in Range(lines) : l \in Range(RequisitionsOf(lines)) <=> l.net > 0
  <1> DEFINE n == Len(lines)
             A == Seq(Range(lines))
             Step(f) == [s \in SUBSET (1 .. n) |->
                IF s = {} THEN <<>>
                ELSE IF lines[Max(s)].net > 0 THEN Append(f[s \ {Max(s)}], lines[Max(s)])
                ELSE f[s \ {Max(s)}]]
             F == CHOOSE f : f = Step(f)
             g == [k \in 1 .. n |-> [a \in A |->
                     IF lines[k].net > 0 THEN Append(a, lines[k]) ELSE a]]
             base == <<>>
  <1>1. n \in Nat /\ DOMAIN lines = 1 .. n
    OBVIOUS
  <1>2. RequisitionsOf(lines) = F[1 .. n]
    BY <1>1 DEF RequisitionsOf, FoldLeft, MapThenFoldSet
  <1>3. \A k \in 1 .. n : lines[k] \in Range(lines)
    BY <1>1 DEF Range
  <1> HIDE DEF n
  <1>4. \A k \in 1 .. n : \A a \in A :
           g[k][a] = IF lines[k].net > 0 THEN Append(a, lines[k]) ELSE a
    OBVIOUS
  <1> HIDE DEF g
  <1>5. ASSUME NEW k \in 1 .. n, NEW a \in A PROVE g[k][a] \in A
    <2>1. PICK R : R = Range(lines)
      OBVIOUS
    <2>2. a \in Seq(R) /\ lines[k] \in R
      BY <1>3, <2>1
    <2>3. Append(a, lines[k]) \in Seq(R)
      BY <2>2
    <2>4. Append(a, lines[k]) \in A
      BY <2>1, <2>3
    <2> HIDE DEF A
    <2> QED
      BY <1>4, <2>4
  <1>6. base \in A
    OBVIOUS
  <1> HIDE DEF A, base
  <1>7. \A s \in SUBSET (1 .. n) : s # {} => Max(s) \in 1 .. n
    BY <1>1, MaxIsMember
  <1>8. F = Step(F)
    <2>1. PICK f : IsFold(f, n, A, base, g)
      BY <1>1, <1>5, <1>6, FoldFunctionExists
    <2>2. ASSUME NEW s \in SUBSET (1 .. n)
          PROVE  f[s] = IF s = {} THEN base
                        ELSE IF lines[Max(s)].net > 0 THEN Append(f[s \ {Max(s)}], lines[Max(s)])
                        ELSE f[s \ {Max(s)}]
      <3>1. f[s \ {Max(s)}] \in A
        BY <2>1 DEF IsFold
      <3> QED
        BY <1>4, <1>7, <2>1, <3>1 DEF IsFold
    <2>3. f = Step(f)
      BY <2>1, <2>2 DEF IsFold, base
    <2> QED
      BY <2>3
  <1>9. \A s \in SUBSET (1 .. n) :
           F[s] = IF s = {} THEN base
                  ELSE IF lines[Max(s)].net > 0 THEN Append(F[s \ {Max(s)}], lines[Max(s)])
                  ELSE F[s \ {Max(s)}]
    BY <1>8 DEF base
  <1> HIDE DEF F, Step
  <1>10. TakesSteps(F, n, A, base, g) /\ StepsWithin(n, A, g)
    BY <1>4, <1>5, <1>7, <1>9 DEF TakesSteps, StepsWithin
  <1>11. PICK P : GoesBy(P, n, A, base, g) /\ P[n] = F[1 .. n]
    BY <1>1, <1>6, <1>10, FoldGoes
  <1> DEFINE Short(k) == \A l : l \in Range(P[k]) <=> \E j \in 1 .. k : l = lines[j] /\ l.net > 0
             T == {k \in Nat : k <= n => Short(k)}
  <1>12. 0 \in T
    <2>1. P[0] = <<>> /\ Range(<<>>) = {} /\ 1 .. 0 = {}
      BY <1>11 DEF GoesBy, base, Range
    <2> QED
      BY <2>1
  <1>13. ASSUME NEW k \in T PROVE k + 1 \in T
    <2>1. k \in Nat
      OBVIOUS
    <2> SUFFICES ASSUME k + 1 <= n PROVE Short(k + 1)
      BY <2>1
    <2>2. k + 1 \in 1 .. n /\ k \in 0 .. n /\ k <= n /\ (k + 1) - 1 = k
      BY <1>1, <2>1
    <2>3. Short(k)
      BY <2>2
    <2> HIDE DEF T
    <2>4. PICK line, R : line = lines[k + 1] /\ R = Range(lines)
      OBVIOUS
    <2>5. PICK a \in Seq(R) : a = P[k]
      BY <1>11, <2>2, <2>4 DEF GoesBy, A
    <2>6. P[k + 1] = IF line.net > 0 THEN Append(a, line) ELSE a
      <3>1. a \in A
        BY <2>4, <2>5 DEF A
      <3> QED
        BY <1>4, <1>11, <2>2, <2>4, <2>5, <3>1 DEF GoesBy
    <2>7. line \in R
      BY <1>3, <2>2, <2>4
    <2>8. ASSUME NEW l PROVE l \in Range(Append(a, line)) <=> l \in Range(a) \/ l = line
      <3> DEFINE b == Append(a, line)
      <3>1. /\ DOMAIN a = 1 .. Len(a) /\ Len(a) \in Nat /\ DOMAIN b = 1 .. (Len(a) + 1)
            /\ b[Len(a) + 1] = line /\ \A i \in 1 .. Len(a) : b[i] = a[i]
        BY <2>7
      <3> HIDE DEF b
      <3>2. \A i \in DOMAIN b : i \in DOMAIN a \/ i = Len(a) + 1
        BY <3>1
      <3>3. Len(a) + 1 \in DOMAIN b /\ \A i \in DOMAIN a : i \in DOMAIN b
        BY <3>1
      <3>4. l \in Range(b) <=> l \in Range(a) \/ l = line
        BY <3>1, <3>2, <3>3 DEF Range
      <3> QED
        BY <3>4 DEF b
    <2>9. \A j : j \in 1 .. (k + 1) <=> j \in 1 .. k \/ j = k + 1
      BY <2>1
    <2>10. \A l : l \in Range(P[k + 1]) <=> l \in Range(a) \/ (l = line /\ line.net > 0)
      BY <2>6, <2>8
    <2> QED
      BY <2>3, <2>4, <2>5, <2>9, <2>10
  <1>14. T = Nat
    BY <1>12, <1>13, SetInduction
  <1>15. Short(n)
    <2> HIDE DEF T, Short
    <2>1. n \in T /\ n <= n
      BY <1>1, <1>14
    <2> QED
      BY <2>1 DEF T
  <1>16. RequisitionsOf(lines) = P[n]
    BY <1>2, <1>11
  <1>17. \A l : l \in Range(lines) <=> \E j \in 1 .. n : l = lines[j]
    BY <1>1 DEF Range
  <1> QED
    BY <1>15, <1>16, <1>17

-----------------------------------------------------------------------------
(* Invariants.                                                             *)

\* The inputs are bills, demands and stock a planning may find; what is reached is the
\* materials of the demands that have been exploded, early enough for each of them;
\* and the lines are those of what is reached, in order, the requisitions among them.
EngineInv ==
    /\ calc = [pc |-> calc.pc, map |-> calc.map, demands |-> calc.demands, rows |-> calc.rows,
               next |-> calc.next, gross |-> calc.gross, lines |-> calc.lines,
               requisitions |-> calc.requisitions]
    /\ IsBills(calc.map) /\ calc.demands \in Seq(EngineDemand) /\ calc.next \in Nat \ {0}
    /\ calc.gross \in Seq(GrossEntry)
    /\ \A i \in DOMAIN calc.gross : \E k \in DOMAIN calc.demands : \E l :
          Material(calc.map, calc.demands[k].item, EngineDepth, calc.gross[i].item, l)
    /\ calc.pc # "idle" => \A k \in DOMAIN calc.demands : k < calc.next =>
          \A x, l : Material(calc.map, calc.demands[k].item, EngineDepth, x, l)
                       => InTimeFor(calc.gross, x, calc.demands[k].delivery, l)
    /\ calc.pc = "done" => /\ calc.next > Len(calc.demands)
                           /\ Sorted(calc.lines)
                           /\ \A i \in DOMAIN calc.lines : \E j \in DOMAIN calc.gross :
                                 calc.lines[i] = LineOf(calc.rows, calc.gross[j])
                           /\ \A j \in DOMAIN calc.gross : \E i \in DOMAIN calc.lines :
                                 calc.lines[i] = LineOf(calc.rows, calc.gross[j])
                           /\ Range(calc.requisitions) \subseteq Range(calc.lines)

LEMMA EngineStartsInTime == EngineInit => EngineInv
  <1> SUFFICES ASSUME EngineInit PROVE EngineInv
    OBVIOUS
  <1>1. /\ calc.map = <<>> /\ calc.demands = <<>> /\ calc.gross = <<>> /\ calc.next = 1
        /\ calc.pc = "idle"
    BY DEF EngineInit, NoCalc
  <1>2. DOMAIN <<>> = {} /\ <<>> \in Seq(EngineDemand) /\ <<>> \in Seq(GrossEntry)
    OBVIOUS
  <1>3. IsBills(<<>>)
    BY <1>2 DEF IsBills
  <1>4. calc = [pc |-> calc.pc, map |-> calc.map, demands |-> calc.demands, rows |-> calc.rows,
                next |-> calc.next, gross |-> calc.gross, lines |-> calc.lines,
                requisitions |-> calc.requisitions]
    BY DEF EngineInit, NoCalc
  <1> QED
    BY <1>1, <1>2, <1>3, <1>4 DEF EngineInv

LEMMA LoadKeepsTime ==
    ASSUME Load PROVE EngineInv'
  <1>1. PICK map \in EngineBoms, demands \in EngineDemands, rows \in StockRows :
           calc' = [NoCalc EXCEPT !.pc = "explode", !.map = map, !.demands = demands, !.rows = rows]
    BY DEF Load
  <1>2. calc' = [pc |-> "explode", map |-> map, demands |-> demands, rows |-> rows, next |-> 1,
                 gross |-> <<>>, lines |-> <<>>, requisitions |-> <<>>]
    BY <1>1 DEF NoCalc
  <1>3. DOMAIN <<>> = {} /\ <<>> \in Seq(GrossEntry)
    OBVIOUS
  <1>4. IsBills(map) /\ demands \in Seq(EngineDemand)
    BY EngineAssumption DEF IsBills
  <1>5. \A k \in DOMAIN demands : ~ (k < 1)
    BY <1>4
  <1> QED
    BY <1>2, <1>3, <1>4, <1>5 DEF EngineInv

LEMMA ExplodeKeepsTime ==
    ASSUME EngineInv, ExplodeDemand PROVE EngineInv'
  <1>1. PICK map : map = calc.map /\ IsBills(map)
    BY DEF EngineInv
  <1>2. PICK demands \in Seq(EngineDemand) : demands = calc.demands
    BY DEF EngineInv
  <1>3. PICK gross \in Seq(GrossEntry) :
           /\ gross = calc.gross
           /\ \A i \in DOMAIN gross : \E k \in DOMAIN demands : \E l :
                 Material(map, demands[k].item, EngineDepth, gross[i].item, l)
    BY <1>1, <1>2 DEF EngineInv
  <1>4. PICK n \in Nat \ {0} : n = calc.next
    BY DEF EngineInv
  <1>5. n \in 1 .. Len(demands) /\ DOMAIN demands = 1 .. Len(demands) /\ Len(demands) \in Nat
    BY <1>2, <1>4 DEF ExplodeDemand
  <1>6. PICK demand \in EngineDemand : demand = demands[n]
    BY <1>5
  <1>7. PICK more : more = Explode(gross, map, demand)
    OBVIOUS
  <1>8. calc' = [calc EXCEPT !.next = n + 1, !.gross = more]
    BY <1>1, <1>2, <1>3, <1>4, <1>6, <1>7, Zenon DEF ExplodeDemand
  <1>9. calc' = [pc |-> "explode", map |-> map, demands |-> demands, rows |-> calc.rows,
                 next |-> n + 1, gross |-> more, lines |-> calc.lines,
                 requisitions |-> calc.requisitions]
    BY <1>1, <1>2, <1>8 DEF EngineInv, ExplodeDemand
  <1>10. /\ more \in Seq(GrossEntry)
         /\ \A x : \A d \in Int, l \in Nat : InTimeFor(gross, x, d, l) => InTimeFor(more, x, d, l)
         /\ \A x, l : Material(map, demand.item, EngineDepth, x, l)
                         => InTimeFor(more, x, demand.delivery, l)
         /\ \A i \in DOMAIN more :
               \/ \E l : Material(map, demand.item, EngineDepth, more[i].item, l)
               \/ \E j \in DOMAIN gross : gross[j].item = more[i].item
    <2>1. IsBills(map) /\ demand \in EngineDemand /\ gross \in Seq(GrossEntry)
      BY <1>1
    <2>2. more \in Seq(GrossEntry)
      BY <1>7, <2>1, ExplodePlans
    <2>3. \A x : \A d \in Int, l \in Nat : InTimeFor(gross, x, d, l) => InTimeFor(more, x, d, l)
      BY <1>7, <2>1, ExplodePlans
    <2>4. \A x, l : Material(map, demand.item, EngineDepth, x, l)
                      => InTimeFor(more, x, demand.delivery, l)
      BY <1>7, <2>1, ExplodePlans
    <2>5. \A i \in DOMAIN more :
               \/ \E l : Material(map, demand.item, EngineDepth, more[i].item, l)
               \/ \E j \in DOMAIN gross : gross[j].item = more[i].item
      BY <1>7, <2>1, ExplodePlans
    <2> QED
      BY <2>2, <2>3, <2>4, <2>5
  <1>11. \A k \in DOMAIN demands : k < n =>
            \A x, l : Material(map, demands[k].item, EngineDepth, x, l)
                         => InTimeFor(gross, x, demands[k].delivery, l)
    BY <1>1, <1>2, <1>3, <1>4 DEF EngineInv, ExplodeDemand
  <1>12. ASSUME NEW k \in DOMAIN demands, k < n + 1, NEW x, NEW l,
                Material(map, demands[k].item, EngineDepth, x, l)
         PROVE  InTimeFor(more, x, demands[k].delivery, l)
    <2>1. CASE k = n
      BY <1>6, <1>10, <1>12, <2>1
    <2>2. CASE k # n
      <3>1. k < n /\ demands[k] \in EngineDemand
        BY <1>5, <1>12, <2>2
      <3>2. demands[k].item \in Items /\ demands[k].delivery \in Int
        BY <3>1 DEF EngineDemand
      <3>3. l \in Nat
        BY <1>1, <1>12, <3>2, MaterialLead
      <3> QED
        BY <1>10, <1>11, <1>12, <3>1, <3>2, <3>3
    <2> QED
      BY <2>1, <2>2
  <1>13. n + 1 \in Nat \ {0}
    OBVIOUS
  <1>14. ASSUME NEW i \in DOMAIN more
         PROVE  \E k \in DOMAIN demands : \E l :
                   Material(map, demands[k].item, EngineDepth, more[i].item, l)
    <2>1. CASE \E l : Material(map, demand.item, EngineDepth, more[i].item, l)
      BY <1>5, <1>6, <2>1
    <2>2. CASE \E j \in DOMAIN gross : gross[j].item = more[i].item
      BY <1>3, <2>2
    <2> QED
      BY <1>10, <2>1, <2>2
  <1> QED
    BY <1>1, <1>9, <1>10, <1>12, <1>13, <1>14 DEF EngineInv

LEMMA SortKeepsTime ==
    ASSUME EngineInv, NetAndSort PROVE EngineInv'
  <1>1. PICK gross \in Seq(GrossEntry) : gross = calc.gross
    BY DEF EngineInv
  <1>2. PICK rows, lines : rows = calc.rows /\ lines = LinesOf(rows, gross)
    OBVIOUS
  <1>3. PICK requisitions : requisitions = RequisitionsOf(lines)
    OBVIOUS
  <1>4. calc' = [calc EXCEPT !.pc = "done", !.lines = lines, !.requisitions = requisitions]
    BY <1>1, <1>2, <1>3, Zenon DEF NetAndSort
  <1>5. calc' = [pc |-> "done", map |-> calc.map, demands |-> calc.demands, rows |-> rows,
                 next |-> calc.next, gross |-> gross, lines |-> lines,
                 requisitions |-> requisitions]
    BY <1>1, <1>2, <1>4 DEF EngineInv
  <1>6. /\ lines \in Seq(PlanLines(rows)) /\ Sorted(lines)
        /\ \A i \in DOMAIN lines : \E j \in DOMAIN gross : lines[i] = LineOf(rows, gross[j])
        /\ \A j \in DOMAIN gross : \E i \in DOMAIN lines : lines[i] = LineOf(rows, gross[j])
    BY <1>2, LinesAreSorted DEF SortedLines
  <1>7. calc.next > Len(calc.demands) /\ calc.pc # "idle"
    BY DEF NetAndSort
  <1>8. Range(requisitions) \subseteq Range(lines)
    BY <1>3, <1>6, RequisitionsAreLines
  <1> QED
    BY <1>1, <1>5, <1>6, <1>7, <1>8 DEF EngineInv

LEMMA EngineInvariant == EngineSpec => []EngineInv
<1>1. EngineInv /\ [EngineNext]_calc => EngineInv'
  <2>1. CASE Load
    BY <2>1, LoadKeepsTime
  <2>2. ASSUME EngineInv, ExplodeDemand PROVE EngineInv'
    BY <2>2, ExplodeKeepsTime
  <2>3. ASSUME EngineInv, NetAndSort PROVE EngineInv'
    BY <2>3, SortKeepsTime
  <2>4. ASSUME EngineInv, UNCHANGED calc PROVE EngineInv'
    BY <2>4 DEF EngineInv, IsBills
  <2> QED
    BY <2>1, <2>2, <2>3, <2>4 DEF EngineNext
<1> QED
  BY <1>1, EngineStartsInTime, PTL DEF EngineSpec

LEMMA InTime == EngineInv => OrderedInTime
  <1> SUFFICES ASSUME EngineInv, calc.pc = "done"
               PROVE  /\ \A i, j \in DOMAIN calc.lines : i < j =>
                            calc.lines[i].orderBy <= calc.lines[j].orderBy
                      /\ \A i \in DOMAIN calc.lines, d \in Range(calc.demands) :
                            \A p \in Below(d.item) \cap DOMAIN calc.map : \A l \in Range(calc.map[p]) :
                                l.child = calc.lines[i].item =>
                                    calc.lines[i].orderBy <= d.delivery - l.lead
    BY DEF OrderedInTime
  <1>1. \A i, j \in DOMAIN calc.lines : i < j => calc.lines[i].orderBy <= calc.lines[j].orderBy
    BY DEF EngineInv, Sorted
  <1>2. ASSUME NEW i \in DOMAIN calc.lines, NEW d \in Range(calc.demands),
               NEW p \in Below(d.item) \cap DOMAIN calc.map, NEW l \in Range(calc.map[p]),
               l.child = calc.lines[i].item
        PROVE  calc.lines[i].orderBy <= d.delivery - l.lead
    <2>1. PICK map : map = calc.map /\ IsBills(map)
      BY DEF EngineInv
    <2>2. PICK gross \in Seq(GrossEntry) :
             gross = calc.gross /\ \A k \in DOMAIN gross : gross[k].item \notin DOMAIN map
      BY <2>1 DEF EngineInv, Material
    <2>3. PICK j \in DOMAIN gross : calc.lines[i] = LineOf(calc.rows, gross[j])
      BY <2>2 DEF EngineInv
    <2>4. PICK demands \in Seq(EngineDemand) : demands = calc.demands
      BY DEF EngineInv
    <2>5. PICK k \in DOMAIN demands : d = demands[k]
      BY <2>4 DEF Range
    <2>6. d \in EngineDemand /\ k < calc.next
      <3>1. k \in 1 .. Len(demands) /\ Len(demands) \in Nat /\ demands[k] \in EngineDemand
        BY <2>5
      <3>2. calc.next > Len(demands) /\ calc.next \in Nat \ {0}
        BY <2>4 DEF EngineInv
      <3> QED
        BY <2>5, <3>1, <3>2
    <2>7. d.item \in Items /\ d.delivery \in Int
      BY <2>6 DEF EngineDemand
    <2>8. PICK h \in 0 .. (EngineDepth - 1) : Deep(map, d.item, h, p)
      BY <2>1, <2>7, BelowIsDeep
    <2>9. PICK x : x = l.child
      OBVIOUS
    <2>10. gross[j] \in GrossEntry /\ gross[j].item = x
      BY <1>2, <2>2, <2>3, <2>9, PlanLineDates
    <2>11. x \notin DOMAIN map
      BY <2>2, <2>10
    <2>12. p \in DOMAIN map /\ \E n \in DOMAIN map[p] : map[p][n].child = x /\ map[p][n].lead = l.lead
      BY <2>1, <2>9 DEF Range
    <2>13. Material(map, d.item, EngineDepth, x, l.lead)
      BY <2>8, <2>11, <2>12 DEF Material
    <2>14. InTimeFor(gross, x, d.delivery, l.lead)
      BY <2>1, <2>2, <2>4, <2>5, <2>6, <2>13 DEF EngineInv
    <2>15. gross[j].need <= d.delivery /\ gross[j].lead >= l.lead
      BY <2>10, <2>14 DEF InTimeFor
    <2>16. calc.lines[i].orderBy = gross[j].need - gross[j].lead
      BY <2>3, <2>10, PlanLineDates
    <2>17. gross[j].need \in Int /\ gross[j].lead \in Nat /\ l.lead \in Nat
      BY <2>1, <2>7, <2>10, <2>13, MaterialLead DEF GrossEntry
    <2> QED
      BY <2>7, <2>15, <2>16, <2>17
  <1> QED
    BY <1>1, <1>2

\* Whatever the bills, the demands, the stock and the depth: the lines of a finished
\* planning come most urgent first, and the order date of each leaves the lead time
\* before the delivery of every demand with the material at most so deep in its bills.
THEOREM LinesInTime == EngineSpec => []OrderedInTime
  BY EngineInvariant, InTime, PTL

-----------------------------------------------------------------------------
(* What the runs take a computation for.                                   *)

OwnBills == DOMAIN calc.map \subseteq BomItems

LEMMA OwnBillsInvariant == EngineSpec => []OwnBills
<1>1. EngineInit => OwnBills
  BY DEF EngineInit, NoCalc, OwnBills
<1>2. ASSUME EngineInv, OwnBills, [EngineNext]_calc PROVE OwnBills'
  <2>1. CASE Load
    <3>1. PICK map \in EngineBoms, demands \in EngineDemands, rows \in StockRows :
             calc' = [NoCalc EXCEPT !.pc = "explode", !.map = map, !.demands = demands,
                                    !.rows = rows]
      BY <2>1 DEF Load
    <3>2. calc'.map = map
      BY <3>1 DEF NoCalc
    <3> QED
      BY <3>1, <3>2, MrpAssumption DEF OwnBills
  <2>2. ASSUME calc'.map = calc.map PROVE OwnBills'
    BY <1>2, <2>2 DEF OwnBills
  <2>3. CASE ExplodeDemand
    <3>1. PICK next, gross : calc' = [calc EXCEPT !.next = next, !.gross = gross]
      BY <2>3 DEF ExplodeDemand
    <3>2. calc'.map = calc.map
      BY <1>2, <3>1 DEF EngineInv
    <3> QED
      BY <2>2, <3>2
  <2>4. CASE NetAndSort
    <3>1. PICK lines, requisitions :
             calc' = [calc EXCEPT !.pc = "done", !.lines = lines, !.requisitions = requisitions]
      BY <2>4 DEF NetAndSort
    <3>2. calc'.map = calc.map
      BY <1>2, <3>1 DEF EngineInv
    <3> QED
      BY <2>2, <3>2
  <2>5. CASE UNCHANGED calc
    BY <2>2, <2>5
  <2> QED
    BY <1>2, <2>1, <2>3, <2>4, <2>5 DEF EngineNext
<1> QED
  BY <1>1, <1>2, EngineInvariant, PTL DEF EngineSpec

\* The children of a set of items, as the runs see the bills of the computation.
LEMMA ComputedChildren ==
    ASSUME IsBills(calc.map), OwnBills, NEW set, NEW q
    PROVE  q \in Found!Children([it \in DOMAIN calc.map |-> 1], set)
              <=> \E p \in set : PartOf(calc.map, p, q)
  <1>1. PICK map : map = calc.map
    OBVIOUS
  <1>2. 1 \in Versions
    BY BomsAssumption DEF Versions
  <1>3. ASSUME NEW p \in DOMAIN map
        PROVE  ComputedBoms[p][1].lines = {l.child : l \in Range(map[p])}
    <2>1. p \in BomItems
      BY <1>1 DEF OwnBills
    <2> QED
      BY <1>1, <1>2, <2>1 DEF ComputedBoms
  <1>4. ASSUME NEW p \in DOMAIN map
        PROVE  q \in ComputedBoms[p][1].lines <=> PartOf(map, p, q)
    BY <1>3 DEF PartOf, Range
  <1> DEFINE ones == [it \in DOMAIN map |-> 1]
  <1>5. DOMAIN ones = DOMAIN map /\ \A p \in DOMAIN map : ones[p] = 1
    OBVIOUS
  <1> HIDE DEF ones
  <1>6. Found!Children(ones, set) = UNION {ComputedBoms[p][ones[p]].lines : p \in set \cap DOMAIN ones}
    BY DEF Found!Children
  <1>7. q \in Found!Children(ones, set) <=> \E p \in set \cap DOMAIN map : q \in ComputedBoms[p][1].lines
    BY <1>5, <1>6
  <1>8. \A p : PartOf(map, p, q) => p \in DOMAIN map
    BY DEF PartOf
  <1>9. q \in Found!Children(ones, set) <=> \E p \in set : PartOf(map, p, q)
    BY <1>4, <1>7, <1>8
  <1> QED
    BY <1>1, <1>9 DEF ones

\* The levels of the runs are the levels of the bills below the demanded items.
LEMMA ComputedLevels ==
    ASSUME IsBills(calc.map), OwnBills, NEW demand \in SUBSET Items, NEW n \in 0 .. MaxDepth, NEW q
    PROVE  q \in Found!Level([it \in DOMAIN calc.map |-> 1], demand)[n]
              <=> /\ \E d \in demand : Deep(calc.map, d, n, q)
                  /\ n > 0 => q \in DOMAIN calc.map
  <1>1. PICK map : map = calc.map /\ IsBills(map)
    OBVIOUS
  <1>2. PICK ones : ones = [it \in DOMAIN calc.map |-> 1] /\ DOMAIN ones = DOMAIN map
    <2>1. DOMAIN [it \in DOMAIN calc.map |-> 1] = DOMAIN map
      BY <1>1
    <2> QED
      BY <2>1
  <1>3. PICK D \in Nat : D = MaxDepth
    BY RunsAssumption
  <1> DEFINE Step(f) == [k \in 0 .. D |->
                IF k = 0 THEN demand ELSE Found!Children(ones, f[k - 1]) \cap DOMAIN ones]
             F == CHOOSE f : f = Step(f)
             A == SUBSET Items
             step == [k \in 1 .. D |-> [set \in A |-> Found!Children(ones, set) \cap DOMAIN ones]]
  <1>4. Found!Level(ones, demand) = F
    BY <1>3 DEF Found!Level
  <1>5. \A k \in 1 .. D : \A set \in A : step[k][set] = Found!Children(ones, set) \cap DOMAIN ones
    OBVIOUS
  <1> HIDE DEF step
  <1>6. DOMAIN ones \in SUBSET Items
    BY <1>1, <1>2 DEF IsBills
  <1>7. demand \in A /\ \A k \in 1 .. D : \A set \in A : step[k][set] \in A
    BY <1>5, <1>6
  <1> HIDE DEF A
  <1>8. PICK P : GoesBy(P, D, A, demand, step)
    BY <1>3, <1>7, RecursionExists
  <1>9. P = Step(P)
    <2>1. P = [k \in 0 .. D |-> P[k]]
      BY <1>8 DEF GoesBy
    <2>2. ASSUME NEW k \in 0 .. D
          PROVE  P[k] = IF k = 0 THEN demand ELSE Found!Children(ones, P[k - 1]) \cap DOMAIN ones
      <3>1. CASE k = 0
        BY <1>8, <3>1 DEF GoesBy
      <3>2. CASE k # 0
        <4>1. k \in 1 .. D /\ k - 1 \in 0 .. D
          BY <1>3, <3>2
        <4>2. P[k] = step[k][P[k - 1]] /\ P[k - 1] \in A
          BY <1>8, <4>1 DEF GoesBy
        <4> QED
          BY <1>5, <3>2, <4>1, <4>2
      <3> QED
        BY <3>1, <3>2
    <2> QED
      BY <2>1, <2>2
  <1>10. F = Step(F)
    BY <1>9
  <1> HIDE DEF F
  <1>11. \A k \in 0 .. D : F[k] = IF k = 0 THEN demand ELSE Found!Children(ones, F[k - 1]) \cap DOMAIN ones
    BY <1>10
  <1> HIDE DEF Step
  <1> DEFINE Levels(k) == \A r : r \in F[k] <=> /\ \E d \in demand : Deep(map, d, k, r)
                                                /\ k > 0 => r \in DOMAIN map
             T == {k \in Nat : k <= D => Levels(k)}
  <1>12. 0 \in T
    <2>1. F[0] = demand /\ ~ (0 > 0)
      <3>1. 0 \in 0 .. D
        BY <1>3
      <3>2. F[0] = IF 0 = 0 THEN demand ELSE Found!Children(ones, F[0 - 1]) \cap DOMAIN ones
        BY <1>11, <3>1
      <3> QED
        BY <3>2
    <2>2. \A d \in demand : \A r : Deep(map, d, 0, r) <=> r = d
      BY DeepItself
    <2> QED
      BY <2>1, <2>2
  <1>13. ASSUME NEW k \in T PROVE k + 1 \in T
    <2>1. k \in Nat
      OBVIOUS
    <2> SUFFICES ASSUME k + 1 <= D PROVE Levels(k + 1)
      BY <2>1
    <2>2. k <= D /\ k + 1 \in 0 .. D /\ k + 1 # 0 /\ (k + 1) - 1 = k /\ k + 1 > 0
      BY <1>3, <2>1
    <2>3. Levels(k)
      BY <2>2
    <2> HIDE DEF T
    <2>4. F[k + 1] = Found!Children(ones, F[k]) \cap DOMAIN ones
      BY <1>11, <2>2
    <2>5. \A r : r \in Found!Children(ones, F[k]) <=> \E p \in F[k] : PartOf(map, p, r)
      BY <1>1, <1>2, ComputedChildren
    <2>6. ASSUME NEW r \in F[k + 1]
          PROVE  (\E d \in demand : Deep(map, d, k + 1, r)) /\ r \in DOMAIN map
      <3>1. PICK p \in F[k] : PartOf(map, p, r)
        BY <2>4, <2>5
      <3>2. PICK d \in demand : Deep(map, d, k, p)
        BY <2>3, <3>1
      <3>3. r \in DOMAIN map /\ r \in Items
        BY <1>2, <1>6, <2>4
      <3>4. Deep(map, d, k + 1, r)
        BY <2>1, <3>1, <3>2, <3>3, DeepAppend
      <3> QED
        BY <3>3, <3>4
    <2>7. ASSUME NEW r, NEW d \in demand, Deep(map, d, k + 1, r), r \in DOMAIN map
          PROVE  r \in F[k + 1]
      <3>1. PICK p \in Items : Deep(map, d, k, p) /\ PartOf(map, p, r)
        BY <2>1, <2>7, DeepLast
      <3>2. p \in DOMAIN map
        BY <3>1 DEF PartOf
      <3>3. p \in F[k]
        BY <2>3, <3>1, <3>2
      <3> QED
        BY <1>2, <2>4, <2>5, <2>7, <3>1, <3>3
    <2> QED
      BY <2>2, <2>6, <2>7
  <1>14. T = Nat
    BY <1>12, <1>13, SetInduction
  <1>15. Levels(n)
    <2> HIDE DEF T, Levels
    <2>1. n \in T /\ n <= D
      BY <1>3, <1>14
    <2> QED
      BY <2>1 DEF T
  <1> QED
    BY <1>1, <1>2, <1>4, <1>15

\* The materials of the runs are those of the computation.
LEMMA ComputedMaterials ==
    ASSUME IsBills(calc.map), OwnBills, NEW demand \in SUBSET Items, NEW x
    PROVE  x \in Found!Materials([it \in DOMAIN calc.map |-> 1], demand)
              <=> \E d \in demand : \E l : Material(calc.map, d, EngineDepth, x, l)
  <1>1. PICK map : map = calc.map
    OBVIOUS
  <1>2. PICK ones : ones = [it \in DOMAIN calc.map |-> 1] /\ DOMAIN ones = DOMAIN map
    <2>1. DOMAIN [it \in DOMAIN calc.map |-> 1] = DOMAIN map
      BY <1>1
    <2> QED
      BY <2>1
  <1>3. PICK D \in Nat : D = MaxDepth /\ D = EngineDepth
    BY MrpAssumption, RunsAssumption
  <1>4. x \in Found!Materials(ones, demand) <=>
           /\ x \notin DOMAIN map
           /\ \E n \in 0 .. (D - 1) : x \in Found!Children(ones, Found!Level(ones, demand)[n])
    <2>1. Found!Materials(ones, demand) =
             (UNION {Found!Children(ones, Found!Level(ones, demand)[n]) : n \in 0 .. (D - 1)})
               \ DOMAIN ones
      BY <1>3 DEF Found!Materials
    <2> DEFINE sets == {Found!Children(ones, Found!Level(ones, demand)[n]) : n \in 0 .. (D - 1)}
    <2>2. (\E s \in sets : x \in s) <=>
             \E n \in 0 .. (D - 1) : x \in Found!Children(ones, Found!Level(ones, demand)[n])
      BY Zenon
    <2> HIDE DEF sets
    <2>3. x \in (UNION sets) \ DOMAIN ones <=> x \notin DOMAIN ones /\ \E s \in sets : x \in s
      OBVIOUS
    <2>4. Found!Materials(ones, demand) = (UNION sets) \ DOMAIN ones
      BY <2>1 DEF sets
    <2>5. x \notin DOMAIN ones <=> x \notin DOMAIN map
      BY <1>2
    <2> QED
      BY <2>2, <2>3, <2>4, <2>5, Zenon
  <1>5. \A set : x \in Found!Children(ones, set) <=> \E p \in set : PartOf(map, p, x)
    BY <1>1, <1>2, ComputedChildren
  <1>6. ASSUME NEW n \in 0 .. (D - 1), NEW p
        PROVE  p \in Found!Level(ones, demand)[n] <=>
                  (\E d \in demand : Deep(map, d, n, p)) /\ (n > 0 => p \in DOMAIN map)
    <2>1. n \in 0 .. MaxDepth
      BY <1>3
    <2> QED
      BY <1>1, <1>2, <2>1, ComputedLevels
  <1>7. \A p : PartOf(map, p, x) <=> /\ p \in DOMAIN map
                                     /\ \E i \in DOMAIN map[p] : map[p][i].child = x
    BY DEF PartOf
  <1>8. x \in Found!Materials(ones, demand) <=>
           /\ x \notin DOMAIN map
           /\ \E n \in 0 .. (D - 1) : \E p \in DOMAIN map :
                 /\ \E d \in demand : Deep(map, d, n, p)
                 /\ \E i \in DOMAIN map[p] : map[p][i].child = x
    BY <1>4, <1>5, <1>6, <1>7
  <1>9. (\E d \in demand : \E l : Material(map, d, D, x, l)) <=>
           /\ x \notin DOMAIN map
           /\ \E n \in 0 .. (D - 1) : \E p \in DOMAIN map :
                 /\ \E d \in demand : Deep(map, d, n, p)
                 /\ \E i \in DOMAIN map[p] : map[p][i].child = x
    <2>1. ASSUME NEW d \in demand, NEW l, Material(map, d, D, x, l)
          PROVE  /\ x \notin DOMAIN map
                 /\ \E n \in 0 .. (D - 1) : \E p \in DOMAIN map :
                       /\ \E e \in demand : Deep(map, e, n, p)
                       /\ \E i \in DOMAIN map[p] : map[p][i].child = x
      BY <2>1 DEF Material
    <2>2. ASSUME x \notin DOMAIN map, NEW n \in 0 .. (D - 1), NEW p \in DOMAIN map,
                 NEW d \in demand, Deep(map, d, n, p), NEW i \in DOMAIN map[p],
                 map[p][i].child = x
          PROVE  Material(map, d, D, x, map[p][i].lead)
      BY <2>2 DEF Material
    <2> QED
      BY <2>1, <2>2
  <1> QED
    BY <1>1, <1>2, <1>3, <1>8, <1>9

LEMMA StoresComputed == EngineInv /\ OwnBills => PlansItsMaterials
  <1> SUFFICES ASSUME EngineInv, OwnBills, calc.pc = "done"
               PROVE  /\ {l.item : l \in Range(calc.lines)}
                           = Found!Materials([it \in DOMAIN calc.map |-> 1],
                                             {d.item : d \in Range(calc.demands)})
                      /\ Range(calc.requisitions) \subseteq Range(calc.lines)
    BY DEF PlansItsMaterials
  <1>1. Range(calc.requisitions) \subseteq Range(calc.lines) /\ IsBills(calc.map)
    BY DEF EngineInv
  <1>2. PICK gross \in Seq(GrossEntry) : gross = calc.gross
    BY DEF EngineInv
  <1>3. PICK demands \in Seq(EngineDemand) : demands = calc.demands
    BY DEF EngineInv
  <1>4. \A j \in DOMAIN gross : gross[j] \in GrossEntry
    OBVIOUS
  <1>5. \A k \in DOMAIN demands : demands[k] \in EngineDemand
    OBVIOUS
  <1> DEFINE demand == {d.item : d \in Range(demands)}
  <1>6. demand \in SUBSET Items
    BY <1>5 DEF Range, EngineDemand
  <1>7. \A d : d \in demand <=> \E k \in DOMAIN demands : d = demands[k].item
    BY DEF Range
  <1> HIDE DEF demand
  <1>8. \A x : x \in {l.item : l \in Range(calc.lines)} <=> \E i \in DOMAIN calc.lines : calc.lines[i].item = x
    BY DEF Range
  <1>9. \A x : (\E i \in DOMAIN calc.lines : calc.lines[i].item = x)
                  <=> \E j \in DOMAIN gross : gross[j].item = x
    <2>1. \A j \in DOMAIN gross : LineOf(calc.rows, gross[j]).item = gross[j].item
      BY <1>4, PlanLineDates
    <2>2. /\ \A i \in DOMAIN calc.lines : \E j \in DOMAIN gross : calc.lines[i] = LineOf(calc.rows, gross[j])
          /\ \A j \in DOMAIN gross : \E i \in DOMAIN calc.lines : calc.lines[i] = LineOf(calc.rows, gross[j])
      BY <1>2 DEF EngineInv
    <2> QED
      BY <2>1, <2>2
  <1>10. ASSUME NEW j \in DOMAIN gross
         PROVE  \E d \in demand : \E l : Material(calc.map, d, EngineDepth, gross[j].item, l)
    <2>1. PICK k \in DOMAIN demands :
             \E l : Material(calc.map, demands[k].item, EngineDepth, gross[j].item, l)
      BY <1>2, <1>3 DEF EngineInv
    <2> QED
      BY <1>7, <2>1
  <1>11. ASSUME NEW x, NEW d \in demand, NEW l, Material(calc.map, d, EngineDepth, x, l)
         PROVE  \E j \in DOMAIN gross : gross[j].item = x
    <2>1. PICK k \in DOMAIN demands : d = demands[k].item
      BY <1>7
    <2>2. k < calc.next
      <3>1. k \in 1 .. Len(demands) /\ Len(demands) \in Nat
        OBVIOUS
      <3>2. calc.next > Len(demands) /\ calc.next \in Nat \ {0}
        BY <1>3 DEF EngineInv
      <3> QED
        BY <3>1, <3>2
    <2>3. InTimeFor(gross, x, demands[k].delivery, l)
      BY <1>2, <1>3, <1>11, <2>1, <2>2 DEF EngineInv
    <2> QED
      BY <2>3 DEF InTimeFor
  <1>12. \A x : x \in Found!Materials([it \in DOMAIN calc.map |-> 1], demand)
                   <=> \E d \in demand : \E l : Material(calc.map, d, EngineDepth, x, l)
    BY <1>1, <1>6, ComputedMaterials
  <1>13. \A x : (\E d \in demand : \E l : Material(calc.map, d, EngineDepth, x, l))
                   <=> \E j \in DOMAIN gross : gross[j].item = x
    BY <1>10, <1>11
  <1>14. \A x : x \in {l.item : l \in Range(calc.lines)}
                   <=> x \in Found!Materials([it \in DOMAIN calc.map |-> 1], demand)
    BY <1>8, <1>9, <1>12, <1>13
  <1>15. {l.item : l \in Range(calc.lines)} = Found!Materials([it \in DOMAIN calc.map |-> 1], demand)
    BY <1>14
  <1> QED
    BY <1>1, <1>3, <1>15 DEF demand

\* Whatever the bills, the demands and the stock: the lines of a finished planning
\* are of the materials a planning run is modelled by, no more and no fewer, and what
\* it requests is among them, when both stop at the same depth (runMrp, calculate); and
\* they come in order and in time.
THEOREM RunsPlanWhatIsComputed == EngineSpec => []RunsStoreWhatIsComputed
<1>1. EngineInv /\ OwnBills => RunsStoreWhatIsComputed
  BY StoresComputed, InTime DEF RunsStoreWhatIsComputed
<1> QED
  BY <1>1, EngineInvariant, OwnBillsInvariant, PTL

-----------------------------------------------------------------------------
(* What the leaves below an item ask for.                                  *)

\* The unit of a level, and nothing where there is no level.
UnitOf(n) == IF n \in 0 .. EngineDepth THEN Unit(n) ELSE 0

\* What a leaf asks of an item, for one piece so many lines below a demand.
LeafAsks(leaf, x, above) ==
    IF leaf.item = x THEN leaf.per * UnitOf(above + leaf.lines) ELSE 0

\* What each of the leaves of an explosion asks of an item.
EachAsks(leaves, x, above) == [j \in DOMAIN leaves |-> LeafAsks(leaves[j], x, above)]

\* What all of them ask.
LeavesAsk(leaves, x, above) == SumFunction(EachAsks(leaves, x, above))

\* A unit is an integer.
LEMMA UnitTyped == \A n : UnitOf(n) \in Int
  BY UnitIsPositive DEF UnitOf

\* What a leaf asks is an integer.
LEMMA LeafAsksTyped ==
    ASSUME NEW leaf \in Leaf, NEW x, NEW above
    PROVE  LeafAsks(leaf, x, above) \in Int
  <1>1. PICK per \in Int, u \in Int : per = leaf.per /\ u = UnitOf(above + leaf.lines)
    BY UnitTyped DEF Leaf
  <1>2. per * u \in Int
    OBVIOUS
  <1> QED
    BY <1>1, <1>2 DEF LeafAsks

\* What the leaves of an explosion ask can be added up.
LEMMA LeavesAskTyped ==
    ASSUME NEW leaves \in Seq(Leaf), NEW x, NEW above
    PROVE  /\ DOMAIN leaves = 1 .. Len(leaves) /\ Len(leaves) \in Nat
           /\ EachAsks(leaves, x, above) \in [1 .. Len(leaves) -> Int]
           /\ LeavesAsk(leaves, x, above) \in Int
  <1>1. DOMAIN leaves = 1 .. Len(leaves) /\ Len(leaves) \in Nat
    OBVIOUS
  <1>2. \A j \in DOMAIN leaves : leaves[j] \in Leaf
    OBVIOUS
  <1>3. \A j \in DOMAIN leaves : LeafAsks(leaves[j], x, above) \in Int
    BY <1>2, LeafAsksTyped
  <1>4. EachAsks(leaves, x, above) \in [1 .. Len(leaves) -> Int]
    BY <1>1, <1>3 DEF EachAsks
  <1>5. IsFiniteSet(1 .. Len(leaves))
    BY <1>1, FS_Interval
  <1> QED
    BY <1>1, <1>4, <1>5, SumTyped DEF LeavesAsk

\* No leaves ask for nothing.
LEMMA NoneAsked ==
    ASSUME NEW x, NEW above
    PROVE  LeavesAsk(<<>>, x, above) = 0
  <1> DEFINE f == EachAsks(<<>>, x, above)
  <1>1. DOMAIN <<>> = {} /\ f \in [{} -> Int]
    BY DEF EachAsks
  <1> HIDE DEF f
  <1>2. SumFunction(f) = SumOn(f, {}) /\ SumOn(f, {}) = 0
    BY <1>1, FS_EmptySet, SumOnGrows
  <1> QED
    BY <1>2 DEF LeavesAsk, f

\* Two lists of leaves ask for what each of them asks.
LEMMA ConcatAsks ==
    ASSUME NEW a \in Seq(Leaf), NEW b \in Seq(Leaf), NEW x, NEW above
    PROVE  LeavesAsk(a \o b, x, above) = LeavesAsk(a, x, above) + LeavesAsk(b, x, above)
  <1>1. PICK n \in Nat, m \in Nat : n = Len(a) /\ m = Len(b)
    OBVIOUS
  <1>2. PICK c \in Seq(Leaf) : c = a \o b
    <2>1. a \o b \in Seq(Leaf)
      OBVIOUS
    <2> HIDE DEF Leaf
    <2> QED
      BY <2>1, Zenon
  <1>3. Len(c) = n + m /\ DOMAIN c = 1 .. (n + m) /\ DOMAIN a = 1 .. n /\ DOMAIN b = 1 .. m
    BY <1>1, <1>2
  <1>4. \A j \in 1 .. n : c[j] = a[j] /\ j \in 1 .. (n + m)
    BY <1>1, <1>2
  <1>5. \A j \in 1 .. m : c[n + j] = b[j] /\ n + j \in 1 .. (n + m)
    BY <1>1, <1>2
  <1> DEFINE f == EachAsks(a, x, above)
             g == EachAsks(b, x, above)
             h == EachAsks(c, x, above)
  <1>6. f \in [1 .. n -> Int] /\ g \in [1 .. m -> Int] /\ h \in [1 .. (n + m) -> Int]
    BY <1>1, <1>3, LeavesAskTyped
  <1>7. \A j \in 1 .. n : h[j] = f[j]
    BY <1>3, <1>4 DEF EachAsks
  <1>8. \A j \in 1 .. m : h[n + j] = g[j]
    BY <1>3, <1>5 DEF EachAsks
  <1> HIDE DEF f, g, h
  <1>9. SumFunction(h) = SumFunction(f) + SumFunction(g)
    BY <1>6, <1>7, <1>8, SumConcat
  <1> QED
    BY <1>2, <1>9 DEF LeavesAsk, f, g, h

\* So do any number of lists.
LEMMA FlattenAsks ==
    ASSUME NEW ss \in Seq(Seq(Leaf)), NEW x, NEW above
    PROVE  /\ [i \in DOMAIN ss |-> LeavesAsk(ss[i], x, above)] \in [1 .. Len(ss) -> Int]
           /\ LeavesAsk(FlattenSeq(ss), x, above)
                 = SumFunction([i \in DOMAIN ss |-> LeavesAsk(ss[i], x, above)])
  <1> DEFINE n == Len(ss)
             f == [i \in DOMAIN ss |-> LeavesAsk(ss[i], x, above)]
  <1>1. n \in Nat /\ DOMAIN ss = 1 .. n /\ \A i \in 1 .. n : ss[i] \in Seq(Leaf)
    OBVIOUS
  <1>2. PICK P : Joins(P, ss, Leaf) /\ P[n] = FlattenSeq(ss)
    BY FlattenGoes
  <1>3. /\ P \in [0 .. n -> Seq(Leaf)] /\ P[0] = <<>>
        /\ \A i \in 1 .. n : P[i] = P[i - 1] \o ss[i]
    BY <1>2 DEF Joins
  <1>4. f \in [1 .. n -> Int] /\ \A i \in 1 .. n : f[i] = LeavesAsk(ss[i], x, above)
    BY <1>1, LeavesAskTyped
  <1> HIDE DEF n, f
  <1> DEFINE T == {k \in Nat : k <= n => LeavesAsk(P[k], x, above) = SumOn(f, 1 .. k)}
  <1>5. 0 \in T
    <2>1. SumOn(f, 1 .. 0) = 0
      BY <1>1, <1>4, SumUpTo
    <2>2. LeavesAsk(P[0], x, above) = 0
      BY <1>3, NoneAsked
    <2> QED
      BY <2>1, <2>2
  <1>6. ASSUME NEW k \in T PROVE k + 1 \in T
    <2>1. k \in Nat
      OBVIOUS
    <2> SUFFICES ASSUME k + 1 <= n PROVE LeavesAsk(P[k + 1], x, above) = SumOn(f, 1 .. (k + 1))
      BY <2>1
    <2>2. k + 1 \in 1 .. n /\ k \in 0 .. n /\ k <= n /\ (k + 1) - 1 = k
      BY <1>1, <2>1
    <2>3. LeavesAsk(P[k], x, above) = SumOn(f, 1 .. k)
      BY <2>2
    <2> HIDE DEF T
    <2>4. PICK a \in Seq(Leaf), b \in Seq(Leaf) : a = P[k] /\ b = ss[k + 1]
      BY <1>1, <1>3, <2>2
    <2>5. P[k + 1] = a \o b
      BY <1>3, <2>2, <2>4
    <2>6. LeavesAsk(a \o b, x, above) = LeavesAsk(a, x, above) + LeavesAsk(b, x, above)
      BY ConcatAsks
    <2>7. SumOn(f, 1 .. (k + 1)) = SumOn(f, 1 .. k) + f[k + 1]
      BY <1>1, <1>4, <2>1, SumOfNext
    <2> QED
      BY <1>4, <2>2, <2>3, <2>4, <2>5, <2>6, <2>7
  <1>7. T = Nat
    BY <1>5, <1>6, SetInduction
  <1> HIDE DEF T
  <1>8. n \in T /\ n <= n
    BY <1>1, <1>7
  <1>9. LeavesAsk(P[n], x, above) = SumOn(f, 1 .. n)
    BY <1>8 DEF T
  <1>10. SumFunction(f) = SumOn(f, 1 .. n)
    BY <1>1, <1>4, SumUpTo
  <1> QED
    BY <1>2, <1>4, <1>9, <1>10 DEF f, n

\* What a line asks for, directly or through the item it is for.
LEMMA LineAsks ==
    ASSUME NEW map, NEW prev \in AllLeaves, NEW line \in EngineLine, NEW x, x \notin DOMAIN map,
           NEW above \in Int
    PROVE  LeavesAsk(OfLine(map, prev, line), x, above)
              = IF line.child \in DOMAIN map
                THEN line.per * LeavesAsk(prev[line.child], x, above + 1)
                ELSE IF line.child = x THEN line.per * UnitOf(above + 1) ELSE 0
  <1>1. CASE line.child \in DOMAIN map
    <2>1. PICK below \in Seq(Leaf) : below = prev[line.child]
      BY DEF AllLeaves, EngineLine
    <2>2. PICK n \in Nat : n = Len(below) /\ DOMAIN below = 1 .. n
      OBVIOUS
    <2> DEFINE f == EachAsks(below, x, above + 1)
               o == [j \in DOMAIN below |-> Through(line, below[j])]
               h == EachAsks(o, x, above)
    <2>3. OfLine(map, prev, line) = o
      BY <1>1, <2>1 DEF OfLine
    <2>4. f \in [1 .. n -> Int]
      BY <2>2, LeavesAskTyped
    <2>5. ASSUME NEW j \in 1 .. n PROVE h[j] = line.per * f[j] /\ h[j] \in Int
      <3>1. PICK leaf \in Leaf : leaf = below[j]
        BY <2>2
      <3>2. PICK t \in Leaf : t = Through(line, leaf)
        BY ThroughLeaf
      <3>3. t.item = leaf.item /\ t.per = leaf.per * line.per /\ t.lines = leaf.lines + 1
        BY <3>2, ThroughLeaf
      <3>4. h[j] = LeafAsks(t, x, above) /\ f[j] = LeafAsks(leaf, x, above + 1)
        BY <2>2, <3>1, <3>2 DEF EachAsks
      <3>5. above + t.lines = (above + 1) + leaf.lines
        BY <3>3 DEF Leaf
      <3>6. PICK u \in Int : u = UnitOf(above + t.lines)
        BY UnitTyped
      <3>7. PICK p \in Int, q \in Int : p = leaf.per /\ q = line.per
        BY DEF Leaf, EngineLine
      <3>8. (p * q) * u = q * (p * u) /\ q * 0 = 0 /\ (p * q) * u \in Int
        OBVIOUS
      <3>9. h[j] = IF leaf.item = x THEN (p * q) * u ELSE 0
        BY <3>3, <3>4, <3>6, <3>7 DEF LeafAsks
      <3>10. f[j] = IF leaf.item = x THEN p * u ELSE 0
        BY <3>4, <3>5, <3>6, <3>7 DEF LeafAsks
      <3> QED
        BY <3>7, <3>8, <3>9, <3>10
    <2>6. DOMAIN o = 1 .. n
      BY <2>2
    <2>7. h \in [1 .. n -> Int]
      BY <2>5, <2>6 DEF EachAsks
    <2>8. LeavesAsk(o, x, above) = SumFunction(h) /\ LeavesAsk(below, x, above + 1) = SumFunction(f)
      BY DEF LeavesAsk
    <2>9. PICK q \in Int : q = line.per
      BY DEF EngineLine
    <2> HIDE DEF f, h, o
    <2>10. Scaled(1 .. n, f, q, h)
      BY <2>4, <2>5, <2>7, <2>9 DEF Scaled
    <2>11. IsFiniteSet(1 .. n)
      BY FS_Interval
    <2>12. SumFunction(h) = q * SumFunction(f)
      BY <2>10, <2>11, SumScales
    <2> QED
      BY <1>1, <2>1, <2>3, <2>8, <2>9, <2>12
  <1>2. CASE line.child \notin DOMAIN map
    <2> DEFINE leaf == [item |-> line.child, per |-> line.per, lines |-> 1, lead |-> line.lead]
               f == EachAsks(<<leaf>>, x, above)
    <2>1. OfLine(map, prev, line) = <<leaf>>
      BY <1>2 DEF OfLine
    <2>2. leaf \in Leaf /\ leaf.item = line.child /\ leaf.per = line.per /\ leaf.lines = 1
      BY DEF Leaf, EngineLine
    <2>3. DOMAIN <<leaf>> = {1} /\ <<leaf>>[1] = leaf
      OBVIOUS
    <2> HIDE DEF leaf
    <2>4. f[1] = LeafAsks(leaf, x, above) /\ DOMAIN f = {1}
      BY <2>3 DEF EachAsks
    <2>5. LeafAsks(leaf, x, above) \in Int
      BY <2>2, LeafAsksTyped
    <2>6. f \in [{1} -> Int]
      BY <2>3, <2>5 DEF EachAsks
    <2> HIDE DEF f
    <2>7. IsFiniteSet({1}) /\ \A j \in {1} : j # 1 => f[j] = 0
      BY FS_Singleton
    <2>8. SumFunction(f) = f[1]
      BY <2>6, <2>7, SumOfOne
    <2>9. LeavesAsk(<<leaf>>, x, above) = LeafAsks(leaf, x, above)
      BY <2>4, <2>8 DEF LeavesAsk, f
    <2> QED
      BY <1>2, <2>1, <2>2, <2>9 DEF LeafAsks
  <1> QED
    BY <1>1, <1>2

\* What a piece of every item that a line may ask for stands for, one level further down:
\* itself, where it is the item in question.
Reached(map, x) == DOMAIN map \cup {x}

\* Of an item with a bill of its own: what the leaves below it ask.
Worth(map, prev, x, above) ==
    [c \in Reached(map, x) |->
        IF c = x THEN UnitOf(above + 1) ELSE LeavesAsk(prev[c], x, above + 1)]

\* How many pieces of an item a line asks for.
OfChild(line, c) == IF line.child = c THEN line.per ELSE 0

\* All of these are integers, and finitely many.
LEMMA WorthTyped ==
    ASSUME NEW map, DOMAIN map \subseteq Items, IsFiniteSet(DOMAIN map), NEW prev \in AllLeaves,
           NEW x, NEW above \in Int
    PROVE  /\ IsFiniteSet(Reached(map, x))
           /\ Worth(map, prev, x, above) \in [Reached(map, x) -> Int]
  <1>1. IsFiniteSet(Reached(map, x))
    BY FS_AddElement DEF Reached
  <1>2. ASSUME NEW c \in Reached(map, x), c # x PROVE LeavesAsk(prev[c], x, above + 1) \in Int
    <2>1. PICK leaves \in Seq(Leaf) : leaves = prev[c]
      BY <1>2 DEF Reached, AllLeaves
    <2> QED
      BY <2>1, LeavesAskTyped
  <1> QED
    BY <1>1, <1>2, UnitTyped DEF Worth

\* A line asks for its pieces of one item, each worth what is below that item.
LEMMA LineWorth ==
    ASSUME NEW map, DOMAIN map \subseteq Items, IsFiniteSet(DOMAIN map), NEW prev \in AllLeaves,
           NEW line \in EngineLine, NEW x, x \notin DOMAIN map, NEW above \in Int
    PROVE  LeavesAsk(OfLine(map, prev, line), x, above)
              = SumFunction([c \in Reached(map, x) |-> OfChild(line, c) * Worth(map, prev, x, above)[c]])
  <1> DEFINE C == Reached(map, x)
             w == Worth(map, prev, x, above)
             f == [c \in C |-> OfChild(line, c) * w[c]]
             child == line.child
  <1>1. IsFiniteSet(C) /\ w \in [C -> Int]
    BY WorthTyped
  <1>2. PICK per \in Int : per = line.per
    BY DEF EngineLine
  <1>3. \A c \in C : w[c] = IF c = x THEN UnitOf(above + 1) ELSE LeavesAsk(prev[c], x, above + 1)
    BY DEF Worth
  <1>4. C = DOMAIN map \cup {x}
    BY DEF Reached
  <1> HIDE DEF C, w
  <1>5. \A i, j \in Int : i * j \in Int /\ 0 * j = 0
    OBVIOUS
  <1>6. ASSUME NEW c \in C
        PROVE  /\ f[c] = OfChild(line, c) * w[c] /\ f[c] \in Int
               /\ c # child => f[c] = 0
               /\ c = child => f[c] = per * w[c]
    <2>1. PICK v \in Int : v = w[c]
      BY <1>1
    <2>2. OfChild(line, c) = IF c = child THEN per ELSE 0
      BY <1>2 DEF OfChild
    <2>3. per * v \in Int /\ 0 * v = 0
      BY <1>5
    <2>4. f[c] = OfChild(line, c) * v
      BY <2>1
    <2> HIDE DEF f
    <2> QED
      BY <2>1, <2>2, <2>3, <2>4
  <1>7. f \in [C -> Int]
    BY <1>6
  <1>8. \A c \in C : c # child => f[c] = 0
    BY <1>6
  <1>9. \A c \in C : c = child => f[c] = per * w[c]
    BY <1>6
  <1> HIDE DEF f
  <1>10. SumFunction(f) = IF child \in C THEN f[child] ELSE 0
    BY <1>1, <1>7, <1>8, SumOfOne
  <1>11. LeavesAsk(OfLine(map, prev, line), x, above)
              = IF child \in DOMAIN map THEN per * LeavesAsk(prev[child], x, above + 1)
                ELSE IF child = x THEN per * UnitOf(above + 1) ELSE 0
    BY <1>2, LineAsks
  <1> HIDE DEF child
  <1>12. SumFunction(f) = IF child \in DOMAIN map THEN per * LeavesAsk(prev[child], x, above + 1)
                ELSE IF child = x THEN per * UnitOf(above + 1) ELSE 0
    BY <1>3, <1>4, <1>9, <1>10
  <1> QED
    BY <1>11, <1>12 DEF f, C, w

\* The lines of a bill, grouped by the item they ask for.
LEMMA ItemAsks ==
    ASSUME NEW map, IsBills(map), IsFiniteSet(DOMAIN map), NEW prev \in AllLeaves,
           NEW item \in DOMAIN map, NEW x, x \notin DOMAIN map, NEW above \in Int
    PROVE  /\ [c \in Reached(map, x) |-> Asked(map[item], c)] \in [Reached(map, x) -> Int]
           /\ LeavesAsk(OfItem(map, prev, item), x, above)
              = SumFunction([c \in Reached(map, x) |-> Asked(map[item], c) * Worth(map, prev, x, above)[c]])
  <1> DEFINE C == Reached(map, x)
             w == Worth(map, prev, x, above)
  <1>1. DOMAIN map \subseteq Items
    BY DEF IsBills
  <1>2. IsFiniteSet(C) /\ w \in [C -> Int]
    BY <1>1, WorthTyped
  <1>3. PICK ss : LeafLists(map, prev, item, ss)
    BY LeafListsExist
  <1>4. PICK bill \in Seq(EngineLine) : bill = map[item]
    BY DEF IsBills
  <1> DEFINE n == Len(bill)
             I == 1 .. n
             one == [i \in I |-> 1]
             b == [i \in I |-> [c \in C |-> OfChild(bill[i], c)]]
             asked == [c \in C |-> Asked(bill, c)]
  <1>5. n \in Nat /\ DOMAIN bill = I /\ \A i \in I : bill[i] \in EngineLine
    OBVIOUS
  <1>6. IsFiniteSet(I)
    BY <1>5, FS_Interval
  <1>7. \A i \in I : \A c : OfChild(bill[i], c) \in Int
    BY <1>5 DEF OfChild, EngineLine
  <1>8. b \in [I -> [C -> Int]] /\ one \in [I -> Int]
    BY <1>7
  <1>9. \A c \in C : [i \in I |-> one[i] * b[i][c]] = [i \in I |-> OfChild(bill[i], c)]
    <2> TAKE c \in C
    <2>1. \A i \in I : one[i] * b[i][c] = OfChild(bill[i], c)
      <3> TAKE i \in I
      <3>1. PICK k \in Int : k = OfChild(bill[i], c)
        BY <1>7
      <3>2. b[i][c] = k /\ one[i] = 1 /\ 1 * k = k
        BY <3>1
      <3> HIDE DEF b, one
      <3> QED
        BY <3>1, <3>2
    <2> QED
      BY <2>1
  <1>10. \A c : Asked(bill, c) = SumFunction([i \in I |-> OfChild(bill[i], c)])
    BY <1>5 DEF Asked, OfChild
  <1> HIDE DEF b, one, I, C, w, n
  <1>11. asked \in [C -> Int]
    <2>1. \A c \in C : [i \in I |-> OfChild(bill[i], c)] \in [I -> Int]
      BY <1>7
    <2>2. \A c \in C : Asked(bill, c) \in Int
      BY <1>6, <1>10, <2>1, SumTyped
    <2> QED
      BY <2>2
  <1>12. SumFunction(Across(I, C, one, b, w)) = SumFunction(Down(I, C, one, b, w))
    BY <1>2, <1>6, <1>8, SumsThrough DEF IsTable
  <1>13. Down(I, C, one, b, w) = [c \in C |-> Asked(bill, c) * w[c]]
    BY <1>9, <1>10 DEF Down
  <1>14. ASSUME NEW i \in I
         PROVE  LeavesAsk(ss[i], x, above) = one[i] * SumFunction([c \in C |-> b[i][c] * w[c]])
    <2>1. ss[i] = OfLine(map, prev, bill[i]) /\ bill[i] \in EngineLine
      BY <1>3, <1>4, <1>5 DEF LeafLists
    <2>2. LeavesAsk(OfLine(map, prev, bill[i]), x, above)
            = SumFunction([c \in C |-> OfChild(bill[i], c) * w[c]])
      BY <1>1, <2>1, LineWorth DEF C, w
    <2>3. [c \in C |-> b[i][c] * w[c]] = [c \in C |-> OfChild(bill[i], c) * w[c]]
      BY DEF b
    <2>4. [c \in C |-> b[i][c] * w[c]] \in [C -> Int]
      <3>1. \A c \in C : b[i][c] \in Int /\ w[c] \in Int
        BY <1>2, <1>8
      <3>2. \A j, k \in Int : j * k \in Int
        OBVIOUS
      <3> QED
        BY <3>1, <3>2
    <2>5. PICK s \in Int : s = SumFunction([c \in C |-> b[i][c] * w[c]])
      BY <1>2, <2>4, SumTyped
    <2>6. one[i] = 1 /\ 1 * s = s
      BY DEF one
    <2> QED
      BY <2>1, <2>2, <2>3, <2>5, <2>6
  <1>15. DOMAIN ss = I
    BY <1>3, <1>4, <1>5 DEF LeafLists
  <1>16. [i \in DOMAIN ss |-> LeavesAsk(ss[i], x, above)]
            = Across(I, C, one, b, w)
    BY <1>14, <1>15 DEF Across
  <1>17. LeavesAsk(FlattenSeq(ss), x, above) = SumFunction([i \in DOMAIN ss |-> LeavesAsk(ss[i], x, above)])
    BY <1>3, FlattenAsks DEF LeafLists
  <1>18. LeavesAsk(OfItem(map, prev, item), x, above) = SumFunction([c \in C |-> Asked(bill, c) * w[c]])
    BY <1>3, <1>12, <1>13, <1>16, <1>17 DEF LeafLists
  <1> QED
    BY <1>4, <1>11, <1>18 DEF C, w

-----------------------------------------------------------------------------
(* The pieces needed, level by level.                                      *)

\* So many pieces of every item.
Quantities == [Items -> Int]

\* How many pieces of an item a demand is for.
OfDemand(demand, item) == IF demand.item = item THEN demand.qty ELSE 0

\* The pieces the demands are for.
AtTop(demands) ==
    [item \in Items |-> SumFunction([k \in DOMAIN demands |-> OfDemand(demands[k], item)])]

\* The pieces that so many of the items of one level need at the next one.
Further(map, prev) ==
    [item \in Items |-> SumFunction([parent \in DOMAIN map |->
                                       prev[parent] * Asked(map[parent], item)])]

\* From the pieces of each level to those of the next.
NeedSteps(map) == [n \in 1 .. EngineDepth |-> [prev \in Quantities |-> Further(map, prev)]]

\* What a bill asks of an item is an integer.
LEMMA AskedTyped ==
    ASSUME NEW bill \in Seq(EngineLine), NEW item
    PROVE  Asked(bill, item) \in Int
  <1>1. DOMAIN bill = 1 .. Len(bill) /\ IsFiniteSet(1 .. Len(bill))
    BY FS_Interval
  <1>2. \A i \in DOMAIN bill : bill[i] \in EngineLine
    OBVIOUS
  <1>3. \A i \in DOMAIN bill : bill[i].per \in Int
    BY <1>2 DEF EngineLine
  <1>4. [i \in DOMAIN bill |-> IF bill[i].child = item THEN bill[i].per ELSE 0] \in [DOMAIN bill -> Int]
    BY <1>3
  <1> QED
    BY <1>1, <1>4, SumTyped DEF Asked

\* What the demands are for can be added up.
LEMMA TopTyped ==
    ASSUME NEW demands \in Seq(EngineDemand)
    PROVE  /\ DOMAIN demands = 1 .. Len(demands) /\ Len(demands) \in Nat
           /\ IsFiniteSet(DOMAIN demands)
           /\ \A item : [k \in DOMAIN demands |-> OfDemand(demands[k], item)] \in [DOMAIN demands -> Int]
           /\ AtTop(demands) \in Quantities
  <1>1. DOMAIN demands = 1 .. Len(demands) /\ Len(demands) \in Nat /\ IsFiniteSet(1 .. Len(demands))
    BY FS_Interval
  <1>2. \A k \in DOMAIN demands : demands[k] \in EngineDemand
    OBVIOUS
  <1>3. \A k \in DOMAIN demands : \A item : OfDemand(demands[k], item) \in Int
    BY <1>2 DEF EngineDemand, OfDemand
  <1>4. \A item : [k \in DOMAIN demands |-> OfDemand(demands[k], item)] \in [DOMAIN demands -> Int]
    BY <1>3
  <1>5. \A item \in Items : SumFunction([k \in DOMAIN demands |-> OfDemand(demands[k], item)]) \in Int
    BY <1>1, <1>4, SumTyped
  <1> QED
    BY <1>1, <1>4, <1>5 DEF AtTop, Quantities

\* So can what a level needs.
LEMMA FurtherTyped ==
    ASSUME NEW map, IsBills(map), IsFiniteSet(DOMAIN map), NEW prev \in Quantities
    PROVE  Further(map, prev) \in Quantities
  <1>1. ASSUME NEW item \in Items, NEW parent \in DOMAIN map
        PROVE  prev[parent] * Asked(map[parent], item) \in Int
    <2>1. PICK a \in Int, b \in Int : a = prev[parent] /\ b = Asked(map[parent], item)
      BY AskedTyped DEF IsBills, Quantities
    <2>2. a * b \in Int
      OBVIOUS
    <2> QED
      BY <2>1, <2>2
  <1>2. \A item \in Items : [parent \in DOMAIN map |-> prev[parent] * Asked(map[parent], item)]
                               \in [DOMAIN map -> Int]
    BY <1>1
  <1>3. \A item \in Items : SumFunction([parent \in DOMAIN map |-> prev[parent] * Asked(map[parent], item)])
                               \in Int
    BY <1>2, SumTyped
  <1> QED
    BY <1>3 DEF Further, Quantities

\* The reference definition is the levels of this recursion.
LEMMA NeededGo ==
    ASSUME IsBills(calc.map), IsFiniteSet(DOMAIN calc.map), calc.demands \in Seq(EngineDemand)
    PROVE  GoesBy(Needed, EngineDepth, Quantities, AtTop(calc.demands), NeedSteps(calc.map))
  <1> DEFINE map == calc.map
             demands == calc.demands
             D == EngineDepth
             Step(f) == [n \in 0 .. D |-> [item \in Items |->
                IF n = 0
                THEN SumFunction([k \in DOMAIN demands |->
                       IF demands[k].item = item THEN demands[k].qty ELSE 0])
                ELSE SumFunction([parent \in DOMAIN map |->
                       f[n - 1][parent] * Asked(map[parent], item)])]]
             F == CHOOSE f : f = Step(f)
             top == AtTop(demands)
             steps == NeedSteps(map)
  <1>1. D \in Nat
    BY EngineAssumption
  <1>2. Needed = F
    BY DEF Needed
  <1>3. IsBills(map) /\ IsFiniteSet(DOMAIN map) /\ demands \in Seq(EngineDemand)
    OBVIOUS
  <1> HIDE DEF map, demands
  <1>4. top \in Quantities
    BY <1>3, TopTyped
  <1>5. \A n \in 1 .. D : \A prev \in Quantities :
           steps[n][prev] = Further(map, prev) /\ steps[n][prev] \in Quantities
    BY <1>3, FurtherTyped DEF NeedSteps
  <1> HIDE DEF top, steps
  <1>6. PICK P : GoesBy(P, D, Quantities, top, steps)
    <2>1. \A n \in 1 .. D : \A prev \in Quantities : steps[n][prev] \in Quantities
      BY <1>5
    <2> HIDE DEF D
    <2> QED
      BY <1>1, <1>4, <2>1, RecursionExists
  <1>7. ASSUME NEW f PROVE Step(f) = [n \in 0 .. D |-> IF n = 0 THEN top ELSE Further(map, f[n - 1])]
    <2>1. ASSUME NEW n, n = 0
          PROVE  [item \in Items |->
                IF n = 0
                THEN SumFunction([k \in DOMAIN demands |->
                       IF demands[k].item = item THEN demands[k].qty ELSE 0])
                ELSE SumFunction([parent \in DOMAIN map |->
                       f[n - 1][parent] * Asked(map[parent], item)])] = top
      BY <2>1, Zenon DEF top, AtTop, OfDemand
    <2>2. ASSUME NEW n, n # 0
          PROVE  [item \in Items |->
                IF n = 0
                THEN SumFunction([k \in DOMAIN demands |->
                       IF demands[k].item = item THEN demands[k].qty ELSE 0])
                ELSE SumFunction([parent \in DOMAIN map |->
                       f[n - 1][parent] * Asked(map[parent], item)])] = Further(map, f[n - 1])
      BY <2>2, Zenon DEF Further
    <2> QED
      BY <2>1, <2>2, Zenon
  <1> HIDE DEF Step
  <1>8. P = Step(P)
    <2>1. P = [n \in 0 .. D |-> P[n]]
      BY <1>6 DEF GoesBy
    <2>2. ASSUME NEW n \in 0 .. D PROVE P[n] = IF n = 0 THEN top ELSE Further(map, P[n - 1])
      <3>1. CASE n = 0
        BY <1>6, <3>1 DEF GoesBy
      <3>2. CASE n # 0
        <4>1. n \in 1 .. D /\ n - 1 \in 0 .. D
          BY <1>1, <3>2
        <4> QED
          BY <1>5, <1>6, <3>2, <4>1 DEF GoesBy
      <3> QED
        BY <3>1, <3>2
    <2> QED
      BY <1>7, <2>1, <2>2
  <1>9. F = Step(F)
    BY <1>8
  <1> HIDE DEF F
  <1>10. GoesBy(F, D, Quantities, top, steps)
    <2>1. \A n \in 0 .. D : F[n] = IF n = 0 THEN top ELSE Further(map, F[n - 1])
      BY <1>7, <1>9
    <2>2. F = [n \in 0 .. D |-> F[n]]
      BY <1>7, <1>9
    <2>3. F[0] = top
      <3>1. 0 \in 0 .. D
        BY <1>1
      <3> QED
        BY <2>1, <3>1
    <2>4. ASSUME NEW n \in 1 .. D, F[n - 1] \in Quantities PROVE F[n] = steps[n][F[n - 1]]
      <3>1. n \in 0 .. D /\ n # 0
        BY <1>1
      <3>2. F[n] = Further(map, F[n - 1])
        BY <2>1, <3>1
      <3> QED
        BY <1>5, <2>4, <3>2
    <2>5. StepsUp(F, D, Quantities, top, steps)
      BY <2>2, <2>3, <2>4 DEF StepsUp
    <2>6. StepsWithin(D, Quantities, steps)
      BY <1>5 DEF StepsWithin
    <2> QED
      BY <1>1, <1>4, <2>5, <2>6, RecursionGoes
  <1> QED
    BY <1>2, <1>10 DEF top, steps, map, demands

\* What the leaves below the needed items ask of an item.
AskedBelow(map, need, leaves, x, above) ==
    SumFunction([q \in DOMAIN map |-> need[q] * LeavesAsk(leaves[q], x, above)])

\* What the leaves below the needed items ask is an integer.
LEMMA BelowTyped ==
    ASSUME NEW map, IsBills(map), IsFiniteSet(DOMAIN map), NEW need \in Quantities,
           NEW leaves \in AllLeaves, NEW x, NEW above
    PROVE  /\ [q \in DOMAIN map |-> need[q] * LeavesAsk(leaves[q], x, above)] \in [DOMAIN map -> Int]
           /\ AskedBelow(map, need, leaves, x, above) \in Int
  <1>1. ASSUME NEW q \in DOMAIN map PROVE need[q] * LeavesAsk(leaves[q], x, above) \in Int
    <2>1. PICK below \in Seq(Leaf) : below = leaves[q]
      BY DEF IsBills, AllLeaves
    <2>2. PICK a \in Int, b \in Int : a = need[q] /\ b = LeavesAsk(below, x, above)
      BY LeavesAskTyped DEF IsBills, Quantities
    <2>3. a * b \in Int
      OBVIOUS
    <2> QED
      BY <2>1, <2>2, <2>3
  <1>2. [q \in DOMAIN map |-> need[q] * LeavesAsk(leaves[q], x, above)] \in [DOMAIN map -> Int]
    BY <1>1
  <1> QED
    BY <1>2, SumTyped DEF AskedBelow

\* One level: what the bills ask for themselves, and what is below the items they ask for.
LEMMA LevelAsks ==
    ASSUME NEW map, IsBills(map), IsFiniteSet(DOMAIN map), NEW need \in Quantities,
           NEW prev \in AllLeaves, NEW x \in Items, x \notin DOMAIN map, NEW above \in Int
    PROVE  AskedBelow(map, need, Deeper(map, prev), x, above)
              = Further(map, need)[x] * UnitOf(above + 1)
                  + AskedBelow(map, Further(map, need), prev, x, above + 1)
  <1> DEFINE S == DOMAIN map
             C == Reached(map, x)
             w == [q \in S |-> need[q]]
             b == [q \in S |-> [c \in C |-> Asked(map[q], c)]]
             v == Worth(map, prev, x, above)
             down == Down(S, C, w, b, v)
             more == Further(map, need)
  <1>1. S \subseteq Items /\ IsFiniteSet(S) /\ x \notin S /\ C = S \cup {x}
    BY DEF IsBills, Reached
  <1>2. IsFiniteSet(C) /\ v \in [C -> Int]
    BY <1>1, WorthTyped
  <1>3. \A c \in C : v[c] = IF c = x THEN UnitOf(above + 1) ELSE LeavesAsk(prev[c], x, above + 1)
    BY DEF Worth
  <1>4. \A q \in S : \A c : Asked(map[q], c) \in Int
    BY AskedTyped DEF IsBills
  <1>5. more \in Quantities
    BY FurtherTyped
  <1>6. \A c \in C : more[c] = SumFunction([q \in S |-> need[q] * Asked(map[q], c)])
    BY <1>1 DEF Further
  <1>7. \A q \in S : Deeper(map, prev)[q] = OfItem(map, prev, q)
    BY <1>1 DEF Deeper
  <1>8. IsTable(S, C, w, b, v)
    BY <1>1, <1>2, <1>4 DEF IsTable, Quantities
  <1> HIDE DEF C, v, more
  <1>9. Across(S, C, w, b, v) = [q \in S |-> need[q] * LeavesAsk(Deeper(map, prev)[q], x, above)]
    <2>1. ASSUME NEW q \in S
          PROVE  LeavesAsk(Deeper(map, prev)[q], x, above) = SumFunction([c \in C |-> b[q][c] * v[c]])
      <3>1. LeavesAsk(OfItem(map, prev, q), x, above) = SumFunction([c \in C |-> Asked(map[q], c) * v[c]])
        BY ItemAsks DEF C, v
      <3>2. [c \in C |-> b[q][c] * v[c]] = [c \in C |-> Asked(map[q], c) * v[c]]
        OBVIOUS
      <3> QED
        BY <1>7, <3>1, <3>2
    <2>2. \A q \in S : w[q] = need[q]
      OBVIOUS
    <2> HIDE DEF w, b
    <2> QED
      BY <2>1, <2>2 DEF Across
  <1>10. ASSUME NEW c \in C PROVE down[c] = more[c] * v[c]
    <2>1. [q \in S |-> w[q] * b[q][c]] = [q \in S |-> need[q] * Asked(map[q], c)]
      OBVIOUS
    <2> HIDE DEF w, b
    <2> QED
      BY <1>6, <2>1 DEF Down
  <1> HIDE DEF w, b, S
  <1>11. SumFunction(Across(S, C, w, b, v)) = SumFunction(down) /\ down \in [C -> Int]
    <2>1. IsFiniteSet(S) /\ IsFiniteSet(C)
      BY <1>1, <1>2
    <2> QED
      BY <1>8, <2>1, SumsThrough
  <1> HIDE DEF down
  <1>12. SumFunction(down) = SumOn(down, S) + down[x]
    <2>1. S \in SUBSET C /\ x \in C /\ S \cup {x} = C
      BY <1>1
    <2>2. SumFunction(down) = SumOn(down, C)
      BY <1>2, <1>11, SumOnGrows
    <2>3. SumOn(down, S \cup {x}) = SumOn(down, S) + down[x]
      BY <1>1, <1>2, <1>11, <2>1, SumOnAdds
    <2> QED
      BY <2>1, <2>2, <2>3
  <1>13. down[x] = more[x] * UnitOf(above + 1)
    BY <1>1, <1>3, <1>10
  <1>14. SumOn(down, S) = SumFunction([c \in S |-> more[c] * LeavesAsk(prev[c], x, above + 1)])
    <2>1. \A c \in S : down[c] = more[c] * LeavesAsk(prev[c], x, above + 1)
      BY <1>1, <1>3, <1>10
    <2>2. [c \in S |-> down[c]] = [c \in S |-> more[c] * LeavesAsk(prev[c], x, above + 1)]
      BY <2>1
    <2> QED
      BY <2>2 DEF SumOn
  <1>15. AskedBelow(map, need, Deeper(map, prev), x, above) = SumFunction(Across(S, C, w, b, v))
    BY <1>9 DEF AskedBelow, S
  <1>16. AskedBelow(map, more, prev, x, above + 1) = SumOn(down, S)
    BY <1>14 DEF AskedBelow, S
  <1>17. PICK p \in Int, r \in Int : p = more[x] * UnitOf(above + 1) /\ r = SumOn(down, S)
    <2>1. down[x] \in Int /\ SumOn(down, S) \in Int
      BY <1>1, <1>2, <1>11, SumOnGrows
    <2> QED
      BY <1>13, <2>1
  <1>18. r + p = p + r
    OBVIOUS
  <1> QED
    BY <1>11, <1>12, <1>13, <1>15, <1>16, <1>17, <1>18 DEF more

\* Where the explosion ends nothing is asked.
LEMMA NothingBelow ==
    ASSUME NEW map, IsBills(map), IsFiniteSet(DOMAIN map), NEW need \in Quantities,
           NEW x, x \notin DOMAIN map, NEW above
    PROVE  AskedBelow(map, need, NoLeaves, x, above) = 0
  <1> DEFINE f == [q \in DOMAIN map |-> need[q] * LeavesAsk(NoLeaves[q], x, above)]
  <1>1. ASSUME NEW q \in DOMAIN map PROVE f[q] = 0
    <2>1. NoLeaves[q] = <<>>
      BY DEF NoLeaves, IsBills
    <2>2. LeavesAsk(<<>>, x, above) = 0
      BY NoneAsked
    <2>3. PICK a \in Int : a = need[q]
      BY DEF IsBills, Quantities
    <2>4. a * 0 = 0
      OBVIOUS
    <2> QED
      BY <2>1, <2>2, <2>3, <2>4
  <1>2. f \in [DOMAIN map -> Int]
    BY <1>1
  <1> HIDE DEF f
  <1>3. SumFunction(f) = 0
    BY <1>1, <1>2, SumOfOne
  <1> QED
    BY <1>3 DEF AskedBelow, f

\* The gross requirement of a material, added level by level, is what the leaves below
\* the demanded items ask for.
LEMMA NeedIsLeaves ==
    ASSUME IsBills(calc.map), IsFiniteSet(DOMAIN calc.map), calc.demands \in Seq(EngineDemand),
           NEW x \in Items, x \notin DOMAIN calc.map
    PROVE  GrossNeed(x) = AskedBelow(calc.map, AtTop(calc.demands), LeavesOf(calc.map), x, 0)
  <1>1. PICK map : map = calc.map /\ IsBills(map) /\ IsFiniteSet(DOMAIN map) /\ x \notin DOMAIN map
    OBVIOUS
  <1>2. PICK demands \in Seq(EngineDemand) : demands = calc.demands
    OBVIOUS
  <1>3. PICK L : /\ GoesBy(L, EngineDepth, AllLeaves, NoLeaves, LevelSteps(map))
                 /\ LeavesOf(map) = L[EngineDepth]
    BY <1>1, LeavesGo
  <1>4. PICK N : N = Needed /\ GoesBy(N, EngineDepth, Quantities, AtTop(demands), NeedSteps(map))
    BY <1>1, <1>2, NeededGo
  <1> DEFINE D == EngineDepth
             f == [n \in 1 .. D |-> N[n][x] * Unit(n)]
             rest(m) == AskedBelow(map, N[m], L[D - m], x, m)
             T == {m \in Nat : m <= D => rest(0) = SumOn(f, 1 .. m) + rest(m)}
  <1>5. D \in Nat /\ 0 \in 0 .. D /\ D \in 0 .. D
    BY EngineAssumption
  <1>6. \A n \in 0 .. D : N[n] \in Quantities /\ L[n] \in AllLeaves
    BY <1>3, <1>4 DEF GoesBy
  <1>7. GrossNeed(x) = SumFunction(f)
    BY <1>1, <1>4 DEF GrossNeed
  <1>8. \A n \in 1 .. D : N[n] = Further(map, N[n - 1]) /\ L[n] = Deeper(map, L[n - 1])
    <2> TAKE n \in 1 .. D
    <2>1. n - 1 \in 0 .. D
      BY <1>5
    <2> QED
      BY <1>3, <1>4, <1>6, <2>1 DEF GoesBy, NeedSteps, LevelSteps
  <1>9. \A n \in 1 .. D : n \in 0 .. D /\ UnitOf(n) = Unit(n) /\ Unit(n) \in Int
    BY <1>5, UnitIsPositive DEF UnitOf
  <1>10. f \in [1 .. D -> Int]
    <2>1. \A a, b \in Int : a * b \in Int
      OBVIOUS
    <2>2. \A n \in 1 .. D : N[n][x] \in Int
      BY <1>6, <1>9 DEF Quantities
    <2> QED
      BY <1>9, <2>1, <2>2
  <1>11. \A n \in 1 .. D : f[n] = N[n][x] * Unit(n)
    OBVIOUS
  <1> HIDE DEF f, D
  <1>12. \A m \in 0 .. D : D - m \in 0 .. D /\ rest(m) \in Int
    <2> TAKE m \in 0 .. D
    <2>1. D - m \in 0 .. D
      BY <1>5
    <2> QED
      BY <1>1, <1>6, <2>1, BelowTyped
  <1>13. 0 \in T
    <2>1. SumOn(f, 1 .. 0) = 0
      BY <1>5, <1>10, SumUpTo
    <2>2. rest(0) \in Int
      BY <1>5, <1>12
    <2> HIDE DEF rest
    <2> QED
      BY <2>1, <2>2
  <1>14. ASSUME NEW m \in T PROVE m + 1 \in T
    <2>1. m \in Nat
      OBVIOUS
    <2> SUFFICES ASSUME m + 1 <= D PROVE rest(0) = SumOn(f, 1 .. (m + 1)) + rest(m + 1)
      BY <2>1
    <2>2. /\ m + 1 \in 1 .. D /\ m \in 0 .. D /\ m <= D /\ (m + 1) - 1 = m /\ m + 1 \in 0 .. D
          /\ D - m \in 1 .. D /\ (D - m) - 1 = D - (m + 1) /\ D - (m + 1) \in 0 .. D
      BY <1>5, <2>1
    <2>3. rest(0) = SumOn(f, 1 .. m) + rest(m)
      BY <2>2
    <2> HIDE DEF T
    <2>4. PICK need \in Quantities, prev \in AllLeaves : need = N[m] /\ prev = L[D - (m + 1)]
      BY <1>6, <2>2
    <2>5. L[D - m] = Deeper(map, prev) /\ N[m + 1] = Further(map, need)
      <3>1. \A n \in 1 .. D : L[n] = Deeper(map, L[n - 1])
        BY <1>8
      <3>2. L[D - m] = Deeper(map, L[(D - m) - 1])
        BY <2>2, <3>1
      <3> QED
        BY <1>8, <2>2, <2>4, <3>2
    <2>6. rest(m) = AskedBelow(map, need, Deeper(map, prev), x, m)
      BY <2>4, <2>5
    <2>7. rest(m + 1) = AskedBelow(map, Further(map, need), prev, x, m + 1)
      BY <2>4, <2>5
    <2>8. AskedBelow(map, need, Deeper(map, prev), x, m)
              = Further(map, need)[x] * UnitOf(m + 1)
                  + AskedBelow(map, Further(map, need), prev, x, m + 1)
      BY <1>1, <2>1, LevelAsks
    <2>9. Further(map, need)[x] * UnitOf(m + 1) = f[m + 1]
      BY <1>9, <1>11, <2>2, <2>5
    <2>10. rest(m) = f[m + 1] + rest(m + 1)
      BY <2>6, <2>7, <2>8, <2>9
    <2>11. SumOn(f, 1 .. m) \in Int /\ SumOn(f, 1 .. (m + 1)) = SumOn(f, 1 .. m) + f[m + 1]
      BY <1>5, <1>10, <2>1, SumOfNext
    <2>12. f[m + 1] \in Int /\ rest(m + 1) \in Int
      BY <1>10, <1>12, <2>2
    <2> HIDE DEF rest
    <2> QED
      BY <2>3, <2>10, <2>11, <2>12
  <1>15. T = Nat
    BY <1>13, <1>14, SetInduction
  <1> HIDE DEF T
  <1>16. D \in T /\ D <= D
    BY <1>5, <1>15
  <1>17. rest(0) = SumOn(f, 1 .. D) + rest(D)
    BY <1>16 DEF T
  <1>18. rest(D) = 0
    <2>1. D - D = 0 /\ L[0] = NoLeaves
      BY <1>3, <1>5 DEF GoesBy
    <2> QED
      BY <1>1, <1>5, <1>6, <2>1, NothingBelow
  <1>19. SumFunction(f) = SumOn(f, 1 .. D) /\ SumFunction(f) \in Int
    <2>1. D \in 0 .. D
      BY <1>5
    <2> QED
      BY <1>5, <1>10, <2>1, SumUpTo
  <1>20. rest(0) = AskedBelow(map, AtTop(demands), LeavesOf(map), x, 0)
    <2>1. D - 0 = D /\ N[0] = AtTop(demands)
      BY <1>4, <1>5 DEF GoesBy
    <2> QED
      BY <1>3, <2>1 DEF D
  <1> HIDE DEF rest
  <1>21. GrossNeed(x) = rest(0)
    BY <1>7, <1>17, <1>18, <1>19
  <1> QED
    BY <1>1, <1>2, <1>20, <1>21

\* An item with a bill is no leaf.
LEMMA BillsAskedNothing ==
    ASSUME NEW map, IsBills(map), NEW item \in Items, NEW x \in DOMAIN map, NEW above
    PROVE  LeavesAsk(LeavesOf(map)[item], x, above) = 0
  <1>1. PICK leaves \in Seq(Leaf) : leaves = LeavesOf(map)[item]
    BY LeavesAreMaterials
  <1>2. \A lead : ~ HasLeaf(leaves, x, lead)
    BY <1>1, LeavesAreMaterials DEF Material
  <1>3. \A j \in DOMAIN leaves : leaves[j].item # x
    BY <1>2 DEF HasLeaf
  <1> DEFINE f == EachAsks(leaves, x, above)
  <1>4. \A j \in DOMAIN leaves : f[j] = 0
    BY <1>3 DEF EachAsks, LeafAsks
  <1>5. f \in [1 .. Len(leaves) -> Int] /\ DOMAIN leaves = 1 .. Len(leaves) /\ Len(leaves) \in Nat
    BY LeavesAskTyped
  <1> HIDE DEF f
  <1>6. IsFiniteSet(1 .. Len(leaves)) /\ 0 \notin 1 .. Len(leaves)
    BY <1>5, FS_Interval
  <1>7. SumFunction(f) = 0
    BY <1>4, <1>5, <1>6, SumOfOne
  <1> QED
    BY <1>1, <1>7 DEF LeavesAsk, f

\* An item without a bill has no leaves below it.
LEMMA NothingBelowMaterials ==
    ASSUME NEW map, IsBills(map), NEW item \in Items, item \notin DOMAIN map
    PROVE  LeavesOf(map)[item] = <<>>
  <1>1. PICK L : /\ GoesBy(L, EngineDepth, AllLeaves, NoLeaves, LevelSteps(map))
                 /\ LeavesOf(map) = L[EngineDepth]
    BY LeavesGo
  <1>2. EngineDepth \in 1 .. EngineDepth /\ EngineDepth - 1 \in 0 .. EngineDepth
    BY EngineAssumption
  <1>3. L[EngineDepth] = Deeper(map, L[EngineDepth - 1])
    BY <1>1, <1>2 DEF GoesBy, LevelSteps
  <1> QED
    BY <1>1, <1>3 DEF Deeper, OfItem

\* What a demand asks of an item.
DemandAsks(map, demand, x) == demand.qty * LeavesAsk(LeavesOf(map)[demand.item], x, 0)

\* What each of the demands asks of it.
EachDemand(map, demands, x) == [k \in DOMAIN demands |-> DemandAsks(map, demands[k], x)]

\* It is an integer.
LEMMA DemandTyped ==
    ASSUME NEW map, IsBills(map), NEW demand \in EngineDemand, NEW x
    PROVE  DemandAsks(map, demand, x) \in Int
  <1>1. PICK leaves \in Seq(Leaf) : leaves = LeavesOf(map)[demand.item]
    BY LeavesAreMaterials DEF EngineDemand
  <1>2. PICK a \in Int, b \in Int : a = demand.qty /\ b = LeavesAsk(leaves, x, 0)
    BY LeavesAskTyped DEF EngineDemand
  <1>3. a * b \in Int
    OBVIOUS
  <1> QED
    BY <1>1, <1>2, <1>3 DEF DemandAsks

\* It can be added up over the demands.
LEMMA DemandsTyped ==
    ASSUME NEW map, IsBills(map), NEW demands \in Seq(EngineDemand), NEW x
    PROVE  EachDemand(map, demands, x) \in [1 .. Len(demands) -> Int]
  <1>1. DOMAIN demands = 1 .. Len(demands) /\ \A k \in DOMAIN demands : demands[k] \in EngineDemand
    OBVIOUS
  <1> QED
    BY <1>1, DemandTyped DEF EachDemand

\* Demands of one item together ask what each of them asks.
LEMMA NeedOfMaterial ==
    ASSUME NEW map, IsBills(map), IsFiniteSet(DOMAIN map), NEW demands \in Seq(EngineDemand),
           NEW x
    PROVE  AskedBelow(map, AtTop(demands), LeavesOf(map), x, 0)
             = SumFunction(EachDemand(map, demands, x))
  <1> DEFINE S == DOMAIN demands
             C == DOMAIN map
             w == [k \in S |-> demands[k].qty]
             b == [k \in S |-> [q \in C |-> IF demands[k].item = q THEN 1 ELSE 0]]
             v == [q \in C |-> LeavesAsk(LeavesOf(map)[q], x, 0)]
             top == AtTop(demands)
  <1>1. C \subseteq Items /\ IsFiniteSet(C) /\ IsFiniteSet(S)
    BY TopTyped DEF IsBills
  <1>2. \A k \in S : demands[k] \in EngineDemand
    OBVIOUS
  <1>3. \A k \in S : demands[k].qty \in Int /\ demands[k].item \in Items
    BY <1>2 DEF EngineDemand
  <1>4. \A q \in C : LeavesOf(map)[q] \in Seq(Leaf)
    BY <1>1, LeavesAreMaterials
  <1>5. v \in [C -> Int]
    BY <1>4, LeavesAskTyped
  <1>6. b \in [S -> [C -> Int]] /\ w \in [S -> Int]
    BY <1>3
  <1>7. IsTable(S, C, w, b, v)
    BY <1>5, <1>6 DEF IsTable
  <1>8. \A q \in C : v[q] = LeavesAsk(LeavesOf(map)[q], x, 0)
    OBVIOUS
  <1>9. \A k \in S : w[k] = demands[k].qty /\ \A q \in C : b[k][q] = IF demands[k].item = q THEN 1 ELSE 0
    OBVIOUS
  <1>10. \A q \in C : top[q] = SumFunction([k \in S |-> OfDemand(demands[k], q)])
    BY <1>1 DEF AtTop
  <1> HIDE DEF w, b, v, top
  <1>11. ASSUME NEW q \in C PROVE Down(S, C, w, b, v)[q] = top[q] * LeavesAsk(LeavesOf(map)[q], x, 0)
    <2>1. ASSUME NEW k \in S PROVE w[k] * b[k][q] = OfDemand(demands[k], q)
      <3>1. PICK a \in Int : a = demands[k].qty
        BY <1>3
      <3>2. a * 1 = a /\ a * 0 = 0
        OBVIOUS
      <3> QED
        BY <1>9, <3>1, <3>2 DEF OfDemand
    <2>2. [k \in S |-> w[k] * b[k][q]] = [k \in S |-> OfDemand(demands[k], q)]
      BY <2>1
    <2> QED
      BY <1>8, <1>10, <2>2 DEF Down
  <1>12. ASSUME NEW k \in S PROVE Across(S, C, w, b, v)[k] = DemandAsks(map, demands[k], x)
    <2> DEFINE f == [q \in C |-> b[k][q] * v[q]]
               item == demands[k].item
    <2>1. PICK a \in Int : a = demands[k].qty /\ item \in Items
      BY <1>3
    <2>2. Across(S, C, w, b, v)[k] = a * SumFunction(f)
      BY <1>9, <2>1 DEF Across
    <2>3. ASSUME NEW q \in C PROVE f[q] \in Int /\ f[q] = IF item = q THEN v[q] ELSE 0
      <3>1. PICK u \in Int : u = v[q]
        BY <1>5
      <3>2. 1 * u = u /\ 0 * u = 0
        OBVIOUS
      <3> QED
        BY <1>9, <3>1, <3>2
    <2>4. f \in [C -> Int]
      BY <2>3
    <2> HIDE DEF f
    <2>5. SumFunction(f) = IF item \in C THEN f[item] ELSE 0
      BY <1>1, <2>3, <2>4, SumOfOne
    <2>6. SumFunction(f) = LeavesAsk(LeavesOf(map)[item], x, 0)
      <3>1. CASE item \in C
        BY <1>8, <2>3, <2>5, <3>1
      <3>2. CASE item \notin C
        BY <2>1, <2>5, <3>2, NothingBelowMaterials, NoneAsked
      <3> QED
        BY <3>1, <3>2
    <2> QED
      BY <2>1, <2>2, <2>6 DEF DemandAsks
  <1>13. Across(S, C, w, b, v) = EachDemand(map, demands, x)
    BY <1>12 DEF Across, EachDemand
  <1>14. Down(S, C, w, b, v) = [q \in C |-> top[q] * LeavesAsk(LeavesOf(map)[q], x, 0)]
    BY <1>11 DEF Down
  <1> HIDE DEF S, C
  <1>15. SumFunction(Across(S, C, w, b, v)) = SumFunction(Down(S, C, w, b, v))
    BY <1>1, <1>7, SumsThrough
  <1> QED
    BY <1>13, <1>14, <1>15 DEF AskedBelow, top, S, C

\* The gross requirement of an item, level by level, is what the demands ask of it.
LEMMA NeedOfDemands ==
    ASSUME IsBills(calc.map), IsFiniteSet(DOMAIN calc.map), calc.demands \in Seq(EngineDemand),
           NEW x \in Items
    PROVE  GrossNeed(x) = SumFunction(EachDemand(calc.map, calc.demands, x))
  <1>1. CASE x \notin DOMAIN calc.map
    BY <1>1, NeedIsLeaves, NeedOfMaterial
  <1>2. CASE x \in DOMAIN calc.map
    <2>1. PICK map : map = calc.map /\ IsBills(map) /\ x \in DOMAIN map
      BY <1>2
    <2>2. PICK demands \in Seq(EngineDemand) : demands = calc.demands
      OBVIOUS
    <2> DEFINE f == EachDemand(map, demands, x)
    <2>3. ASSUME NEW k \in DOMAIN demands PROVE f[k] = 0
      <3>1. demands[k] \in EngineDemand
        BY <2>2
      <3>2. LeavesAsk(LeavesOf(map)[demands[k].item], x, 0) = 0
        BY <2>1, <3>1, BillsAskedNothing DEF EngineDemand
      <3>3. PICK a \in Int : a = demands[k].qty
        BY <3>1 DEF EngineDemand
      <3>4. a * 0 = 0
        OBVIOUS
      <3> QED
        BY <3>2, <3>3, <3>4 DEF EachDemand, DemandAsks
    <2>4. f \in [1 .. Len(demands) -> Int]
      BY <2>1, DemandsTyped
    <2>5. DOMAIN demands = 1 .. Len(demands) /\ IsFiniteSet(1 .. Len(demands)) /\ 0 \notin 1 .. Len(demands)
      BY FS_Interval
    <2> HIDE DEF f
    <2>6. SumFunction(f) = 0
      BY <2>3, <2>4, <2>5, SumOfOne
    <2>7. GrossNeed(x) = 0
      BY <1>2 DEF GrossNeed
    <2> QED
      BY <2>1, <2>2, <2>6, <2>7 DEF f
  <1> QED
    BY <1>1, <1>2

-----------------------------------------------------------------------------
(* What an explosion adds to the quantity of an item.                      *)

\* An item has one entry, of the quantity that is needed of it, if any is.
GrossIs(gross, x, q) ==
    /\ q \in Nat
    /\ q = 0 => \A i \in DOMAIN gross : gross[i].item # x
    /\ q # 0 => \E i \in DOMAIN gross :
                   /\ gross[i].item = x /\ gross[i].qty = q
                   /\ \A j \in DOMAIN gross : gross[j].item = x => j = i

\* Accumulating adds a quantity to the entry of its item and leaves the others.
LEMMA AccumulateAdds ==
    ASSUME NEW gross \in Seq(GrossEntry), NEW item \in Items, NEW qty \in Nat \ {0}, NEW need \in Int,
           NEW lead \in Nat, NEW x, NEW q, GrossIs(gross, x, q)
    PROVE  GrossIs(Accumulate(gross, item, qty, need, lead), x, IF item = x THEN q + qty ELSE q)
  <1> DEFINE n == Len(gross)
  <1>1. DOMAIN gross = 1 .. n /\ n \in Nat /\ q \in Nat /\ \A i \in 1 .. n : gross[i] \in GrossEntry
    BY DEF GrossIs
  <1>2. PICK a : a = Accumulate(gross, item, qty, need, lead)
    OBVIOUS
  <1>3. CASE Position(gross, item) = {}
    <2>1. PICK e : e = [item |-> item, qty |-> qty, need |-> need, lead |-> lead]
      OBVIOUS
    <2>2. e \in GrossEntry /\ e.item = item /\ e.qty = qty
      BY <2>1 DEF GrossEntry
    <2>3. a = Append(gross, e)
      BY <1>2, <1>3, <2>1 DEF Accumulate
    <2>4. DOMAIN a = 1 .. (n + 1) /\ a[n + 1] = e /\ \A i \in 1 .. n : a[i] = gross[i]
      BY <2>2, <2>3
    <2>5. \A i \in 1 .. n : gross[i].item # item
      BY <1>1, <1>3 DEF Position
    <2> HIDE DEF n
    <2>6. /\ n + 1 \in 1 .. (n + 1) /\ \A i \in 1 .. n : i \in 1 .. (n + 1)
          /\ \A i \in 1 .. (n + 1) : i # n + 1 => i \in 1 .. n
      BY <1>1
    <2>7. CASE item = x
      <3>1. q = 0
        BY <1>1, <2>5, <2>7 DEF GrossIs
      <3>2. \A j \in 1 .. (n + 1) : a[j].item = x => j = n + 1
        BY <2>4, <2>5, <2>6, <2>7
      <3>3. GrossIs(a, x, qty)
        BY <2>2, <2>4, <2>6, <2>7, <3>2 DEF GrossIs
      <3> QED
        BY <1>2, <2>7, <3>1, <3>3
    <2>8. CASE item # x
      <3>1. \A j \in 1 .. (n + 1) : a[j].item = x => j \in 1 .. n /\ gross[j].item = x
        BY <2>2, <2>4, <2>6, <2>8
      <3>2. GrossIs(a, x, q)
        <4>1. CASE q = 0
          BY <1>1, <2>4, <3>1, <4>1 DEF GrossIs
        <4>2. CASE q # 0
          <5>1. PICK i \in 1 .. n : /\ gross[i].item = x /\ gross[i].qty = q
                                    /\ \A j \in 1 .. n : gross[j].item = x => j = i
            BY <1>1, <4>2 DEF GrossIs
          <5>2. i \in 1 .. (n + 1) /\ a[i] = gross[i]
            BY <2>4, <2>6
          <5>3. \A j \in 1 .. (n + 1) : a[j].item = x => j = i
            BY <3>1, <5>1
          <5> QED
            BY <1>1, <2>4, <4>2, <5>1, <5>2, <5>3 DEF GrossIs
        <4> QED
          BY <4>1, <4>2
      <3> QED
        BY <1>2, <2>8, <3>2
    <2> QED
      BY <2>7, <2>8
  <1>4. CASE Position(gross, item) # {}
    <2> HIDE DEF n
    <2>1. a = [i \in DOMAIN gross |->
                       IF i \in Position(gross, item)
                       THEN [gross[i] EXCEPT !.qty = @ + qty, !.need = Smaller(@, need),
                                             !.lead = Larger(@, lead)]
                       ELSE gross[i]]
      BY <1>2, <1>4 DEF Accumulate
    <2>2. DOMAIN a = 1 .. n
      BY <1>1, <2>1
    <2>3. ASSUME NEW i \in 1 .. n
          PROVE  /\ a[i].item = gross[i].item
                 /\ a[i].qty = IF gross[i].item = item THEN gross[i].qty + qty ELSE gross[i].qty
      <3>1. PICK e \in GrossEntry : e = gross[i]
        BY <1>1
      <3>2. CASE i \in Position(gross, item)
        <4>1. a[i] = [e EXCEPT !.qty = @ + qty, !.need = Smaller(@, need), !.lead = Larger(@, lead)]
          BY <1>1, <2>1, <3>1, <3>2, Zenon
        <4>2. PICK q1, n1, l1 : q1 = e.qty + qty /\ n1 = Smaller(e.need, need) /\ l1 = Larger(e.lead, lead)
          OBVIOUS
        <4>3. a[i] = [e EXCEPT !.qty = q1, !.need = n1, !.lead = l1]
          BY <4>1, <4>2, Zenon
        <4>4. a[i].item = e.item /\ a[i].qty = q1
          BY <4>3 DEF GrossEntry
        <4>5. e.item = item
          BY <3>1, <3>2 DEF Position
        <4> QED
          BY <3>1, <4>2, <4>4, <4>5
      <3>3. CASE i \notin Position(gross, item)
        BY <1>1, <2>1, <3>3 DEF Position
      <3> QED
        BY <3>2, <3>3
    <2>4. PICK h \in 1 .. n : gross[h].item = item
      BY <1>1, <1>4 DEF Position
    <2>5. CASE q = 0
      <3>1. \A i \in 1 .. n : gross[i].item # x
        BY <1>1, <2>5 DEF GrossIs
      <3>2. item # x
        BY <2>4, <3>1
      <3>3. GrossIs(a, x, q)
        BY <1>1, <2>2, <2>3, <2>5, <3>1 DEF GrossIs
      <3> QED
        BY <1>2, <3>2, <3>3
    <2>6. CASE q # 0
      <3>1. PICK i \in 1 .. n : /\ gross[i].item = x /\ gross[i].qty = q
                                /\ \A j \in 1 .. n : gross[j].item = x => j = i
        BY <1>1, <2>6 DEF GrossIs
      <3>2. \A j \in 1 .. n : a[j].item = x => j = i
        BY <2>3, <3>1
      <3>3. a[i].item = x /\ a[i].qty = IF item = x THEN q + qty ELSE q
        BY <2>3, <3>1
      <3>4. q + qty \in Nat /\ q + qty # 0
        BY <1>1
      <3>5. PICK r \in Nat : r = (IF item = x THEN q + qty ELSE q) /\ r # 0
        BY <1>1, <2>6, <3>4
      <3>6. GrossIs(a, x, r)
        BY <2>2, <3>2, <3>3, <3>5 DEF GrossIs
      <3> QED
        BY <1>2, <3>5, <3>6
    <2> QED
      BY <2>5, <2>6
  <1> QED
    BY <1>3, <1>4

\* A leaf adds what it asks.
LEMMA AddLeafAdds ==
    ASSUME NEW demand \in EngineDemand, NEW gross \in Seq(GrossEntry), NEW leaf \in NearLeaf,
           NEW x, NEW q, GrossIs(gross, x, q)
    PROVE  GrossIs(AddLeaf(demand, gross, leaf), x, q + demand.qty * LeafAsks(leaf, x, 0))
  <1>1. leaf.item \in Items /\ leaf.lead \in Nat /\ demand.delivery \in Int
    BY DEF Leaf, NearLeaf, EngineDemand
  <1>2. PICK qty \in Nat \ {0} : qty = demand.qty * (leaf.per * Unit(leaf.lines))
    BY AddsPositive
  <1>3. AddLeaf(demand, gross, leaf)
           = Accumulate(gross, leaf.item, qty, demand.delivery, leaf.lead)
    BY <1>2 DEF AddLeaf
  <1>4. GrossIs(AddLeaf(demand, gross, leaf), x, IF leaf.item = x THEN q + qty ELSE q)
    BY <1>1, <1>3, AccumulateAdds
  <1>5. UnitOf(0 + leaf.lines) = Unit(leaf.lines)
    <2>1. 0 + leaf.lines = leaf.lines /\ leaf.lines \in 0 .. EngineDepth
      BY EngineAssumption DEF NearLeaf, Leaf
    <2> QED
      BY <2>1 DEF UnitOf
  <1>6. LeafAsks(leaf, x, 0) = IF leaf.item = x THEN leaf.per * Unit(leaf.lines) ELSE 0
    BY <1>5 DEF LeafAsks
  <1>7. PICK a \in Int, r \in Nat : a = demand.qty /\ r = q
    BY DEF EngineDemand, GrossIs
  <1>8. r + a * 0 = r
    OBVIOUS
  <1>9. q + demand.qty * LeafAsks(leaf, x, 0) = IF leaf.item = x THEN q + qty ELSE q
    BY <1>2, <1>6, <1>7, <1>8
  <1> QED
    BY <1>4, <1>9

\* An explosion adds what its demand asks.
LEMMA ExplodeAdds ==
    ASSUME NEW map, IsBills(map), NEW demand \in EngineDemand, NEW gross \in Seq(GrossEntry),
           NEW x, NEW q, GrossIs(gross, x, q)
    PROVE  GrossIs(Explode(gross, map, demand), x, q + DemandAsks(map, demand, x))
  <1>1. demand.item \in Items
    BY DEF EngineDemand
  <1>2. PICK leaves \in Seq(NearLeaf) : leaves = LeavesOf(map)[demand.item]
    BY <1>1, LeavesAreNear
  <1>3. PICK P : /\ IsExplosion(P, demand, gross, leaves)
                  /\ P[Len(leaves)] = Explode(gross, map, demand)
    BY <1>2, ExplodeGoes
  <1>4. /\ P \in [0 .. Len(leaves) -> Seq(GrossEntry)]
        /\ P[0] = gross /\ P[Len(leaves)] = Explode(gross, map, demand)
        /\ \A k \in 1 .. Len(leaves) : P[k] = AddLeaf(demand, P[k - 1], leaves[k])
    BY <1>3 DEF IsExplosion
  <1>5. PICK d \in Int, r \in Int : d = demand.qty /\ r = q
    BY DEF EngineDemand, GrossIs
  <1> DEFINE n == Len(leaves)
             f == EachAsks(leaves, x, 0)
             T == {k \in Nat : k <= n => GrossIs(P[k], x, r + d * SumOn(f, 1 .. k))}
  <1>6. n \in Nat /\ DOMAIN leaves = 1 .. n /\ \A k \in 1 .. n : leaves[k] \in NearLeaf
    OBVIOUS
  <1>7. f \in [1 .. n -> Int]
    <2>1. leaves \in Seq(Leaf)
      BY <1>1, <1>2, LeavesAreMaterials
    <2> QED
      BY <2>1, LeavesAskTyped
  <1>8. \A k \in 1 .. n : f[k] = LeafAsks(leaves[k], x, 0)
    BY <1>6 DEF EachAsks
  <1> HIDE DEF n, f
  <1>9. 0 \in T
    <2>1. SumOn(f, 1 .. 0) = 0
      BY <1>6, <1>7, SumUpTo
    <2>2. r + d * 0 = r
      OBVIOUS
    <2> QED
      BY <1>4, <1>5, <2>1, <2>2
  <1>10. ASSUME NEW k \in T PROVE k + 1 \in T
    <2>1. k \in Nat
      OBVIOUS
    <2> SUFFICES ASSUME k + 1 <= n PROVE GrossIs(P[k + 1], x, r + d * SumOn(f, 1 .. (k + 1)))
      BY <2>1
    <2>2. k + 1 \in 1 .. n /\ k \in 0 .. n /\ k <= n /\ (k + 1) - 1 = k
      BY <1>6, <2>1
    <2>3. GrossIs(P[k], x, r + d * SumOn(f, 1 .. k))
      BY <2>2
    <2> HIDE DEF T
    <2>4. PICK g \in Seq(GrossEntry) : g = P[k]
      BY <1>4, <2>2 DEF n
    <2>5. PICK leaf \in NearLeaf : leaf = leaves[k + 1]
      BY <1>6, <2>2
    <2>6. P[k + 1] = AddLeaf(demand, g, leaf)
      BY <1>4, <2>2, <2>4, <2>5 DEF n
    <2>7. SumOn(f, 1 .. k) \in Int /\ SumOn(f, 1 .. (k + 1)) = SumOn(f, 1 .. k) + f[k + 1]
      BY <1>6, <1>7, <2>1, SumOfNext
    <2>8. PICK s \in Int, t \in Int : s = SumOn(f, 1 .. k) /\ t = f[k + 1]
      BY <1>7, <2>2, <2>7
    <2>9. t = LeafAsks(leaf, x, 0)
      BY <1>8, <2>2, <2>5, <2>8
    <2>10. GrossIs(AddLeaf(demand, g, leaf), x, (r + d * s) + d * t)
      BY <1>5, <2>3, <2>4, <2>8, <2>9, AddLeafAdds
    <2>11. (r + d * s) + d * t = r + d * (s + t)
      OBVIOUS
    <2> QED
      BY <2>6, <2>7, <2>8, <2>10, <2>11
  <1>11. T = Nat
    BY <1>9, <1>10, SetInduction
  <1> HIDE DEF T
  <1>12. n \in T /\ n <= n
    BY <1>6, <1>11
  <1>13. GrossIs(P[n], x, r + d * SumOn(f, 1 .. n))
    BY <1>12 DEF T
  <1>14. SumOn(f, 1 .. n) = LeavesAsk(leaves, x, 0)
    BY <1>6, <1>7, SumUpTo DEF LeavesAsk, f
  <1> QED
    BY <1>2, <1>4, <1>5, <1>13, <1>14 DEF DemandAsks, n

-----------------------------------------------------------------------------
(* What is free, and what is requested.                                    *)

\* Rows of stock: their item and their location are the key.
IsStock(rows) ==
    /\ DOMAIN rows \subseteq Items \X Locations /\ IsFiniteSet(DOMAIN rows)
    /\ \A row \in DOMAIN rows : rows[row] \in EngineStock

\* The rows of an item, in whichever location.
RowsOf(rows, item) == {r \in DOMAIN rows : r[1] = item}

\* What is free in them.
Free(rows, item) == SumFunction([row \in RowsOf(rows, item) |-> Available(rows[row])])

\* What is free of an item in all its rows is what is free of their totals.
LEMMA FreeIsAvailable ==
    ASSUME NEW rows, IsStock(rows), NEW item
    PROVE  Free(rows, item) \in Int /\ Available(StockOf(rows, item)) = Free(rows, item)
  <1> DEFINE held == {l \in Locations : <<item, l>> \in DOMAIN rows}
             R == RowsOf(rows, item)
             name == [l \in held |-> <<item, l>>]
             figure(f) == [l \in held |-> rows[<<item, l>>][f]]
             both == [l \in held |-> figure("onHand")[l] + figure("onOrder")[l]]
             less == [l \in held |-> (-1) * figure("allocated")[l]]
             open == [l \in held |-> both[l] + less[l]]
             g == [row \in R |-> Available(rows[row])]
  <1>1. IsFiniteSet(R) /\ R \subseteq DOMAIN rows
    BY FS_Subset DEF IsStock, RowsOf
  <1>2. \A l \in held : <<item, l>> \in R /\ <<item, l>> \in DOMAIN rows
    BY DEF RowsOf
  <1>3. \A row \in R : row[2] \in held /\ row = <<item, row[2]>>
    <2> TAKE row \in R
    <2>1. row \in Items \X Locations /\ row[1] = item /\ row \in DOMAIN rows
      BY <1>1 DEF IsStock, RowsOf
    <2>2. row = <<row[1], row[2]>> /\ row[2] \in Locations
      BY <2>1
    <2> QED
      BY <2>1, <2>2
  <1>4. name \in [held -> R]
    BY <1>2
  <1>5. \A a, b \in held : name[a] = name[b] => a = b
    OBVIOUS
  <1>6. \A c \in R : \E a \in held : name[a] = c
    BY <1>3
  <1>7. IsFiniteSet(held)
    <2>1. name \in Injection(held, R)
      BY <1>4, <1>5 DEF Injection, IsInjective
    <2> HIDE DEF name, held, R
    <2> QED
      BY <1>1, <2>1, FS_Injection
  <1>8. \A row \in DOMAIN rows : rows[row] \in EngineStock
    BY DEF IsStock
  <1>9. \A l \in held : \A f \in Figures3 : rows[<<item, l>>][f] \in Int
    BY <1>2, <1>8 DEF EngineStock, Figures3
  <1>10. "onHand" \in Figures3 /\ "onOrder" \in Figures3 /\ "allocated" \in Figures3
    BY DEF Figures3
  <1>11. \A f \in Figures3 : figure(f) \in [held -> Int] /\ StockOf(rows, item)[f] = SumFunction(figure(f))
    BY <1>9 DEF StockOf
  <1>12. \A l \in held : open[l] = Available(rows[<<item, l>>]) /\ open[l] \in Int
    <2> TAKE l \in held
    <2>1. PICK a \in Int, b \in Int, c \in Int : /\ a = rows[<<item, l>>]["onHand"]
                                                 /\ b = rows[<<item, l>>]["onOrder"]
                                                 /\ c = rows[<<item, l>>]["allocated"]
      BY <1>9, <1>10
    <2>2. open[l] = (a + b) + (-1) * c
      BY <2>1
    <2>3. Available(rows[<<item, l>>]) = a + b - c
      BY <2>1 DEF Available
    <2> QED
      BY <2>2, <2>3
  <1>13. \A row \in R : g[row] = Available(rows[row])
    OBVIOUS
  <1>14. \A l \in held : open[l] = g[name[l]]
    BY <1>2, <1>12, <1>13
  <1>15. PICK hand, order, taken :
            /\ hand = figure("onHand") /\ order = figure("onOrder") /\ taken = figure("allocated")
            /\ hand \in [held -> Int] /\ order \in [held -> Int] /\ taken \in [held -> Int]
    BY <1>10, <1>11
  <1>16. Added(held, hand, order, both) /\ Scaled(held, taken, -1, less)
    <2>1. \A l \in held : hand[l] \in Int /\ order[l] \in Int /\ taken[l] \in Int
      BY <1>15
    <2>2. \A l \in held : both[l] = hand[l] + order[l] /\ both[l] \in Int
      BY <1>15, <2>1
    <2>3. \A l \in held : less[l] = (-1) * taken[l] /\ less[l] \in Int
      BY <1>15, <2>1
    <2>4. both \in [held -> Int] /\ less \in [held -> Int]
      BY <2>2, <2>3
    <2> HIDE DEF both, less, figure
    <2> QED
      BY <1>15, <2>2, <2>3, <2>4 DEF Added, Scaled
  <1>17. \A l \in held : open[l] = both[l] + less[l]
    OBVIOUS
  <1>18. open \in [held -> Int]
    BY <1>12
  <1>19. g \in [R -> Int]
    <2>1. ASSUME NEW row \in R PROVE g[row] \in Int
      <3>1. PICK l \in held : row = <<item, l>>
        BY <1>3
      <3> QED
        BY <1>12, <1>13, <3>1
    <2> QED
      BY <2>1
  <1> HIDE DEF name, both, less, open, g, held, R
  <1>20. Added(held, both, less, open)
    BY <1>16, <1>17, <1>18 DEF Added, Scaled
  <1>21. SumFunction(both) = SumFunction(hand) + SumFunction(order)
    BY <1>7, <1>16, SumAdds
  <1>22. SumFunction(less) = (-1) * SumFunction(taken)
    BY <1>7, <1>16, SumScales
  <1>23. SumFunction(open) = SumFunction(both) + SumFunction(less)
    BY <1>7, <1>20, SumAdds
  <1>24. SumFunction(open) = SumFunction(g)
    BY <1>1, <1>4, <1>5, <1>6, <1>7, <1>14, <1>18, <1>19, SumRenames
  <1>25. Available(StockOf(rows, item)) = SumFunction(hand) + SumFunction(order) - SumFunction(taken)
    BY <1>10, <1>11, <1>15 DEF Available
  <1>26. PICK a \in Int, b \in Int, c \in Int : /\ a = SumFunction(hand) /\ b = SumFunction(order)
                                                /\ c = SumFunction(taken)
    BY <1>7, <1>15, SumTyped
  <1>27. SumFunction(g) \in Int
    BY <1>1, <1>19, SumTyped
  <1>28. Free(rows, item) = SumFunction(g)
    BY DEF Free, g, R
  <1> HIDE DEF figure
  <1> QED
    BY <1>21, <1>22, <1>23, <1>24, <1>25, <1>26, <1>27, <1>28

\* A quotient is the greatest whole number that is not too large.
LEMMA Quotient ==
    ASSUME NEW a \in Int, NEW u \in Nat \ {0}
    PROVE  /\ a \div u \in Int
           /\ u * (a \div u) <= a
           /\ a < u * (a \div u) + u
  OBVIOUS

\* What is requested is what is missing, to half a hundredth.
LEMMA NetIsShort ==
    ASSUME NEW qty \in Int, NEW stock, NEW free \in Int, free = Available(stock)
    PROVE  /\ Net(qty, stock) \in Nat
           /\ 2 * (qty - (Unit(0) * free + Unit(1) * Net(qty, stock))) <= Unit(1)
           /\ Net(qty, stock) > 0 =>
                 2 * (qty - (Unit(0) * free + Unit(1) * Net(qty, stock))) >= -Unit(1)
  <1>1. PICK p \in Nat \ {0}, h \in Nat \ {0} : p = Unit(0) /\ h = Unit(1)
    <2>1. 0 \in 0 .. EngineDepth /\ 1 \in 0 .. EngineDepth
      BY EngineAssumption
    <2> QED
      BY <2>1, UnitIsPositive
  <1>2. PICK f \in Int : f = p * free
    OBVIOUS
  <1>3. PICK u \in Int : u = qty - f
    OBVIOUS
  <1>4. 2 * u + h \in Int /\ 2 * h \in Nat \ {0}
    OBVIOUS
  <1>5. PICK r \in Int : r = (2 * u + h) \div (2 * h)
    BY <1>4, Quotient
  <1>6. (2 * h) * r <= 2 * u + h /\ 2 * u + h < (2 * h) * r + 2 * h
    BY <1>4, <1>5, Quotient
  <1>7. PICK s \in Int : s = h * r /\ (2 * h) * r = 2 * s /\ (r > 0 \/ s <= 0)
    <2>1. (2 * h) * r = 2 * (h * r) /\ h * r \in Int
      OBVIOUS
    <2>2. r <= 0 => h * r <= 0
      OBVIOUS
    <2> QED
      BY <2>1, <2>2
  <1>8. Net(qty, stock) = IF r > 0 THEN r ELSE 0
    <2>1. Net(qty, stock) = Larger(0, Round2(u))
      BY <1>1, <1>2, <1>3 DEF Net
    <2>2. Round2(u) = r
      BY <1>1, <1>5 DEF Round2
    <2> QED
      BY <2>1, <2>2 DEF Larger
  <1>9. Unit(0) * free = f /\ Unit(1) * Net(qty, stock) = IF r > 0 THEN s ELSE 0
    <2>1. h * 0 = 0
      OBVIOUS
    <2> QED
      BY <1>1, <1>2, <1>7, <1>8, <2>1
  <1>10. Net(qty, stock) \in Nat
    BY <1>8
  <1>11. 2 * u - 2 * s < h /\ 2 * u - 2 * s >= -h
    BY <1>6, <1>7
  <1>12. CASE r > 0
    <2>1. 2 * (qty - (f + s)) = 2 * u - 2 * s
      BY <1>3
    <2> QED
      BY <1>1, <1>9, <1>10, <1>11, <1>12, <2>1
  <1>13. CASE ~ (r > 0)
    <2>1. 2 * (qty - (f + 0)) = 2 * u
      BY <1>3
    <2>2. s <= 0
      BY <1>7, <1>13
    <2>3. 2 * u <= h
      BY <1>11, <2>2
    <2>4. Net(qty, stock) = 0
      BY <1>8, <1>13
    <2> QED
      BY <1>1, <1>9, <1>10, <1>13, <2>1, <2>3, <2>4
  <1> QED
    BY <1>12, <1>13

-----------------------------------------------------------------------------
(* What a planning has found.                                              *)

\* The quantity of every item is what the demands exploded so far ask of it, and the
\* lines are those of what was found.
NeedInv ==
    /\ calc = [pc |-> calc.pc, map |-> calc.map, demands |-> calc.demands, rows |-> calc.rows,
               next |-> calc.next, gross |-> calc.gross, lines |-> calc.lines,
               requisitions |-> calc.requisitions]
    /\ IsBills(calc.map) /\ IsFiniteSet(DOMAIN calc.map)
    /\ calc.demands \in Seq(EngineDemand) /\ IsStock(calc.rows)
    /\ calc.next \in Nat \ {0} /\ calc.next <= Len(calc.demands) + 1
    /\ calc.gross \in Seq(GrossEntry)
    /\ \A x : GrossIs(calc.gross, x,
                      SumOn(EachDemand(calc.map, calc.demands, x), 1 .. (calc.next - 1)))
    /\ calc.pc = "done" => /\ calc.next = Len(calc.demands) + 1
                           /\ calc.lines = LinesOf(calc.rows, calc.gross)
                           /\ calc.requisitions = RequisitionsOf(calc.lines)

\* Before the first demand.
LEMMA NothingYet ==
    ASSUME NEW map, IsBills(map), NEW demands \in Seq(EngineDemand), NEW x
    PROVE  GrossIs(<<>>, x, SumOn(EachDemand(map, demands, x), 1 .. (1 - 1)))
  <1>1. EachDemand(map, demands, x) \in [1 .. Len(demands) -> Int] /\ Len(demands) \in Nat
    BY DemandsTyped
  <1>2. SumOn(EachDemand(map, demands, x), 1 .. 0) = 0 /\ 1 - 1 = 0
    BY <1>1, SumUpTo
  <1>3. DOMAIN <<>> = {}
    OBVIOUS
  <1> QED
    BY <1>2, <1>3 DEF GrossIs

\* Before a computation nothing is found.
LEMMA NeedStarts == EngineInit => NeedInv
  <1> SUFFICES ASSUME EngineInit PROVE NeedInv
    OBVIOUS
  <1>1. calc = [pc |-> "idle", map |-> <<>>, demands |-> <<>>, rows |-> <<>>, next |-> 1,
                gross |-> <<>>, lines |-> <<>>, requisitions |-> <<>>]
    BY DEF EngineInit, NoCalc
  <1>2. DOMAIN <<>> = {} /\ <<>> \in Seq(EngineDemand) /\ <<>> \in Seq(GrossEntry) /\ Len(<<>>) = 0
    OBVIOUS
  <1>3. IsFiniteSet({})
    BY FS_EmptySet
  <1>4. IsBills(<<>>) /\ IsStock(<<>>)
    BY <1>2, <1>3 DEF IsBills, IsStock
  <1>5. \A x : GrossIs(<<>>, x, SumOn(EachDemand(<<>>, <<>>, x), 1 .. (1 - 1)))
    BY <1>2, <1>4, NothingYet
  <1> QED
    BY <1>1, <1>2, <1>3, <1>4, <1>5 DEF NeedInv

\* Nor is it when the inputs are loaded.
LEMMA NeedLoads ==
    ASSUME Load PROVE NeedInv'
  <1>1. PICK map \in EngineBoms, demands \in EngineDemands, rows \in StockRows :
           calc' = [NoCalc EXCEPT !.pc = "explode", !.map = map, !.demands = demands, !.rows = rows]
    BY DEF Load
  <1>2. calc' = [pc |-> "explode", map |-> map, demands |-> demands, rows |-> rows, next |-> 1,
                 gross |-> <<>>, lines |-> <<>>, requisitions |-> <<>>]
    BY <1>1 DEF NoCalc
  <1>3. <<>> \in Seq(GrossEntry)
    OBVIOUS
  <1>4. IsBills(map) /\ IsFiniteSet(DOMAIN map) /\ demands \in Seq(EngineDemand) /\ IsStock(rows)
    BY EngineAssumption DEF IsBills, IsStock
  <1>5. \A x : GrossIs(<<>>, x, SumOn(EachDemand(map, demands, x), 1 .. (1 - 1)))
    BY <1>4, NothingYet
  <1>6. 1 <= Len(demands) + 1
    BY <1>4
  <1> QED
    BY <1>2, <1>3, <1>4, <1>5, <1>6 DEF NeedInv

\* Exploding a demand adds what that demand asks, of every item.
LEMMA NeedExplodes ==
    ASSUME NeedInv, ExplodeDemand PROVE NeedInv'
  <1>1. PICK map : map = calc.map /\ IsBills(map) /\ IsFiniteSet(DOMAIN map)
    BY DEF NeedInv
  <1>2. PICK demands \in Seq(EngineDemand) : demands = calc.demands
    BY DEF NeedInv
  <1>3. PICK n \in Nat \ {0} : n = calc.next
    BY DEF NeedInv
  <1>4. PICK gross \in Seq(GrossEntry) :
           /\ gross = calc.gross
           /\ \A x : GrossIs(gross, x, SumOn(EachDemand(map, demands, x), 1 .. (n - 1)))
    BY <1>1, <1>2, <1>3 DEF NeedInv
  <1>5. n \in 1 .. Len(demands) /\ DOMAIN demands = 1 .. Len(demands) /\ Len(demands) \in Nat
    BY <1>2, <1>3 DEF ExplodeDemand
  <1>6. PICK demand \in EngineDemand : demand = demands[n]
    BY <1>5
  <1>7. PICK more : more = Explode(gross, map, demand)
    OBVIOUS
  <1>8. calc' = [calc EXCEPT !.next = n + 1, !.gross = more]
    BY <1>1, <1>2, <1>3, <1>4, <1>6, <1>7, Zenon DEF ExplodeDemand
  <1>9. calc' = [pc |-> "explode", map |-> map, demands |-> demands, rows |-> calc.rows,
                 next |-> n + 1, gross |-> more, lines |-> calc.lines,
                 requisitions |-> calc.requisitions]
    BY <1>1, <1>2, <1>8 DEF NeedInv, ExplodeDemand
  <1>10. more \in Seq(GrossEntry)
    BY <1>1, <1>7, ExplodePlans
  <1>11. ASSUME NEW x
         PROVE  GrossIs(more, x, SumOn(EachDemand(map, demands, x), 1 .. ((n + 1) - 1)))
    <2>1. PICK f \in [1 .. Len(demands) -> Int] : f = EachDemand(map, demands, x)
      BY <1>1, DemandsTyped
    <2>2. f[n] = DemandAsks(map, demand, x)
      BY <1>5, <1>6, <2>1 DEF EachDemand
    <2>3. PICK k \in Nat : n = k + 1
      <3>1. n - 1 \in Nat /\ n = (n - 1) + 1
        OBVIOUS
      <3> QED
        BY <3>1
    <2>4. n - 1 = k /\ (n + 1) - 1 = k + 1 /\ k + 1 <= Len(demands)
      BY <1>5, <2>3
    <2>5. SumOn(f, 1 .. (k + 1)) = SumOn(f, 1 .. k) + f[k + 1]
      BY <1>5, <2>1, <2>4, SumOfNext
    <2>6. GrossIs(gross, x, SumOn(f, 1 .. k))
      BY <1>4, <2>1, <2>4
    <2>7. GrossIs(more, x, SumOn(f, 1 .. k) + DemandAsks(map, demand, x))
      BY <1>1, <1>7, <2>6, ExplodeAdds
    <2> QED
      BY <2>1, <2>2, <2>3, <2>4, <2>5, <2>7
  <1>12. n + 1 \in Nat \ {0} /\ n + 1 <= Len(demands) + 1
    BY <1>5
  <1>13. IsStock(calc.rows)
    BY DEF NeedInv
  <1> QED
    BY <1>1, <1>9, <1>10, <1>11, <1>12, <1>13 DEF NeedInv

\* Netting and sorting keep what was found.
LEMMA NeedSorts ==
    ASSUME NeedInv, NetAndSort PROVE NeedInv'
  <1>1. PICK gross \in Seq(GrossEntry) : gross = calc.gross
    BY DEF NeedInv
  <1>2. PICK rows, lines : rows = calc.rows /\ lines = LinesOf(rows, gross)
    OBVIOUS
  <1>3. PICK requisitions : requisitions = RequisitionsOf(lines)
    OBVIOUS
  <1>4. calc' = [calc EXCEPT !.pc = "done", !.lines = lines, !.requisitions = requisitions]
    BY <1>1, <1>2, <1>3, Zenon DEF NetAndSort
  <1>5. calc' = [pc |-> "done", map |-> calc.map, demands |-> calc.demands, rows |-> rows,
                 next |-> calc.next, gross |-> gross, lines |-> lines,
                 requisitions |-> requisitions]
    BY <1>1, <1>2, <1>4 DEF NeedInv
  <1>6. calc.next = Len(calc.demands) + 1
    <2>1. /\ calc.demands \in Seq(EngineDemand)
          /\ calc.next \in Nat \ {0} /\ calc.next <= Len(calc.demands) + 1
          /\ calc.next > Len(calc.demands)
      BY Zenon DEF NeedInv, NetAndSort
    <2>2. PICK n \in Nat, m \in Nat : n = Len(calc.demands) /\ m = calc.next
      BY <2>1
    <2>3. m <= n + 1 /\ m > n
      BY <2>1, <2>2
    <2> QED
      BY <2>2, <2>3
  <1> QED
    BY <1>1, <1>2, <1>3, <1>5, <1>6 DEF NeedInv

\* It holds throughout.
LEMMA NeedInvariant == EngineSpec => []NeedInv
<1>1. NeedInv /\ [EngineNext]_calc => NeedInv'
  <2>1. CASE Load
    BY <2>1, NeedLoads
  <2>2. ASSUME NeedInv, ExplodeDemand PROVE NeedInv'
    BY <2>2, NeedExplodes
  <2>3. ASSUME NeedInv, NetAndSort PROVE NeedInv'
    BY <2>3, NeedSorts
  <2>4. ASSUME NeedInv, UNCHANGED calc PROVE NeedInv'
    BY <2>4 DEF NeedInv
  <2> QED
    BY <2>1, <2>2, <2>3, <2>4 DEF EngineNext
<1> QED
  BY <1>1, NeedStarts, PTL DEF EngineSpec

\* A finished planning has one entry for each item that is needed, with what is needed.
LEMMA FoundAll ==
    ASSUME NeedInv, calc.pc = "done"
    PROVE  /\ \A x \in Items : GrossIs(calc.gross, x, GrossNeed(x))
           /\ OneEach(calc.gross)
  <1>1. ASSUME NEW x \in Items PROVE GrossIs(calc.gross, x, GrossNeed(x))
    <2>1. PICK n \in Nat : n = Len(calc.demands) /\ calc.next = n + 1 /\ (n + 1) - 1 = n
      BY DEF NeedInv
    <2>2. PICK f \in [1 .. n -> Int] : f = EachDemand(calc.map, calc.demands, x)
      BY <2>1, DemandsTyped DEF NeedInv
    <2>3. SumFunction(f) = SumOn(f, 1 .. n)
      BY <2>1, SumUpTo
    <2>4. GrossNeed(x) = SumFunction(f)
      BY <2>2, NeedOfDemands DEF NeedInv
    <2>5. GrossIs(calc.gross, x, SumOn(f, 1 .. n))
      BY <2>1, <2>2 DEF NeedInv
    <2> QED
      BY <2>3, <2>4, <2>5
  <1>2. ASSUME NEW i \in DOMAIN calc.gross, NEW j \in DOMAIN calc.gross,
               calc.gross[i].item = calc.gross[j].item
        PROVE  i = j
    <2>1. PICK x : x = calc.gross[i].item
      OBVIOUS
    <2>2. PICK q : GrossIs(calc.gross, x, q)
      BY DEF NeedInv
    <2> QED
      BY <1>2, <2>1, <2>2 DEF GrossIs
  <1> QED
    BY <1>1, <1>2 DEF OneEach

\* It is more than what a finished planning promises: the sums over the demands are the
\* reference definition, every item found is on one line, and the rounding is that of round2().
LEMMA PlansWhatIsNeeded == NeedInv => ComputedIsNeeded
  <1> SUFFICES ASSUME NeedInv, calc.pc = "done" PROVE ComputedIsNeeded
    BY DEF ComputedIsNeeded, GrossOfAllPaths, RequestedIsShort
  <1>1. PICK gross \in Seq(GrossEntry) : gross = calc.gross
    BY DEF NeedInv
  <1>2. PICK rows : rows = calc.rows /\ IsStock(rows)
    BY DEF NeedInv
  <1>3. PICK lines : /\ lines = calc.lines /\ lines = LinesOf(rows, gross)
                     /\ calc.requisitions = RequisitionsOf(lines)
    BY <1>1, <1>2 DEF NeedInv
  <1>4. (\A x \in Items : GrossIs(gross, x, GrossNeed(x))) /\ OneEach(gross)
    BY <1>1, FoundAll
  <1>5. /\ lines \in Seq(PlanLines(rows)) /\ OneEach(lines)
        /\ \A i \in DOMAIN lines : \E j \in DOMAIN gross : lines[i] = LineOf(rows, gross[j])
        /\ \A j \in DOMAIN gross : \E i \in DOMAIN lines : lines[i] = LineOf(rows, gross[j])
    BY <1>3, <1>4, LinesAreSorted DEF SortedLines
  <1>6. \A j \in DOMAIN gross : gross[j] \in GrossEntry
    OBVIOUS
  <1>7. \A j \in DOMAIN gross : /\ LineOf(rows, gross[j]).item = gross[j].item
                                /\ LineOf(rows, gross[j]).gross = Round2(gross[j].qty)
                                /\ LineOf(rows, gross[j]).net
                                     = Net(gross[j].qty, StockOf(rows, gross[j].item))
    BY DEF LineOf
  <1>8. ASSUME NEW item \in Items
        PROVE  LET planned == {i \in DOMAIN lines : lines[i].item = item}
               IN  IF GrossNeed(item) = 0 THEN planned = {}
                   ELSE \E i \in planned : planned = {i} /\ lines[i].gross = Round2(GrossNeed(item))
    <2>1. GrossIs(gross, item, GrossNeed(item))
      BY <1>4
    <2>2. CASE GrossNeed(item) = 0
      <3>1. \A j \in DOMAIN gross : gross[j].item # item
        BY <2>1, <2>2 DEF GrossIs
      <3>2. \A i \in DOMAIN lines : lines[i].item # item
        BY <1>5, <1>7, <3>1
      <3> QED
        BY <2>2, <3>2
    <2>3. CASE GrossNeed(item) # 0
      <3>1. PICK j \in DOMAIN gross : gross[j].item = item /\ gross[j].qty = GrossNeed(item)
        BY <2>1, <2>3 DEF GrossIs
      <3>2. PICK i \in DOMAIN lines : lines[i] = LineOf(rows, gross[j])
        BY <1>5, <3>1
      <3>3. lines[i].item = item /\ lines[i].gross = Round2(GrossNeed(item))
        BY <1>7, <3>1, <3>2
      <3>4. \A k \in DOMAIN lines : lines[k].item = item => k = i
        BY <1>5, <3>3 DEF OneEach
      <3>5. {k \in DOMAIN lines : lines[k].item = item} = {i}
        BY <3>3, <3>4
      <3> QED
        BY <2>3, <3>3, <3>5
    <2> QED
      BY <2>2, <2>3
  <1>9. GrossOfAllPaths
    BY <1>3, <1>8 DEF GrossOfAllPaths
  <1>10. ASSUME NEW l \in Range(lines)
         PROVE  LET short == GrossNeed(l.item) - (Unit(0) * Free(rows, l.item) + Unit(1) * l.net)
                IN  /\ 2 * short <= Unit(1)
                    /\ l.net > 0 => 2 * short >= -Unit(1)
                    /\ l \in Range(RequisitionsOf(lines)) <=> l.net > 0
    <2>1. PICK i \in DOMAIN lines : l = lines[i]
      BY DEF Range
    <2>2. PICK j \in DOMAIN gross : l = LineOf(rows, gross[j])
      BY <1>5, <2>1
    <2>3. PICK item \in Items, qty \in Int : item = gross[j].item /\ qty = gross[j].qty
      BY <1>6 DEF GrossEntry
    <2>4. l.item = item /\ l.net = Net(qty, StockOf(rows, item))
      BY <1>7, <2>2, <2>3
    <2>5. GrossNeed(item) = qty
      <3>1. GrossIs(gross, item, GrossNeed(item))
        BY <1>4
      <3> QED
        BY <2>3, <3>1 DEF GrossIs
    <2>6. PICK free \in Int : free = Free(rows, item) /\ free = Available(StockOf(rows, item))
      BY <1>2, FreeIsAvailable
    <2>7. l \in Range(RequisitionsOf(lines)) <=> l.net > 0
      BY <1>5, RequisitionsAreLines
    <2>8. /\ 2 * (qty - (Unit(0) * free + Unit(1) * l.net)) <= Unit(1)
          /\ l.net > 0 => 2 * (qty - (Unit(0) * free + Unit(1) * l.net)) >= -Unit(1)
      BY <2>4, <2>6, NetIsShort
    <2> QED
      BY <2>4, <2>5, <2>6, <2>7, <2>8
  <1>11. RequestedIsShort
    BY <1>2, <1>3, <1>10 DEF RequestedIsShort, Free, RowsOf
  <1> QED
    BY <1>9, <1>11 DEF ComputedIsNeeded

\* Whatever the bills, the demands, the stock and the depth: what a finished planning
\* finds to be needed of every material is what all the paths of the bills, added level
\* by level, ask of it, once; and what it requests is what the stock of all locations
\* leaves missing, to half a hundredth.
THEOREM PlanIsWhatIsNeeded == EngineSpec => []ComputedIsNeeded
  BY NeedInvariant, PlansWhatIsNeeded, PTL

=============================================================================

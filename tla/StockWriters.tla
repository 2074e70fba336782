---------------------------- MODULE StockWriters ----------------------------
(***************************************************************************)
(* The tables of Inventory with the other code that writes them: the       *)
(* mutations SyncService replays for offline clients (stock adjustments,   *)
(* each in its own transaction, and GRN patches) and the stock levels that *)
(* MrpRepository.upsertStock() stores.  None of them writes a ledger row.  *)
(***************************************************************************)
EXTENDS Inventory

CONSTANTS
    Mutations,      \* stock adjustments pushed by offline clients
    MrpLevels,      \* levels (onHand, allocated, onOrder) MRP may store
    MaxMrpWrites,   \* bound on the stores of MRP levels
    GrnPatches      \* statuses a pushed GRN patch may set

ASSUME WritersAssumption ==
    /\ Mutations \cap (Requests \cup {None}) = {}
    /\ MrpLevels \subseteq [onHand : Nat, allocated : Nat, onOrder : Nat]
    /\ MaxMrpWrites \in Nat
    /\ GrnPatches \subseteq GrnStatuses

VARIABLES
    sync,           \* what each pushed adjustment is doing
    history,        \* auxiliary: the writes to each key, in commit order
    mrpWrites       \* stores of MRP levels so far

writerVars == <<sync, history, mrpWrites>>
allVars == <<vars, writerVars>>

-----------------------------------------------------------------------------
AdjustmentTypes ==
    {"RECEIPT", "ISSUE", "ALLOCATE", "DEALLOCATE", "PO_PLACED", "PO_RECEIVED"}

SyncPCs == {"idle", "read", "create", "update", "commit", "applied", "error"}

SyncIdle == [pc |-> "idle", type |-> "RECEIPT", key |-> None, qty |-> 0]

SyncInTx(p) == sync[p].pc \in {"read", "create", "update", "commit"}

\* The increments of an adjustment: {onHand: {increment: qty}} and so on.
Adjusted(row, type, q) ==
    CASE type = "RECEIPT"     -> [row EXCEPT !.onHand = @ + q]
      [] type = "ISSUE"       -> [row EXCEPT !.onHand = @ - q]
      [] type = "ALLOCATE"    -> [row EXCEPT !.allocated = @ + q]
      [] type = "DEALLOCATE"  -> [row EXCEPT !.allocated = @ - q]
      [] type = "PO_PLACED"   -> [row EXCEPT !.onOrder = @ + q]
      [] type = "PO_RECEIVED" -> [row EXCEPT !.onOrder = @ - q, !.onHand = @ + q]

\* First-time entry: an ISSUE or a DEALLOCATE stores zeros, and available keeps
\* the default of its column.
InitialRow(type, q) ==
    [Absent EXCEPT
        !.present = TRUE,
        !.onHand = IF type \in {"RECEIPT", "PO_RECEIVED"} THEN q ELSE 0,
        !.allocated = IF type = "ALLOCATE" THEN q ELSE 0,
        !.onOrder = IF type = "PO_PLACED" THEN q ELSE 0]

WithLevels(row, lv) ==
    [row EXCEPT !.present = TRUE, !.onHand = lv.onHand,
                !.allocated = lv.allocated, !.onOrder = lv.onOrder]

Refused(row, type, q) ==
    \/ type = "ISSUE" /\ row.onHand < q
    \/ type = "DEALLOCATE" /\ row.allocated < q

-----------------------------------------------------------------------------
WInit ==
    /\ Init
    /\ sync = [p \in Mutations |-> SyncIdle]
    /\ history = [k \in Keys |-> <<>>]
    /\ mrpWrites = 0

SyncGoto(p, label) == sync' = [sync EXCEPT ![p].pc = label]

Log(k, write) == history' = [history EXCEPT ![k] = Append(@, write)]

\* The writes the transaction of r publishes when it commits: for a movement
\* the balance of its last ledger row of the key, for a rebuild the sum.
Published(r, k) ==
    LET rowsOf == {i \in DOMAIN req[r].rows : req[r].rows[i].leg.key = k}
    IN  IF req[r].legs = <<>> THEN req[r].onHand ELSE req[r].rows[Max(rowsOf)].balanceQty

\* A step of the inventory service; a commit is noted in the history.
InventoryStep ==
    /\ Next
    /\ history' = [k \in Keys |->
         IF \E r \in Requests : lock[k] = r /\ req[r].pc = "commit" /\ req'[r].pc # "failed"
                                 /\ req'[r].pc # "commit"
         THEN Append(history[k], [op |-> "set", onHand |-> Published(lock[k], k)])
         ELSE history[k]]
    /\ UNCHANGED <<sync, mrpWrites>>

-----------------------------------------------------------------------------
(* handleInventoryMutation(), inside the transaction of executeMutation(). *)

BeginAdjustment(p) ==
    /\ sync[p].pc = "idle"
    /\ \E type \in AdjustmentTypes, k \in Keys, q \in (0 - MaxQty)..MaxQty :
         sync' = [sync EXCEPT ![p] = [pc |-> "read", type |-> type, key |-> k, qty |-> q]]
    /\ UNCHANGED <<vars, history, mrpWrites>>

\* findUnique, then the checks against the row it returned.
ReadExisting(p) ==
    LET row == View(p, sync[p].key)
    IN  /\ sync[p].pc = "read"
        /\ SyncGoto(p, IF ~row.present THEN "create"
                       ELSE IF Refused(row, sync[p].type, sync[p].qty) THEN "error"
                       ELSE "update")
        /\ UNCHANGED <<vars, history, mrpWrites>>

\* update with increment/decrement: applied to the row as it is once locked.
ApplyIncrement(p) ==
    LET k == sync[p].key
    IN  /\ sync[p].pc = "update"
        /\ lock[k] = None
        /\ lock' = [lock EXCEPT ![k] = p]
        /\ dirty' = [dirty EXCEPT ![k] = Adjusted(balance[k], sync[p].type, sync[p].qty)]
        /\ SyncGoto(p, "commit")
        /\ UNCHANGED <<balance, ledger, booked, grnStatus, req, published, history, mrpWrites>>

\* create: the insert waits for a concurrent insert of the same key.
CreateRow(p) ==
    LET k == sync[p].key
    IN  /\ sync[p].pc = "create"
        /\ lock[k] = None
        /\ ~balance[k].present
        /\ lock' = [lock EXCEPT ![k] = p]
        /\ dirty' = [dirty EXCEPT ![k] = InitialRow(sync[p].type, sync[p].qty)]
        /\ SyncGoto(p, "commit")
        /\ UNCHANGED <<balance, ledger, booked, grnStatus, req, published, history, mrpWrites>>

\* The row appeared since the read: the unique key refuses the insert.
CreateConflict(p) ==
    /\ sync[p].pc = "create"
    /\ lock[sync[p].key] = None
    /\ balance[sync[p].key].present
    /\ SyncGoto(p, "error")
    /\ UNCHANGED <<vars, history, mrpWrites>>

\* The clientMutation row is written and the transaction commits.
CommitAdjustment(p) ==
    LET k == sync[p].key
    IN  /\ sync[p].pc = "commit"
        /\ balance' = [balance EXCEPT ![k] = dirty[k]]
        /\ lock' = [lock EXCEPT ![k] = None]
        /\ SyncGoto(p, "applied")
        /\ Log(k, [op |-> IF balance[k].present THEN "adjust" ELSE "initial",
                   type |-> sync[p].type, qty |-> sync[p].qty])
        /\ UNCHANGED <<dirty, ledger, booked, grnStatus, req, published, mrpWrites>>

RollbackAdjustment(p) ==
    /\ SyncInTx(p)
    /\ SyncGoto(p, "error")
    /\ DropWrites(p)
    /\ UNCHANGED <<balance, ledger, booked, grnStatus, req, published, history, mrpWrites>>

-----------------------------------------------------------------------------
\* handleGrnMutation(): PATCH /grns/:id/post, or PATCH /grns/:id with a body,
\* writes the status and nothing else.
PatchGrn(g) ==
    /\ \E status \in GrnPatches : grnStatus' = [grnStatus EXCEPT ![g] = status]
    /\ UNCHANGED <<balance, dirty, lock, ledger, booked, req, published, writerVars>>

\* MrpRepository.upsertStock(): one upsert of absolute levels, committed at once.
StoreMrpLevels(k) ==
    /\ mrpWrites < MaxMrpWrites
    /\ lock[k] = None
    /\ \E lv \in MrpLevels :
         /\ balance' = [balance EXCEPT ![k] = WithLevels(@, lv)]
         /\ dirty' = [dirty EXCEPT ![k] = WithLevels(balance[k], lv)]
         /\ Log(k, [op |-> "levels", levels |-> lv])
    /\ mrpWrites' = mrpWrites + 1
    /\ UNCHANGED <<lock, ledger, booked, grnStatus, req, published, sync>>

AdjustmentStep(p) ==
    \/ BeginAdjustment(p)
    \/ ReadExisting(p)
    \/ ApplyIncrement(p)
    \/ CreateRow(p)
    \/ CreateConflict(p)
    \/ CommitAdjustment(p)
    \/ RollbackAdjustment(p)

WNext ==
    \/ InventoryStep
    \/ \E p \in Mutations : AdjustmentStep(p)
    \/ \E g \in Grns : PatchGrn(g)
    \/ \E k \in Keys : StoreMrpLevels(k)

WSpec == WInit /\ [][WNext]_allVars

-----------------------------------------------------------------------------
(* Properties.                                                             *)

\* Replaying one committed write on the columns it sets.
ReplayWrite(row, w) ==
    CASE w.op = "set"     -> [row EXCEPT !.onHand = w.onHand]
      [] w.op = "levels"  -> WithLevels(row, w.levels)
      [] w.op = "initial" -> InitialRow(w.type, w.qty)
      [] w.op = "adjust"  -> Adjusted(row, w.type, w.qty)

Columns(row) == <<row.onHand, row.allocated, row.onOrder>>

\* No committed adjustment of one column is lost to a writer of another, nor an
\* increment to another increment: the columns of a row are what its committed
\* writes give when they are replayed one after the other in commit order.
RowsReplay ==
    \A k \in Keys :
        Columns(balance[k]) =
            Columns(FoldLeft(ReplayWrite, [Absent EXCEPT !.onHand = Opening[k]], history[k]))

=============================================================================

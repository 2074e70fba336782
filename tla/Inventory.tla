----------------------------- MODULE Inventory ------------------------------
(***************************************************************************)
(* InventoryService: every stock movement of the ERP, as concurrent HTTP   *)
(* requests over PostgreSQL.  Prisma's interactive transactions run at     *)
(* READ COMMITTED (the repository never asks for another level):           *)
(*   - a read takes no lock and sees the last committed row, or the        *)
(*     transaction's own uncommitted write;                                *)
(*   - a write locks its row until commit or rollback, others wait;        *)
(*   - commit publishes all writes at once, rollback publishes none.       *)
(* Each await of the service is a step, so requests interleave exactly     *)
(* where the Node process and the database let them.                       *)
(***************************************************************************)
EXTENDS StockTypes

CONSTANTS
    Requests,       \* HTTP requests; each is served at most once
    Kinds,          \* the operations the requests may ask for
    PoolSize,       \* connections, hence transactions open at one time
    Opening         \* [Keys -> Nat]: stock already booked in the ledger

ASSUME InventoryAssumption ==
    /\ None \notin Requests
    /\ IsFiniteSet(Requests)
    /\ PoolSize \in Nat \ {0}
    /\ Opening \in [Keys -> Nat]

VARIABLES
    balance,        \* stock_balances: the committed row of each key
    dirty,          \* the uncommitted version of a locked row
    lock,           \* the request whose transaction locks the row, or None
    ledger,         \* stock_ledger: the committed entries of each request
    booked,         \* SUM(qty) over the committed entries of each key
    grnStatus,      \* grns.status
    req,            \* what each request is doing
    published       \* requests whose inventory.grn-posted reached Kafka

vars == <<balance, dirty, lock, ledger, booked, grnStatus, req, published>>

-----------------------------------------------------------------------------
(* Rows and requests.                                                      *)

Row == [present : BOOLEAN, onHand : Int, reserved : Nat, available : Nat,
        allocated : Int, onOrder : Int]

Absent == [present |-> FALSE, onHand |-> 0, reserved |-> 0, available |-> 0,
           allocated |-> 0, onOrder |-> 0]

Entry == [leg : Leg, balanceQty : Int]

PCs == {"idle", "fetched", "read", "sum", "reserved", "write", "commit",
        "emit", "done", "rejected", "failed"}

GrnStatuses == {"DRAFT", "POSTED", "CANCELLED"}

\* legs: the movements of the request; rows: the ledger rows it inserted so
\* far and delta: their SUM(qty) by key; key, onHand, reserved: the values the
\* pending upsert will write.
Request == [pc : PCs, legs : Seq(Leg), grn : Grns \cup {None}, rows : Seq(Entry),
            delta : [Keys -> Int], key : Keys \cup {None}, onHand : Int,
            reserved : Nat]

Idle == [pc |-> "idle", legs |-> <<>>, grn |-> None, rows |-> <<>>,
         delta |-> [k \in Keys |-> 0], key |-> None, onHand |-> 0, reserved |-> 0]

\* Mutant: Math.max(0, ...) forgotten.
BugNoClamp(n) == n

AtLeastZero(n) == IF n > 0 THEN n ELSE 0

InTx(r) == req[r].pc \in {"read", "sum", "reserved", "write", "commit"}

PoolFree == Cardinality({r \in Requests : InTx(r)}) < PoolSize

\* Mutant: postMovement reads through this.prisma instead of the given tx.
BugReadOutsideTx(r, k) == balance[k]

\* A row as the transaction of r sees it.
View(r, k) == IF lock[k] = r THEN dirty[k] ELSE balance[k]

\* Mutant: the upsert replaces the row instead of two of its columns.
BugReplaceRow(row, onHand, reserved) ==
    [Absent EXCEPT !.present = TRUE, !.onHand = onHand, !.available = AtLeastZero(onHand)]

\* INSERT ... ON CONFLICT DO UPDATE: the update arm keeps reserved.  Both arms store
\* what is on hand as available when nothing is reserved; that the create arms do
\* so without a clamp shows in no state: postMovement() refuses a negative value
\* first, and a key without a row has no ledger rows for rebuildBalance() to sum.
Upserted(row, onHand, reserved) ==
    IF row.present
    THEN [row EXCEPT !.onHand = onHand, !.available = AtLeastZero(onHand - reserved)]
    ELSE [Absent EXCEPT !.present = TRUE, !.onHand = onHand, !.available = AtLeastZero(onHand)]

-----------------------------------------------------------------------------
Init ==
    /\ balance = [k \in Keys |->
                    IF Opening[k] = 0 THEN Absent ELSE Upserted(Absent, Opening[k], 0)]
    /\ dirty = balance
    /\ lock = [k \in Keys |-> None]
    /\ ledger = [r \in Requests |-> <<>>]
    /\ booked = Opening
    /\ grnStatus = [g \in Grns |-> "DRAFT"]
    /\ req = [r \in Requests |-> Idle]
    /\ published = {}

Goto(r, label) == req' = [req EXCEPT ![r].pc = label]

\* The database discards what the transaction of r wrote and frees its locks.
DropWrites(r) ==
    /\ dirty' = [k \in Keys |-> IF lock[k] = r THEN balance[k] ELSE dirty[k]]
    /\ lock' = [k \in Keys |-> IF lock[k] = r THEN None ELSE lock[k]]

-----------------------------------------------------------------------------
(* Requests arrive.                                                        *)

\* The movements a request of one kind may carry.
RequestLegs(kind) ==
    CASE kind = "adjust"   -> AdjustLegs
      [] kind = "issue"    -> SingleLegs("ISSUE_TO_PROD")
      [] kind = "return"   -> SingleLegs("RETURN_FROM_PROD")
      [] kind = "opening"  -> SingleLegs("OPENING_STOCK")
      [] kind = "transfer" -> TransferLegs
      [] OTHER             -> {}

\* adjustStock, issueToProduction, returnFromProduction, setOpeningStock and
\* transferStock open a transaction as soon as they are called.
BeginMovement(r) ==
    /\ req[r].pc = "idle"
    /\ PoolFree
    /\ \E kind \in Kinds : \E legs \in RequestLegs(kind) :
         req' = [req EXCEPT ![r] = [Idle EXCEPT !.pc = "read", !.legs = legs]]
    /\ UNCHANGED <<balance, dirty, lock, ledger, booked, grnStatus, published>>

\* Mutant: the check for a note without postable lines forgotten.
BugFetchAnyGrn(r, g) ==
    /\ "postGrn" \in Kinds
    /\ req[r].pc = "idle"
    /\ IF grnStatus[g] = "POSTED"
       THEN req' = [req EXCEPT ![r] = [Idle EXCEPT !.pc = "rejected", !.grn = g]]
       ELSE \E legs \in GrnLegs(g) :
              req' = [req EXCEPT ![r] = [Idle EXCEPT !.pc = IF legs = <<>> THEN "commit" ELSE "fetched",
                                                     !.grn = g, !.legs = legs]]
    /\ UNCHANGED <<balance, dirty, lock, ledger, booked, grnStatus, published>>

\* postGrn() fetches the note and its lines BEFORE its transaction; a POSTED
\* note and a note without a postable line are refused here, and only here.
FetchGrn(r, g) ==
    /\ "postGrn" \in Kinds
    /\ req[r].pc = "idle"
    /\ IF grnStatus[g] = "POSTED" \/ PostableLines(g) = {}
       THEN req' = [req EXCEPT ![r] = [Idle EXCEPT !.pc = "rejected", !.grn = g]]
       ELSE \E legs \in GrnLegs(g) :
              req' = [req EXCEPT ![r] = [Idle EXCEPT !.pc = "fetched",
                                                     !.grn = g, !.legs = legs]]
    /\ UNCHANGED <<balance, dirty, lock, ledger, booked, grnStatus, published>>

BeginPostGrn(r) ==
    /\ req[r].pc = "fetched"
    /\ PoolFree
    /\ Goto(r, "read")
    /\ UNCHANGED <<balance, dirty, lock, ledger, booked, grnStatus, published>>

BeginRebuild(r, k) ==
    /\ "rebuild" \in Kinds
    /\ req[r].pc = "idle"
    /\ PoolFree
    /\ req' = [req EXCEPT ![r] = [Idle EXCEPT !.pc = "sum", !.key = k]]
    /\ UNCHANGED <<balance, dirty, lock, ledger, booked, grnStatus, published>>

-----------------------------------------------------------------------------
(* postMovement() on the next leg: read the balance, check it, insert the  *)
(* ledger row, then upsert the balance with the value computed from the    *)
(* read.  The insert is invisible before commit and conflicts with nothing *)
(* so it is one step with the read; the upsert may wait for the row lock.  *)

NextLeg(r) == req[r].legs[Len(req[r].rows) + 1]

NewOnHand(r) == View(r, NextLeg(r).key).onHand + NextLeg(r).qty

\* The request once its next row is inserted and its next upsert is prepared.
WithRow(r) ==
    LET leg == NextLeg(r)
    IN  [pc |-> "write", legs |-> req[r].legs, grn |-> req[r].grn,
         rows |-> Append(req[r].rows, [leg |-> leg, balanceQty |-> NewOnHand(r)]),
         delta |-> [req[r].delta EXCEPT ![leg.key] = @ + leg.qty],
         key |-> leg.key, onHand |-> NewOnHand(r),
         reserved |-> View(r, leg.key).reserved]

\* Mutant: the negativity check forgotten.
BugReadUnchecked(r) ==
    /\ req[r].pc = "read"
    /\ req' = [req EXCEPT ![r] = WithRow(r)]
    /\ UNCHANGED <<balance, dirty, lock, ledger, booked, grnStatus, published>>

ReadBalance(r) ==
    /\ req[r].pc = "read"
    /\ NewOnHand(r) >= 0
    /\ req' = [req EXCEPT ![r] = WithRow(r)]
    /\ UNCHANGED <<balance, dirty, lock, ledger, booked, grnStatus, published>>

\* 'Insufficient stock': the exception rolls the whole transaction back.
RefuseInsufficient(r) ==
    /\ req[r].pc = "read"
    /\ NewOnHand(r) < 0
    /\ Goto(r, "rejected")
    /\ DropWrites(r)
    /\ UNCHANGED <<balance, ledger, booked, grnStatus, published>>

\* rebuildBalance() aggregates the ledger ...
SumLedger(r) ==
    /\ req[r].pc = "sum"
    /\ req' = [req EXCEPT ![r].pc = "reserved", ![r].onHand = booked[req[r].key]]
    /\ UNCHANGED <<balance, dirty, lock, ledger, booked, grnStatus, published>>

\* ... and reads the balance row, of which it keeps reserved.
ReadReserved(r) ==
    /\ req[r].pc = "reserved"
    /\ req' = [req EXCEPT ![r].pc = "write",
                          ![r].reserved = View(r, req[r].key).reserved]
    /\ UNCHANGED <<balance, dirty, lock, ledger, booked, grnStatus, published>>

\* Mutant: each leg in a transaction of its own, as postGrn once did.
BugCommitFirstLeg(r) ==
    LET k == req[r].key
    IN  /\ req[r].pc = "write"
        /\ lock[k] \in {r, None}
        /\ lock' = [lock EXCEPT ![k] = r]
        /\ dirty' = [dirty EXCEPT ![k] =
                        Upserted(View(r, k), req[r].onHand, req[r].reserved)]
        /\ Goto(r, "commit")
        /\ UNCHANGED <<balance, ledger, booked, grnStatus, published>>

\* Mutant: the upsert runs outside the transaction and is visible at once.
BugUpsertOutsideTx(r) ==
    LET k == req[r].key
    IN  /\ req[r].pc = "write"
        /\ lock[k] \in {r, None}
        /\ balance' = [balance EXCEPT ![k] =
                          Upserted(balance[k], req[r].onHand, req[r].reserved)]
        /\ Goto(r, IF Len(req[r].rows) < Len(req[r].legs) THEN "read" ELSE "commit")
        /\ UNCHANGED <<dirty, lock, ledger, booked, grnStatus, published>>

UpsertBalance(r) ==
    LET k == req[r].key
    IN  /\ req[r].pc = "write"
        /\ lock[k] \in {r, None}
        /\ lock' = [lock EXCEPT ![k] = r]
        /\ dirty' = [dirty EXCEPT ![k] =
                        Upserted(View(r, k), req[r].onHand, req[r].reserved)]
        /\ Goto(r, IF Len(req[r].rows) < Len(req[r].legs) THEN "read" ELSE "commit")
        /\ UNCHANGED <<balance, ledger, booked, grnStatus, published>>

-----------------------------------------------------------------------------
(* The end of a transaction.                                               *)

\* COMMIT.  For postGrn the last statement, grn.update to POSTED without a
\* look at the status, is part of this step: the notes' row is contended only
\* by posters of the same note, whom the row locks on its keys already order.
Commit(r) ==
    /\ req[r].pc = "commit"
    /\ balance' = [k \in Keys |-> IF lock[k] = r THEN dirty[k] ELSE balance[k]]
    /\ lock' = [k \in Keys |-> IF lock[k] = r THEN None ELSE lock[k]]
    /\ ledger' = [ledger EXCEPT ![r] = req[r].rows]
    /\ booked' = [k \in Keys |-> booked[k] + req[r].delta[k]]
    /\ grnStatus' = [g \in Grns |-> IF g = req[r].grn THEN "POSTED" ELSE grnStatus[g]]
    /\ Goto(r, IF req[r].grn = None THEN "done" ELSE "emit")
    /\ UNCHANGED <<dirty, published>>

\* The transaction times out, loses its connection or dies with the process.
Rollback(r) ==
    /\ InTx(r)
    /\ Goto(r, "failed")
    /\ DropWrites(r)
    /\ UNCHANGED <<balance, ledger, booked, grnStatus, published>>

\* r waits for a row lock that s holds.
WaitsFor(r, s) == req[r].pc = "write" /\ r # s /\ lock[req[r].key] = s

\* A set of transactions each of which waits for another and is waited for.
Deadlocked(S) ==
    \A r \in S : (\E s \in S : WaitsFor(r, s)) /\ (\E s \in S : WaitsFor(s, r))

\* Mutant: nobody breaks a cycle of waits.
BugNoVictim(r) == FALSE

\* PostgreSQL breaks a cycle of waits by aborting one of its transactions.
AbortDeadlock(r) ==
    /\ \E S \in SUBSET Requests : r \in S /\ Deadlocked(S)
    /\ Goto(r, "failed")
    /\ DropWrites(r)
    /\ UNCHANGED <<balance, ledger, booked, grnStatus, published>>

\* After the commit of a note: the audit row and the Kafka event, which
\* KafkaService.emit() drops without an error when the broker is away.
EmitGrnPosted(r) ==
    /\ req[r].pc = "emit"
    /\ published' = published \cup {r}
    /\ Goto(r, "done")
    /\ UNCHANGED <<balance, dirty, lock, ledger, booked, grnStatus>>

DropGrnPosted(r) ==
    /\ req[r].pc = "emit"
    /\ Goto(r, "done")
    /\ UNCHANGED <<balance, dirty, lock, ledger, booked, grnStatus, published>>

-----------------------------------------------------------------------------
\* The steps a request in progress takes by itself.
Work(r) ==
    \/ BeginPostGrn(r)
    \/ ReadBalance(r)
    \/ RefuseInsufficient(r)
    \/ SumLedger(r)
    \/ ReadReserved(r)
    \/ UpsertBalance(r)
    \/ Commit(r)
    \/ AbortDeadlock(r)
    \/ EmitGrnPosted(r)
    \/ DropGrnPosted(r)

Arrive(r) ==
    \/ BeginMovement(r)
    \/ \E g \in Grns : FetchGrn(r, g)
    \/ \E k \in Keys : BeginRebuild(r, k)

\* All requests of the instance are answered: nothing is left to do.
Finished ==
    /\ \A r \in Requests : req[r].pc \in {"done", "rejected", "failed"}
    /\ UNCHANGED vars

Next == (\E r \in Requests : Arrive(r) \/ Work(r) \/ Rollback(r)) \/ Finished

Spec == Init /\ [][Next]_vars

\* A request in progress is never abandoned by the scheduler of the process
\* or by the database; no arrival and no failure is ever forced.
FairSpec == Spec /\ \A r \in Requests : WF_vars(Work(r))

-----------------------------------------------------------------------------
(* Properties.                                                             *)

\* Rows, locks, entries and requests have the shapes the schema and the service
\* give them; available, a clamped difference, is never negative.
TypeOK ==
    /\ balance \in [Keys -> Row]
    /\ dirty \in [Keys -> Row]
    /\ lock \in [Keys -> Requests \cup {None}]
    /\ ledger \in [Requests -> Seq(Entry)]
    /\ booked \in [Keys -> Int]
    /\ grnStatus \in [Grns -> GrnStatuses]
    /\ req \in [Requests -> Request]
    /\ published \subseteq Requests

\* The legs of an operation reach the ledger all together, in order, or not
\* at all, whatever fails in between (transferStock: "either both commit or
\* both roll back"; postGrn: "entire operation runs in ONE transaction").
AllOrNothing ==
    \A r \in Requests : ledger[r] # <<>> =>
        /\ Len(ledger[r]) = Len(req[r].legs)
        /\ \A i \in DOMAIN ledger[r] : ledger[r][i].leg = req[r].legs[i]

\* Every committed TRANSFER_OUT has its TRANSFER_IN for the same item and the
\* opposite quantity at another location: a transfer creates no stock.
TransfersBalance ==
    \A r \in Requests : \A i \in DOMAIN ledger[r] :
        ledger[r][i].leg.type = "TRANSFER_OUT" =>
            \E j \in DOMAIN ledger[r] :
                /\ ledger[r][j].leg.type = "TRANSFER_IN"
                /\ ledger[r][j].leg.key[1] = ledger[r][i].leg.key[1]
                /\ ledger[r][j].leg.key[2] # ledger[r][i].leg.key[2]
                /\ ledger[r][j].leg.qty = -ledger[r][i].leg.qty

\* A note is POSTED exactly when a request has booked all its postable lines,
\* and a published event tells of a note that is POSTED.
GrnPostedIffBooked ==
    /\ \A g \in Grns : grnStatus[g] = "POSTED" <=>
         \E r \in Requests : req[r].grn = g /\ ledger[r] # <<>>
    /\ \A r \in Requests : \A i \in DOMAIN ledger[r] :
         LET g == ledger[r][i].leg.ref
         IN  g # None => {e.leg : e \in ToSet(ledger[r])} =
                            {GrnLeg(g, line) : line \in PostableLines(g)}
    /\ \A r \in published : grnStatus[req[r].grn] = "POSTED" /\ ledger[r] # <<>>

Rebuilt(k) == \E r \in Requests : req[r].pc = "done" /\ req[r].legs = <<>> /\ req[r].key = k

\* The balance shown is never negative, unless a rebuild found more booked out
\* than in, and what can still be promised is what is on hand less what is
\* reserved.
BalanceSane ==
    \A k \in Keys :
        /\ balance[k].onHand >= 0 \/ Rebuilt(k)
        /\ balance[k].available = AtLeastZero(balance[k].onHand - balance[k].reserved)

\* The cache of a key equals the sum of its ledger.
CacheMatchesLedger == \A k \in Keys : balance[k].onHand = booked[k]

\* The stock booked out never exceeds the stock booked in ("Prevent negative
\* on-hand for OUT movements").
NoOverIssue == \A k \in Keys : booked[k] >= 0

\* A note is booked by one request at most ("has already been posted").
GrnBookedOnce ==
    \A r, s \in Requests :
        (req[r].grn # None /\ req[r].grn = req[s].grn /\ ledger[r] # <<>> /\ ledger[s] # <<>>)
            => r = s

-----------------------------------------------------------------------------
(* Why these hold: what each step knows of its request (an inductive        *)
(* invariant together with TypeOK; its parts are used by the proofs).      *)

\* A request inserts the ledger rows of its legs in order, has them all when it
\* commits, and the ledger shows them from the commit on.
RowsFollowLegs(r) ==
    /\ Len(req[r].rows) <= Len(req[r].legs)
    /\ \A i \in DOMAIN req[r].rows : req[r].rows[i].leg = req[r].legs[i]
    /\ req[r].pc = "read" => Len(req[r].rows) < Len(req[r].legs)
    /\ req[r].pc \in {"commit", "emit", "done"} => Len(req[r].rows) = Len(req[r].legs)
    /\ ledger[r] = IF req[r].pc \in {"emit", "done"} THEN req[r].rows ELSE <<>>

\* A request carries the legs of the operation it asked for.
LegsAsAsked(r) ==
    /\ req[r].pc = "idle" => req[r] = Idle
    /\ req[r].pc = "fetched" => req[r].rows = <<>> /\ req[r].grn # None
    /\ req[r].pc \in {"sum", "reserved"} => req[r].legs = <<>>
    /\ req[r].pc \in {"sum", "reserved", "write"} => req[r].key \in Keys
    /\ (req[r].grn # None /\ req[r].pc # "rejected") =>
            req[r].legs \in GrnLegs(req[r].grn) /\ Len(req[r].legs) > 0
    /\ (req[r].grn = None /\ req[r].legs # <<>>) =>
            \E kind \in Kinds : req[r].legs \in RequestLegs(kind)

RequestsSound == \A r \in Requests : RowsFollowLegs(r) /\ LegsAsAsked(r)

LocksAreHeld == \A k \in Keys : lock[k] # None => InTx(lock[k])

-----------------------------------------------------------------------------
\* Outside rebuildBalance the on-hand quantity of a key moves only in the step
\* that commits a ledger row of that key ("ALL stock writes go through this
\* single private method").
StockMovesWithLedger ==
    [][\A k \in Keys : balance'[k].onHand # balance[k].onHand =>
         \E r \in Requests :
            /\ req[r].pc = "commit" /\ req'[r].pc # "commit"
            /\ \/ \E i \in DOMAIN ledger'[r] :
                    ledger'[r][i].leg.key = k /\ ledger[r] = <<>>
               \/ req[r].legs = <<>> /\ req[r].key = k]_vars

\* What the module promises to its callers: each operation is one indivisible
\* movement of a stock that is never negative.  The balance cache implements it
\* when transactions never overlap (PoolSize = 1), rebuilds being invisible.
Stock == INSTANCE AtomicStock WITH
            stock <- [k \in Keys |-> balance[k].onHand],
            applied <- {r \in Requests : ledger[r] # <<>>}

ImplementsAtomicStock == Stock!Spec

\* Every request that arrived is answered, even when transactions wait for each
\* other's rows.
EveryRequestAnswered ==
    \A r \in Requests :
        req[r].pc # "idle" ~> req[r].pc \in {"done", "rejected", "failed"}

=============================================================================

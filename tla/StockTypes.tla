----------------------------- MODULE StockTypes -----------------------------
(***************************************************************************)
(* The data of the inventory domain: stock keys, goods-received notes and  *)
(* the movements every stock operation of InventoryService is made of.     *)
(* A movement ("leg") is one call of the private method postMovement(); an *)
(* operation is the sequence of legs it runs inside one transaction.       *)
(* Ledger quantities are DECIMAL(14,4), balances and note lines doubles;   *)
(* integers stand for both, so that no sum is rounded.                     *)
(***************************************************************************)
EXTENDS Integers, FiniteSetsExt, SequencesExt

CONSTANTS
    Items,          \* item ids
    Locations,      \* location codes, after trim()
    Grns,           \* goods-received notes
    GrnLocation,    \* [Grns -> Locations]: where a note is received
    GrnLines,       \* [Grns -> set of lines]: no code edits them
    MaxQty,         \* bound on the quantity of one request
    NoQty,          \* acceptedQty of a line nobody inspected (SQL NULL)
    None            \* absent reference (SQL NULL)

Keys == Items \X Locations

\* What the posting reads of a GRN line: the ordered and the accepted quantity.
GrnLine == [id : Nat, item : Items, qty : Nat, acceptedQty : Nat \cup {NoQty}]

ASSUME StockAssumption ==
    /\ MaxQty \in Nat \ {0}
    /\ NoQty \notin Nat
    /\ None \notin Grns
    /\ GrnLocation \in [Grns -> Locations]
    /\ GrnLines \in [Grns -> SUBSET GrnLine]
    /\ \A g \in Grns : IsFiniteSet(GrnLines[g])

-----------------------------------------------------------------------------
EntryTypes == {"GRN_IN", "ISSUE_TO_PROD", "RETURN_FROM_PROD", "ADJUSTMENT",
               "TRANSFER_IN", "TRANSFER_OUT", "OPENING_STOCK"}

Leg == [type : EntryTypes, key : Keys, qty : Int, ref : Grns \cup {None}]

\* Mutant: the minus sign of the OUT leg of a transfer forgotten.
BugUnsignedTransfer(type, q) == IF type = "ISSUE_TO_PROD" THEN -q ELSE q

\* The sign each operation gives the quantity of its DTO.
SignedQty(type, q) ==
    CASE type \in {"ISSUE_TO_PROD", "TRANSFER_OUT"} -> -q
      [] OTHER -> q

MkLeg(type, key, q) ==
    [type |-> type, key |-> key, qty |-> SignedQty(type, q), ref |-> None]

\* The requests the DTOs let through: an adjustment is signed and not zero
\* (IsNotIn([0])), every other quantity is positive (IsPositive).
AdjustLegs ==
    {<<MkLeg("ADJUSTMENT", k, q)>> : k \in Keys, q \in (-MaxQty..MaxQty) \ {0}}

SingleLegs(type) == {<<MkLeg(type, k, q)>> : k \in Keys, q \in 1..MaxQty}

\* transferStock(): the OUT leg first, then the IN leg; equal locations are
\* refused before any transaction starts.
TransferLegs ==
    {<<MkLeg("TRANSFER_OUT", <<t[1], t[2]>>, t[4]),
       MkLeg("TRANSFER_IN",  <<t[1], t[3]>>, t[4])>> :
        t \in {u \in Items \X Locations \X Locations \X (1..MaxQty) : u[2] # u[3]}}

-----------------------------------------------------------------------------
(* postGrn(): the accepted quantity wins over the ordered one, and lines   *)
(* whose quantity is zero are filtered out before the transaction starts.  *)
(* The lines are fetched without an ORDER BY, so they come in any order.   *)

ReceivedQty(line) == IF line.acceptedQty # NoQty THEN line.acceptedQty ELSE line.qty

PostableLines(g) == {line \in GrnLines[g] : ReceivedQty(line) > 0}

GrnLeg(g, line) ==
    [type |-> "GRN_IN", key |-> <<line.item, GrnLocation[g]>>,
     qty |-> ReceivedQty(line), ref |-> g]

GrnLegs(g) ==
    {[i \in DOMAIN order |-> GrnLeg(g, order[i])] :
        order \in SetToSeqs(PostableLines(g))}

-----------------------------------------------------------------------------
\* The movements of every operation that books stock.
OperationLegs ==
    AdjustLegs \cup TransferLegs
      \cup (UNION {GrnLegs(g) : g \in Grns})
      \cup (UNION {SingleLegs(t) : t \in {"ISSUE_TO_PROD", "RETURN_FROM_PROD", "OPENING_STOCK"}})

\* What a sequence of legs adds to the stock of a key.
LegsQty(legs, k) ==
    FoldLeft(LAMBDA sum, leg : sum + (IF leg.key = k THEN leg.qty ELSE 0), 0, legs)

=============================================================================

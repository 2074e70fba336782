-------------------------------- MODULE Boms --------------------------------
(***************************************************************************)
(* Bills of materials, which two services write: InventoryService adds a   *)
(* version and deactivates the earlier ones in three statements, and       *)
(* MrpService adds a version as given, or replaces the lines of one.  No   *)
(* operation opens a transaction, so each statement commits at once and    *)
(* other requests, or the end of the process, may come between two.        *)
(* A line is abstracted to its component; two equal lines are one.         *)
(***************************************************************************)
EXTENDS Integers, FiniteSets

CONSTANTS
    BomItems,       \* items that have bills of materials
    Components,     \* items a line may name
    Styles,         \* style codes
    MaxVersion,     \* bound on the versions of an item
    BomRequests,    \* HTTP requests; each is served at most once
    BomKinds,       \* the operations they may ask for
    LineChoices,    \* sets of components a request may send as lines
    OpeningBoms,    \* [BomItems -> [1..MaxVersion -> row]]: what is there already
    None            \* absent value (SQL NULL, or a field the DTO leaves out)

Versions == 1..MaxVersion

BomRow == [present : BOOLEAN, style : Styles \cup {None}, active : BOOLEAN,
           lines : SUBSET Components]

ASSUME BomsAssumption ==
    /\ MaxVersion \in Nat \ {0}
    /\ None \notin BomItems \cup Styles \cup BOOLEAN
    /\ None \notin LineChoices
    /\ LineChoices \subseteq SUBSET Components

\* No item starts with its latest version switched off.
ASSUME OpeningAssumption ==
    /\ OpeningBoms \in [BomItems -> [Versions -> BomRow]]
    /\ \A item \in BomItems, v \in Versions :
         (/\ OpeningBoms[item][v].present
          /\ \A w \in Versions : OpeningBoms[item][w].present => w <= v)
             => OpeningBoms[item][v].active

VARIABLES
    bom,            \* the row of each item and version: (item, version) is unique
    bomReq          \* what each request is doing

bomVars == <<bom, bomReq>>

-----------------------------------------------------------------------------
NoBom == [present |-> FALSE, style |-> None, active |-> FALSE, lines |-> {}]

\* lines and active: what the DTO carries, None when it leaves the field out.
BomRequest == [pc : {"idle", "latest", "create", "delete", "insert", "update",
                     "done", "rejected", "failed"},
               item : BomItems \cup {None}, style : Styles \cup {None}, version : Nat,
               lines : {None} \cup LineChoices, active : BOOLEAN \cup {None}]

BomIdle == [pc |-> "idle", item |-> None, style |-> None, version |-> 0,
            lines |-> None, active |-> None]

Creation(item, style, version, lines) ==
    [BomIdle EXCEPT !.item = item, !.style = style, !.version = version, !.lines = lines]

BomInit ==
    /\ bom = OpeningBoms
    /\ bomReq = [r \in BomRequests |-> BomIdle]

BomGoto(r, label) == bomReq' = [bomReq EXCEPT ![r].pc = label]

\* The request is answered and forgets what it worked with.
BomAnswer(r, label) ==
    bomReq' = [bomReq EXCEPT ![r].pc = label, ![r].version = 0, ![r].lines = None]

MayAsk(r, kind) == kind \in BomKinds /\ bomReq[r].pc = "idle"

\* WHERE parentItemId = item, and styleCode = style if one is given.
Matches(item, style, v) ==
    bom[item][v].present /\ (style # None => bom[item][v].style = style)

-----------------------------------------------------------------------------
(* InventoryService.createBom().                                           *)

\* updateMany: the earlier versions of the item (or of its style) are
\* deactivated first ...
Deactivate(r, item, style, lines) ==
    /\ MayAsk(r, "newVersion")
    /\ bom' = [bom EXCEPT ![item] =
                 [v \in Versions |-> IF Matches(item, style, v)
                                     THEN [bom[item][v] EXCEPT !.active = FALSE]
                                     ELSE bom[item][v]]]
    /\ bomReq' = [bomReq EXCEPT ![r] =
                    [Creation(item, style, 0, lines) EXCEPT !.pc = "latest"]]

\* Mutant: the latest version is looked for among the active ones.
BugIsLatest(item, style, v) ==
    \/ v = 0 /\ \A w \in Versions : ~(Matches(item, style, w) /\ bom[item][w].active)
    \/ /\ v \in Versions /\ Matches(item, style, v) /\ bom[item][v].active
       /\ \A w \in Versions : Matches(item, style, w) => w <= v

\* The highest version there is, or 0.
IsLatest(item, style, v) ==
    /\ v = 0 \/ (v \in Versions /\ Matches(item, style, v))
    /\ \A w \in Versions : Matches(item, style, w) => w <= v

\* ... then the latest version is read ...
ReadLatest(r) ==
    /\ bomReq[r].pc = "latest"
    /\ \E v \in 0..(MaxVersion - 1) :
         /\ IsLatest(bomReq[r].item, bomReq[r].style, v)
         /\ bomReq' = [bomReq EXCEPT ![r].pc = "create", ![r].version = v + 1]
    /\ UNCHANGED bom

NewRow(q) == [present |-> TRUE, style |-> q.style, active |-> TRUE, lines |-> q.lines]

\* ... and the next one is created, unless somebody took its number: versions
\* are counted by style and unique by item.
CreateVersion(r) ==
    LET q == bomReq[r]
    IN  /\ q.pc = "create"
        /\ IF bom[q.item][q.version].present
           THEN BomAnswer(r, "rejected") /\ UNCHANGED bom
           ELSE BomAnswer(r, "done") /\ bom' = [bom EXCEPT ![q.item][q.version] = NewRow(q)]

-----------------------------------------------------------------------------
(* MrpService.                                                             *)

\* createBom(): the version of the DTO (1 by default), active, at least one
\* line; no other version is looked at.
CreateGiven(r, item, v, lines) ==
    /\ MayAsk(r, "given")
    /\ LET refused == lines = {} \/ bom[item][v].present
       IN  /\ bomReq' = [bomReq EXCEPT ![r] =
                           [BomIdle EXCEPT !.item = item,
                                           !.pc = IF refused THEN "rejected" ELSE "done"]]
           /\ bom' = IF refused THEN bom
                     ELSE [bom EXCEPT ![item][v] = NewRow(Creation(item, None, v, lines))]

\* updateBom(): the row is looked up ...
FindBom(r, item, v, lines, active) ==
    /\ MayAsk(r, "update")
    /\ bomReq' = [bomReq EXCEPT ![r] =
         IF bom[item][v].present
         THEN [Creation(item, None, v, lines) EXCEPT
                  !.pc = IF lines = None THEN "update" ELSE "delete", !.active = active]
         ELSE [BomIdle EXCEPT !.pc = "rejected"]]
    /\ UNCHANGED bom

SetLines(r, lines) == bom' = [bom EXCEPT ![bomReq[r].item][bomReq[r].version].lines = lines]

\* ... its lines are deleted, the new ones inserted, ...
DeleteLines(r) ==
    /\ bomReq[r].pc = "delete"
    /\ SetLines(r, {})
    /\ BomGoto(r, "insert")

InsertLines(r) ==
    /\ bomReq[r].pc = "insert"
    /\ SetLines(r, bom[bomReq[r].item][bomReq[r].version].lines \cup bomReq[r].lines)
    /\ BomGoto(r, "update")

\* ... and the row itself is updated.
UpdateRow(r) ==
    LET q == bomReq[r]
    IN  /\ q.pc = "update"
        /\ bom' = [bom EXCEPT ![q.item][q.version].active =
                     IF q.active = None THEN @ ELSE q.active]
        /\ BomAnswer(r, "done")

-----------------------------------------------------------------------------
Working(r) == bomReq[r].pc \in {"latest", "create", "delete", "insert", "update"}

\* A statement fails or the process ends: what was written stays.
BomFail(r) ==
    /\ Working(r)
    /\ BomAnswer(r, "failed")
    /\ UNCHANGED bom

BomStep(r) ==
    \/ \E it \in BomItems, s \in Styles \cup {None}, ls \in LineChoices :
         Deactivate(r, it, s, ls)
    \/ ReadLatest(r)
    \/ CreateVersion(r)
    \/ \E it \in BomItems, v \in Versions, ls \in LineChoices : CreateGiven(r, it, v, ls)
    \/ \E it \in BomItems, v \in Versions, ls \in {None} \cup LineChoices,
          a \in BOOLEAN \cup {None} : FindBom(r, it, v, ls, a)
    \/ DeleteLines(r)
    \/ InsertLines(r)
    \/ UpdateRow(r)
    \/ BomFail(r)

BomNext == \E r \in BomRequests : BomStep(r)

BomSpec == BomInit /\ [][BomNext]_bomVars

-----------------------------------------------------------------------------
(* Properties.                                                             *)

\* Rows and requests have the shapes the schema and the DTOs give them, and a
\* request that creates or updates names a version there is room for.
BomTypeOK ==
    /\ bom \in [BomItems -> [Versions -> BomRow]]
    /\ bomReq \in [BomRequests -> BomRequest]
    /\ \A r \in BomRequests :
         /\ bomReq[r].pc = "idle" => bomReq[r] = BomIdle
         /\ Working(r) => bomReq[r].item \in BomItems
         /\ bomReq[r].pc \in {"create", "delete", "insert", "update"} =>
                bomReq[r].version \in Versions
         /\ bomReq[r].pc \in {"latest", "create", "delete", "insert"} => bomReq[r].lines # None

\* No request on the item died half-way, named a style, or deactivated it by PATCH.
Ordinary(item) ==
    \A r \in BomRequests : bomReq[r].item = item =>
        bomReq[r].pc # "failed" /\ bomReq[r].style = None /\ bomReq[r].active # FALSE

Highest(item, v) ==
    bom[item][v].present /\ \A w \in Versions : bom[item][w].present => w <= v

\* However creations, replacements and refusals of both services interleave,
\* when they are over the latest version of the item is active ("Create a new
\* BOM version (deactivates prior active BOM ...)"): no race leaves an item
\* whose versions were all switched off, and which MRP would skip.
LatestIsActive ==
    \A item \in BomItems :
        (Ordinary(item) /\ \A r \in BomRequests : bomReq[r].item = item => ~Working(r))
            => \A v \in Versions : Highest(item, v) => bom[item][v].active

\* Why: a latest version that is not active was switched off by a request that
\* is still to create a higher one (inductive together with BomTypeOK).
Successor(item, v) ==
    \E r \in BomRequests :
        /\ bomReq[r].item = item
        /\ bomReq[r].pc = "latest" \/ (bomReq[r].pc = "create" /\ bomReq[r].version > v)

LatestHasSuccessor ==
    \A item \in BomItems : Ordinary(item) =>
        \A v \in Versions : Highest(item, v) => bom[item][v].active \/ Successor(item, v)

=============================================================================

----------------------------- MODULE Production -----------------------------
(***************************************************************************)
(* ProductionService: cut orders, line plans and WIP records.  Quantities  *)
(* of cut orders and line plans are one value, figures; dates are left     *)
(* out.  The event production.cut-order-created has no consumer.           *)
(***************************************************************************)
EXTENDS Handlers

CONSTANTS
    Cuts,           \* cut_orders
    Plans,          \* line_plans
    Wips,           \* wip_records
    Figures,        \* what the quantities of a cut order or a line plan may be
    WipQtys,        \* quantities of WIP records
    LoadedWork,     \* whether work is found in progress at the start
    NewYears        \* New Years in a behaviour

VARIABLES
    work,           \* cut orders and line plans
    wip,            \* WIP records
    year            \* the clock's year, counted from the start

productionVars == <<work, wip, year>>

-----------------------------------------------------------------------------
\* year and number: of a cut order, unique in the tenant as CUT-<year>-<number>;
\* line plans have none.
NoWork == [status |-> None, year |-> 0, number |-> 0, figures |-> None]

NoWip == [input |-> 0, output |-> 0, reject |-> 0, present |-> FALSE, late |-> FALSE]

NewWip(i, o, j) == [input |-> i, output |-> o, reject |-> j, present |-> TRUE, late |-> FALSE]

CutMoves ==
    ({"PLANNED"} \X {"CUTTING", "CANCELLED"}) \cup ({"CUTTING"} \X {"COMPLETED", "CANCELLED"})

PlanMoves ==
    ({"SCHEDULED"} \X {"RUNNING", "CANCELLED"}) \cup ({"RUNNING"} \X {"COMPLETED", "CANCELLED"})

Moves(d) == IF d \in Cuts THEN CutMoves ELSE PlanMoves

CutOrderStatus == {"PLANNED", "CUTTING", "COMPLETED", "CANCELLED"}
LinePlanStatus == {"SCHEDULED", "RUNNING", "COMPLETED", "CANCELLED"}

ASSUME ProductionAssumption ==
    /\ None \notin Figures \cup CutOrderStatus \cup LinePlanStatus
    /\ WipQtys \subseteq Nat
    /\ NewYears \in Nat
    /\ Cuts \cap Plans = {}

Statuses(d) == IF d \in Cuts THEN CutOrderStatus ELSE LinePlanStatus

\* What a client may send: a status and figures, either or both.
UpdateCutOrderDto == [status : CutOrderStatus \cup {None}, figures : Figures \cup {None}]
UpdateLinePlanDto == [status : LinePlanStatus \cup {None}, figures : Figures \cup {None}]

\* Output and reject default to nothing when a record is created.
CreateWipRecordDto == [input : WipQtys, output : WipQtys, reject : WipQtys]
UpdateWipRecordDto == [output : WipQtys \cup {None}, reject : WipQtys \cup {None}]

Finished == {"COMPLETED", "CANCELLED"}

CutsThereAre == {c \in Cuts : work[c] # NoWork}

ProductionInit ==
    /\ \/ work = [d \in Cuts \cup Plans |-> NoWork]
       \/ /\ LoadedWork
          /\ \E d \in Cuts \cup Plans : \E s \in Statuses(d), f \in Figures :
               work = [x \in Cuts \cup Plans |->
                         IF x = d THEN [status |-> s, figures |-> f, year |-> 0,
                                        number |-> IF d \in Cuts THEN 1 ELSE 0]
                         ELSE NoWork]
    /\ wip = [w \in Wips |-> NoWip]
    /\ year = 0

\* The clock.
NewYear ==
    /\ year < NewYears
    /\ year' = year + 1
    /\ UNCHANGED <<request, work, wip>>

-----------------------------------------------------------------------------
(* createCutOrder(), createLinePlan().                                     *)

\* nextCutOrderNumber(): the cut orders of all years are counted.
CountCuts(r) ==
    /\ Read(r, "createCut", "cut_orders", None,
            [number |-> Cardinality(CutsThereAre) + 1, year |-> year])
    /\ UNCHANGED productionVars

\* The clock is read at some time between the count and the insert.
YearsRead(r) == request[r].was.year .. year

\* Mutant: the key is not there.
BugNumberFree(n, y) == TRUE

\* @@unique([tenantId, cutOrderNumber])
NumberFree(n, y) == \A c \in CutsThereAre : <<work[c].number, work[c].year>> # <<n, y>>

InsertCut(r, c, f) ==
    /\ AtWrite(r, "createCut")
    /\ work[c] = NoWork
    /\ \E y \in YearsRead(r) :
         /\ NumberFree(request[r].was.number, y)
         /\ work' = [work EXCEPT ![c] = [status |-> "PLANNED", year |-> y, figures |-> f,
                                         number |-> request[r].was.number]]
    /\ Written(r, Served)
    /\ UNCHANGED <<wip, year>>

RefuseCut(r) ==
    /\ AtWrite(r, "createCut")
    /\ \E y \in YearsRead(r) : ~ NumberFree(request[r].was.number, y)
    /\ Refuse(r)
    /\ UNCHANGED productionVars

CreateLinePlan(r, p, f) ==
    /\ Arrives(r)
    /\ work[p] = NoWork
    /\ work' = [work EXCEPT ![p] = [NoWork EXCEPT !.status = "SCHEDULED", !.figures = f]]
    /\ request' = [request EXCEPT ![r] = Served]
    /\ UNCHANGED <<wip, year>>

-----------------------------------------------------------------------------
(* updateCutOrder(), updateLinePlan(): a status and figures, either or both.*)

ReadWork(r, d, dto) ==
    /\ work[d].status \notin Finished \cup {None}
    /\ dto.status # None => <<work[d].status, dto.status>> \in Moves(d)
    /\ Read(r, "updateWork", d, dto, work[d])
    /\ UNCHANGED productionVars

UpdateCutOrder(r) ==
    LET d == request[r].doc
        dto == request[r].dto
    IN  /\ AtWrite(r, "updateWork")
        /\ d \in Cuts
        /\ work' = [work EXCEPT ![d].status = IF dto.status # None THEN dto.status ELSE @,
                                ![d].figures = IF dto.figures # None THEN dto.figures ELSE @]
        /\ Written(r, Served)
        /\ UNCHANGED <<wip, year>>

UpdateLinePlan(r) ==
    LET d == request[r].doc
        dto == request[r].dto
    IN  /\ AtWrite(r, "updateWork")
        /\ d \in Plans
        /\ work' = [work EXCEPT ![d].status = IF dto.status # None THEN dto.status ELSE @,
                                ![d].figures = IF dto.figures # None THEN dto.figures ELSE @]
        /\ Written(r, Served)
        /\ UNCHANGED <<wip, year>>

-----------------------------------------------------------------------------
(* createWipRecord(), updateWipRecord().                                   *)

CreateWip(r, w, dto) ==
    /\ Arrives(r)
    /\ ~ wip[w].present
    /\ dto.output + dto.reject <= dto.input
    /\ wip' = [wip EXCEPT ![w] = NewWip(dto.input, dto.output, dto.reject)]
    /\ request' = [request EXCEPT ![r] = Served]
    /\ UNCHANGED <<work, year>>

Sent(value, default) == IF value # None THEN value ELSE default

\* Mutant: what is not sent counts as zero.
BugReadWip(r, w, dto) ==
    /\ wip[w].present
    /\ Sent(dto.output, 0) + Sent(dto.reject, 0) <= wip[w].input
    /\ Read(r, "updateWip", w, dto, wip[w])
    /\ UNCHANGED productionVars

\* What is not sent is taken from the record read, for the check only.
ReadWip(r, w, dto) ==
    /\ wip[w].present
    /\ Sent(dto.output, wip[w].output) + Sent(dto.reject, wip[w].reject) <= wip[w].input
    /\ Read(r, "updateWip", w, dto, wip[w])
    /\ UNCHANGED productionVars

UpdateWip(r) ==
    LET w == request[r].doc
        dto == request[r].dto
    IN  /\ AtWrite(r, "updateWip")
        /\ wip' = [wip EXCEPT ![w].output = Sent(dto.output, @),
                              ![w].reject = Sent(dto.reject, @),
                              ![w].late   = @ \/ request[r].late]
        /\ Written(r, Served)
        /\ UNCHANGED <<work, year>>

-----------------------------------------------------------------------------
WorkNext ==
    \/ NewYear
    \/ \E r \in Requests :
         \/ CountCuts(r)
         \/ RefuseCut(r)
         \/ \E c \in Cuts, f \in Figures : InsertCut(r, c, f)
         \/ \E p \in Plans, f \in Figures : CreateLinePlan(r, p, f)
         \/ \E c \in Cuts, dto \in UpdateCutOrderDto : ReadWork(r, c, dto)
         \/ \E p \in Plans, dto \in UpdateLinePlanDto : ReadWork(r, p, dto)
         \/ UpdateCutOrder(r)
         \/ UpdateLinePlan(r)

WipNext ==
    \E r \in Requests :
      \/ \E w \in Wips :
           \/ \E dto \in CreateWipRecordDto : CreateWip(r, w, dto)
           \/ \E dto \in UpdateWipRecordDto : ReadWip(r, w, dto)
      \/ UpdateWip(r)

-----------------------------------------------------------------------------
(* Properties.                                                             *)

\* As long as all are of one year, cut orders are numbered 1, 2, ... without a gap or
\* a repetition, although each number is counted before its insert: of two requests
\* that counted the same the unique key refuses one.  It need not over New Year, and
\* even then no number runs ahead of the cut orders there are.
CutNumbersContiguous ==
    LET numbers == {work[c].number : c \in CutsThereAre}
        all     == 1 .. Cardinality(CutsThereAre)
    IN  /\ numbers \subseteq all
        /\ (\A c, d \in CutsThereAre : work[c].year = work[d].year) => numbers = all

\* A cut order or a line plan moves along its life cycle and keeps its figures once
\* it is finished, except by a request that read it before its last change.
ProductionLifeCycle ==
    [][\A d \in Cuts \cup Plans : (work[d] # NoWork /\ work'[d] # work[d]) =>
         \/ LateWrite(d)
         \/ /\ work[d].status \notin Finished
            /\ \/ work'[d].status = work[d].status
               \/ <<work[d].status, work'[d].status>> \in Moves(d)]_work

\* Output and reject of a WIP record together never exceed its input, unless two
\* updates overlap; and not even then does one of them alone.
WipBalanced ==
    \A w \in Wips :
      /\ wip[w].output <= wip[w].input /\ wip[w].reject <= wip[w].input
      /\ ~ wip[w].late => wip[w].output + wip[w].reject <= wip[w].input

=============================================================================

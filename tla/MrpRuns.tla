------------------------------- MODULE MrpRuns -------------------------------
(***************************************************************************)
(* MrpService.runMrp() over the bills of materials: each run reads, plans, *)
(* and stores its lines and requisitions in statements that commit one by  *)
(* one.  Orders and stock change at any time and are abstracted to what a  *)
(* run finds: the items demanded and the materials that are short.         *)
(* Quantities and dates are left to the engine; a line is its material.    *)
(***************************************************************************)
EXTENDS Boms, SequencesExt

CONSTANTS
    Runs,           \* rows of mrp_runs
    Demands,        \* sets of items the selected orders may demand
    MaxDepth        \* levels of sub-assemblies a run explodes (10 by default)

ASSUME RunsAssumption ==
    /\ Demands \subseteq SUBSET BomItems
    /\ MaxDepth \in Nat \ {0}
    /\ None \notin Runs \cup {"RUNNING", "COMPLETED", "FAILED"}
    /\ IsFiniteSet(Components)

VARIABLES
    run,            \* each run: its row and what its request is doing
    prs             \* purchase_requisitions

runVars == <<run, prs>>
mrpVars == <<bomVars, runVars>>

-----------------------------------------------------------------------------
\* plan: the lines the engine returned; short: those with a net requirement;
\* lines: the mrp_lines stored; seq: what nextPrNumber() returned; overlaps
\* (auxiliary): another run was between its count and its insert meanwhile.
Run == [pc : {"idle", "load", "empty", "reread", "lines", "count", "requisitions",
              "complete", "unheard", "answer", "catch", "done", "thrown", "lost"},
        status : {"RUNNING", "COMPLETED", "FAILED", None}, demand : SUBSET BomItems,
        plan : SUBSET Components, short : SUBSET Components, lines : SUBSET Components,
        seq : Nat, overlaps : BOOLEAN]

NoRun == [pc |-> "idle", status |-> None, demand |-> {}, plan |-> {}, short |-> {},
          lines |-> {}, seq |-> 0, overlaps |-> FALSE]

Requisition == [run : Runs, item : Components, number : Nat \ {0},
                status : {"OPEN", "APPROVED"}]

MrpInit ==
    /\ BomInit
    /\ run = [x \in Runs |-> NoRun]
    /\ prs = {}

RunGoto(x, label) == run' = [run EXCEPT ![x].pc = label]

-----------------------------------------------------------------------------
(* What a run plans.                                                       *)

\* loadBomMap(): of the active versions of an item, whichever comes last.
ActiveVersions(item) == {v \in Versions : bom[item][v].present /\ bom[item][v].active}

BomMaps ==
    LET items == {it \in BomItems : ActiveVersions(it) # {}}
    IN  {m \in [items -> Versions] : \A it \in items : m[it] \in ActiveVersions(it)}

Children(map, items) == UNION {bom[it][map[it]].lines : it \in items \cap DOMAIN map}

\* explodeBom(): a child with a bill of its own is a sub-assembly of the next
\* level, down to MaxDepth levels ...
Level(map, demand) ==
    LET level[n \in 0..MaxDepth] ==
            IF n = 0 THEN demand ELSE Children(map, level[n - 1]) \cap DOMAIN map
    IN  level

\* Mutant: the bill of the demanded item only.
BugMaterials(map, demand) == Children(map, demand) \ DOMAIN map

\* ... and any other child is a material of the plan.
Materials(map, demand) ==
    (UNION {Children(map, Level(map, demand)[n]) : n \in 0..(MaxDepth - 1)}) \ DOMAIN map

-----------------------------------------------------------------------------
(* runMrp().                                                               *)

CreateRun(x) ==
    /\ run[x].pc = "idle"
    /\ run' = [run EXCEPT ![x].pc = "load", ![x].status = "RUNNING"]
    /\ UNCHANGED <<bomVars, prs>>

\* The three reads of Promise.all, and the engine.
LoadAndPlan(x) ==
    /\ run[x].pc = "load"
    /\ \E demand \in Demands, map \in BomMaps :
         \E short \in SUBSET Materials(map, demand) :
           run' = [run EXCEPT ![x] =
                     [@ EXCEPT !.pc = IF demand = {} THEN "empty" ELSE "lines",
                               !.demand = demand, !.plan = Materials(map, demand),
                               !.short = short]]
    /\ UNCHANGED <<bomVars, prs>>

\* 'No demands to plan': completed, then read again inside the try block.
CompleteEmpty(x) ==
    /\ run[x].pc = "empty"
    /\ run' = [run EXCEPT ![x].pc = "reread", ![x].status = "COMPLETED"]
    /\ UNCHANGED <<bomVars, prs>>

AnswerEmpty(x) ==
    /\ run[x].pc = "reread"
    /\ RunGoto(x, "done")
    /\ UNCHANGED <<bomVars, prs>>

SaveLines(x) ==
    /\ run[x].pc = "lines"
    /\ run' = [run EXCEPT ![x].pc = "count", ![x].lines = run[x].plan]
    /\ UNCHANGED <<bomVars, prs>>

Counted(x) == run[x].pc = "requisitions"

\* Mutant: only the open requisitions are counted.
BugCountOpen == Cardinality({p \in prs : p.status = "OPEN"}) + 1

NextNumber == Cardinality(prs) + 1

\* nextPrNumber(): one more than the requisitions there are.
CountRequisitions(x) ==
    /\ run[x].pc = "count"
    /\ run' = [y \in Runs |->
                 IF y = x THEN [run[x] EXCEPT !.pc = "requisitions", !.seq = NextNumber,
                                              !.overlaps = \E z \in Runs \ {x} : Counted(z)]
                 ELSE IF Counted(y) THEN [run[y] EXCEPT !.overlaps = TRUE]
                 ELSE run[y]]
    /\ UNCHANGED <<bomVars, prs>>

\* The requisitions of a run, numbered from seq on in the order of the plan.
Numbered(x, order) ==
    {[run |-> x, item |-> order[i], number |-> run[x].seq + i - 1, status |-> "OPEN"] :
        i \in DOMAIN order}

\* Mutant: the insert is not awaited and fails.
BugSaveRequisitions(x) ==
    /\ run[x].pc = "requisitions"
    /\ RunGoto(x, "complete")
    /\ UNCHANGED <<bomVars, prs>>

SaveRequisitions(x) ==
    /\ run[x].pc = "requisitions"
    /\ \E order \in SetToSeqs(run[x].short) : prs' = prs \cup Numbered(x, order)
    /\ run' = [run EXCEPT ![x].pc = "complete", ![x].seq = 0]
    /\ UNCHANGED bomVars

Complete(x) ==
    /\ run[x].pc = "complete"
    /\ run' = [run EXCEPT ![x].pc = "answer", ![x].status = "COMPLETED"]
    /\ UNCHANGED <<bomVars, prs>>

\* The completion commits and its answer is lost: the catch block is entered.
CompleteUnheard(x) ==
    /\ run[x].pc = "complete"
    /\ run' = [run EXCEPT ![x].pc = "unheard", ![x].status = "COMPLETED"]
    /\ UNCHANGED <<bomVars, prs>>

\* Mutant: the run is awaited inside the try block, so that a failed read of it
\* is taken for a failure of the run.
BugAnswer(x) ==
    /\ run[x].pc = "answer"
    /\ \E label \in {"done", "catch"} : RunGoto(x, label)
    /\ UNCHANGED <<bomVars, prs>>

\* The audit row, which cannot fail, and the answer, whose read is not awaited
\* inside the try block.
Answer(x) ==
    /\ run[x].pc = "answer"
    /\ RunGoto(x, "done")
    /\ UNCHANGED <<bomVars, prs>>

-----------------------------------------------------------------------------
(* Failures.                                                               *)

\* A statement of the try block fails, or the answer to the one before it is lost.
Throw(x) ==
    /\ run[x].pc \in {"load", "empty", "reread", "lines", "count", "requisitions", "complete"}
    /\ RunGoto(x, "catch")
    /\ UNCHANGED <<bomVars, prs>>

MarkFailed(x) ==
    /\ run[x].pc \in {"catch", "unheard"}
    /\ run' = [run EXCEPT ![x].pc = "thrown", ![x].status = "FAILED"]
    /\ UNCHANGED <<bomVars, prs>>

\* The process ends, or the run cannot be marked either; nothing resumes it.
LoseRun(x) ==
    /\ run[x].pc \notin {"idle", "done", "thrown", "lost"}
    /\ RunGoto(x, "lost")
    /\ UNCHANGED <<bomVars, prs>>

-----------------------------------------------------------------------------
\* approvePrs(): updateMany over the OPEN ones of those named.
ApproveRequisitions(named) ==
    /\ prs' = {IF p \in named /\ p.status = "OPEN" THEN [p EXCEPT !.status = "APPROVED"] ELSE p :
                  p \in prs}
    /\ UNCHANGED <<bomVars, run>>

RunStep(x) ==
    \/ CreateRun(x)
    \/ LoadAndPlan(x)
    \/ CompleteEmpty(x)
    \/ AnswerEmpty(x)
    \/ SaveLines(x)
    \/ CountRequisitions(x)
    \/ SaveRequisitions(x)
    \/ Complete(x)
    \/ CompleteUnheard(x)
    \/ Answer(x)
    \/ Throw(x)
    \/ MarkFailed(x)
    \/ LoseRun(x)

MrpNext ==
    \/ BomNext /\ UNCHANGED runVars
    \/ \E x \in Runs : RunStep(x)
    \/ \E named \in SUBSET prs : ApproveRequisitions(named)

MrpSpec == MrpInit /\ [][MrpNext]_mrpVars

-----------------------------------------------------------------------------
(* Properties.                                                             *)

\* Runs and requisitions have the shapes the schema gives them; requisitions
\* are numbered from one, and a run has at most one for each material.
MrpTypeOK ==
    /\ BomTypeOK
    /\ run \in [Runs -> Run]
    /\ prs \subseteq Requisition
    /\ \A p, q \in prs : (p.run = q.run /\ p.item = q.item) => p = q

\* Two requisitions share a number only when their runs counted and inserted at
\* the same time; runs that fail or die between the two take no number.
NumbersDistinct ==
    \A p, q \in prs : (p # q /\ p.number = q.number) =>
        p.run # q.run /\ run[p.run].overlaps /\ run[q.run].overlaps

\* A run is COMPLETED only with all the lines and requisitions of its plan,
\* wherever other runs stand and whatever failed.
CompletedIsWhole ==
    \A x \in Runs : run[x].status = "COMPLETED" =>
        /\ run[x].lines = run[x].plan
        /\ {p.item : p \in {q \in prs : q.run = x}} = run[x].short

\* A run that planned something is never taken back once it is COMPLETED, unless
\* its request never learnt that it is.
CompletedIsFinal ==
    [][\A x \in Runs : (run[x].status = "COMPLETED" /\ run[x].demand # {}) =>
         run[x].pc = "unheard" \/ run'[x].status = "COMPLETED"]_mrpVars

=============================================================================

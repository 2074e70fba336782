--------------------------------- MODULE Mrp ---------------------------------
(***************************************************************************)
(* Planning runs and the computation they store: runMrp() calls            *)
(* calculate() with what it has read.  MrpRuns abstracts the computation   *)
(* to the materials it finds; this module relates the two.                 *)
(***************************************************************************)
EXTENDS MrpRuns, MrpEngine

\* A run hands the engine its own depth, and the bills of its own items.
ASSUME MrpAssumption ==
    /\ EngineDepth = MaxDepth
    /\ \A map \in EngineBoms : DOMAIN map \subseteq BomItems

\* The bills of the computation as the runs see them: their first version.
ComputedBoms ==
    [item \in BomItems |-> [v \in Versions |->
        IF v = 1 /\ item \in DOMAIN calc.map
        THEN [present |-> TRUE, style |-> None, active |-> TRUE,
              lines |-> {l.child : l \in Range(calc.map[item])}]
        ELSE NoBom]]

Found == INSTANCE MrpRuns WITH bom <- ComputedBoms

\* A planning run is modelled by the materials it plans and those it requests:
\* these are the lines the engine returns and some of them, whatever the bills,
\* the demands and the stock (runMrp stores what calculate returned).
PlansItsMaterials ==
    calc.pc = "done" =>
        /\ {l.item : l \in Range(calc.lines)}
             = Found!Materials([it \in DOMAIN calc.map |-> 1], {d.item : d \in Range(calc.demands)})
        /\ Range(calc.requisitions) \subseteq Range(calc.lines)

\* What a run stores is what its demands and bills call for: lines of exactly those
\* materials, the most urgent first, and each in time for all demands that need it.
RunsStoreWhatIsComputed == PlansItsMaterials /\ OrderedInTime

=============================================================================

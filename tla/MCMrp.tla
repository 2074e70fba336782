-------------------------------- MODULE MCMrp --------------------------------
(***************************************************************************)
(* Instances of MrpRuns and of MrpEngine for TLC; a behaviour is one of    *)
(* planning runs or one computation of the engine.  For the runs a panel,  *)
(* cut from a lining, has a bill of materials already and a garment made   *)
(* of panels gets its own.  A request may make the panel a part of itself. *)
(***************************************************************************)
EXTENDS Mrp

CONSTANTS garment, panel, lining, thread, b1, b2, x1, x2, hall, yard

VARIABLE subject    \* "runs" or "engine"

vars == <<subject, mrpVars, calc>>

Init ==
    /\ subject \in {"runs", "engine"}
    /\ MrpInit /\ EngineInit

Next ==
    /\ UNCHANGED subject
    /\ \/ subject = "runs" /\ MrpNext /\ UNCHANGED calc
       \/ subject = "engine" /\ EngineNext /\ UNCHANGED mrpVars

MCSpec == Init /\ [][Next]_vars

-----------------------------------------------------------------------------
BomSymmetry == Permutations(BomRequests) \cup Permutations(Runs)

Cut == [present |-> TRUE, style |-> None, active |-> TRUE, lines |-> {lining}]

MCOpeningBoms ==
    (garment :> [v \in Versions |-> NoBom])
    @@ (panel :> [v \in Versions |-> IF v = 1 THEN Cut ELSE NoBom])

MCLineChoices == {{}, {panel}}

MCDemands == {{}, {garment}}

AllBomKinds == {"newVersion", "given", "update"}

-----------------------------------------------------------------------------
\* Twice a part with 2% of waste; half of one; three with 50% of waste.
Parts(child, lead) == {[child |-> child, per |-> p, lead |-> lead] : p \in {204, 50}}

GarmentBills ==
    {<<a, b>> : a \in Parts(panel, 9), b \in Parts(thread, 1) \cup Parts(lining, 4)}
    \cup {<<[child |-> thread, per |-> 450, lead |-> 2], a, [child |-> panel, per |-> 101, lead |-> 9]>> :
            a \in Parts(panel, 9)}

\* None, a part of itself, a part of a garment, a bill of its own.
PanelBills ==
    {None, <<>>} \cup {<<[child |-> panel, per |-> 100, lead |-> 0], a>> : a \in Parts(lining, 3)}
    \cup {<<a, [child |-> garment, per |-> 50, lead |-> 0]>> : a \in Parts(thread, 5)}
    \cup {<<a, b>> : a \in Parts(lining, 6), b \in Parts(thread, 0)}

MCEngineBoms ==
    {IF p = None THEN garment :> g ELSE (garment :> g) @@ (panel :> p) :
        g \in GarmentBills, p \in PanelBills} \cup {panel :> <<>>}

Demand(item, qty, delivery) == [item |-> item, qty |-> qty, delivery |-> delivery]

MCEngineDemands ==
    {<<Demand(garment, 3, 20)>>, <<Demand(garment, 1, 30), Demand(garment, 2, 10)>>,
     <<Demand(panel, 5, 15), Demand(garment, 1, 18)>>, <<Demand(lining, 4, 9)>>}

Held(onHand, onOrder, allocated) ==
    [f \in Figures3 |-> CASE f = "onHand" -> onHand [] f = "onOrder" -> onOrder
                          [] f = "allocated" -> allocated]

MCStockRows ==
    {<<>>,
     (<<thread, hall>> :> Held(2, 3, 1)) @@ (<<thread, yard>> :> Held(1, 0, 0)),
     (<<thread, hall>> :> Held(500, 0, 0)) @@ (<<lining, yard>> :> Held(2, 0, 4)),
     (<<lining, hall>> :> Held(1, 9, 3)) @@ (<<lining, yard>> :> Held(4, 1, 0))}

=============================================================================

------------------------------ MODULE MrpEngine ------------------------------
(***************************************************************************)
(* MrpEngine.calculate(): what one planning computes from the demands, the *)
(* active bills of materials and the stock it was given.  A computation    *)
(* has no await: it is broken into the demands it explodes only so that it *)
(* can be followed.  A line multiplies by hundredths, so that quantities   *)
(* are exact: see Unit.  Days are numbered; codes, names and units follow  *)
(* the item and are left out.                                              *)
(***************************************************************************)
EXTENDS Integers, Sequences, FiniteSets, SequencesExt

CONSTANTS
    Items,          \* items of the tenant
    Locations,      \* where stock is kept
    EngineBoms,     \* bills a planning may find: item -> lines, in their order
    EngineDemands,  \* demands it may find, in the order the orders are read
    StockRows,      \* stock_balances it may find: <<item, location>> -> figures
    EngineDepth     \* maxDepth of calculate()

\* qtyPer is positive and wastePct at least zero (CreateBomLineDto): a line asks
\* for per hundredths of the parent's quantity, waste included.
EngineLine == [child : Items, per : Nat \ {0}, lead : Nat]

\* A line of an order that is to be planned, of one piece at least (OrderLineDto).
EngineDemand == [item : Items, qty : Nat \ {0}, delivery : Int]

EngineStock == [{"onHand", "onOrder", "allocated"} -> Int]

ASSUME EngineAssumption ==
    /\ \A map \in EngineBoms : DOMAIN map \subseteq Items /\ IsFiniteSet(DOMAIN map)
                               /\ \A it \in DOMAIN map : map[it] \in Seq(EngineLine)
    /\ \A demands \in EngineDemands : demands \in Seq(EngineDemand)
    /\ \A rows \in StockRows : DOMAIN rows \subseteq Items \X Locations /\ IsFiniteSet(DOMAIN rows)
                                /\ \A row \in DOMAIN rows : rows[row] \in EngineStock
    /\ EngineDepth \in Nat \ {0}

VARIABLE calc   \* the computation: its inputs, and what it has reached

-----------------------------------------------------------------------------
(* Inputs.                                                                 *)

Figures3 == {"onHand", "onOrder", "allocated"}

\* loadStockMap(): the rows of an item added over its locations; an item with no
\* row has nothing.
StockOf(rows, item) ==
    LET held == {l \in Locations : <<item, l>> \in DOMAIN rows}
    IN  [f \in Figures3 |-> SumFunction([l \in held |-> rows[<<item, l>>][f]])]

-----------------------------------------------------------------------------
(* explodeBom().                                                           *)

Hundreds[n \in 0 .. EngineDepth] == IF n = 0 THEN 1 ELSE 100 * Hundreds[n - 1]

\* A piece, so many lines below a demand, in the units of the gross requirements: the
\* hundredths of hundredths that the longest path of lines can ask for.
Unit(lines) == Hundreds[EngineDepth - lines]

\* Mutant: the quantity of the parent counts without its own factor.
BugThrough(line, leaf) == leaf

\* A leaf below a line: its quantity multiplied by what the line asks for.
Through(line, leaf) == [leaf EXCEPT !.per = @ * line.per, !.lines = @ + 1]

\* The leaves one unit of an item explodes into, depth first, with n levels left;
\* nothing where the depth ends, whatever lies below.
LeavesOf(map) ==
    LET leaves[n \in 0 .. EngineDepth] ==
          [item \in Items |->
            IF n = 0 \/ item \notin DOMAIN map THEN <<>>
            ELSE FlattenSeq([i \in DOMAIN map[item] |->
                   LET line == map[item][i]
                   IN  IF line.child \in DOMAIN map
                       THEN [j \in DOMAIN leaves[n - 1][line.child] |->
                               Through(line, leaves[n - 1][line.child][j])]
                       ELSE <<[item |-> line.child, per |-> line.per, lines |-> 1,
                               lead |-> line.lead]>>])]
    IN  leaves[EngineDepth]

Smaller(a, b) == IF a < b THEN a ELSE b
Larger(a, b) == IF a < b THEN b ELSE a

\* grossMap, in the order its keys were set.
Position(gross, item) == {i \in DOMAIN gross : gross[i].item = item}

\* Mutant: the date of the last demand that needs the item stands.
BugAccumulate(gross, item, qty, need, lead) ==
    IF Position(gross, item) = {}
    THEN Append(gross, [item |-> item, qty |-> qty, need |-> need, lead |-> lead])
    ELSE [i \in DOMAIN gross |->
            IF i \in Position(gross, item)
            THEN [gross[i] EXCEPT !.qty = @ + qty, !.need = need, !.lead = Larger(@, lead)]
            ELSE gross[i]]

Accumulate(gross, item, qty, need, lead) ==
    IF Position(gross, item) = {}
    THEN Append(gross, [item |-> item, qty |-> qty, need |-> need, lead |-> lead])
    ELSE [i \in DOMAIN gross |->
            IF i \in Position(gross, item)
            THEN [gross[i] EXCEPT !.qty = @ + qty, !.need = Smaller(@, need),
                                  !.lead = Larger(@, lead)]
            ELSE gross[i]]

Explode(gross, map, demand) ==
    FoldLeft(LAMBDA g, leaf : Accumulate(g, leaf.item,
                                         demand.qty * (leaf.per * Unit(leaf.lines)),
                                         demand.delivery, leaf.lead),
             gross, LeavesOf(map)[demand.item])

-----------------------------------------------------------------------------
(* Netting, dates and order.                                               *)

\* round2(), in hundredths: Math.round() takes a half up.
Round2(units) == (2 * units + Unit(1)) \div (2 * Unit(1))

Available(stock) == stock["onHand"] + stock["onOrder"] - stock["allocated"]

\* Mutant: the quantity allocated to other work counts as available.
BugNet(qty, stock) == Larger(0, Round2(qty - Unit(0) * (stock["onHand"] + stock["onOrder"])))

Net(qty, stock) == Larger(0, Round2(qty - Unit(0) * Available(stock)))

LineOf(rows, g) ==
    [item |-> g.item, gross |-> Round2(g.qty), net |-> Net(g.qty, StockOf(rows, g.item)),
     requiredBy |-> g.need, orderBy |-> g.need - g.lead]

\* Array.sort() is stable: lines of one day stay in the order of grossMap.
Sooner(a, b) == a.orderBy < b.orderBy

InsertLine(sorted, line) ==
    LET before == Cardinality({i \in DOMAIN sorted : ~ Sooner(line, sorted[i])})
    IN  SubSeq(sorted, 1, before) \o <<line>> \o SubSeq(sorted, before + 1, Len(sorted))

LinesOf(rows, gross) ==
    FoldLeft(LAMBDA sorted, g : InsertLine(sorted, LineOf(rows, g)), <<>>, gross)

\* The lines with a net requirement, in their order.
RequisitionsOf(lines) ==
    FoldLeft(LAMBDA short, l : IF l.net > 0 THEN Append(short, l) ELSE short, <<>>, lines)

-----------------------------------------------------------------------------
(* One computation.                                                        *)

NoCalc == [pc |-> "idle", map |-> <<>>, demands |-> <<>>, rows |-> <<>>, next |-> 1,
           gross |-> <<>>, lines |-> <<>>, requisitions |-> <<>>]

EngineInit == calc = NoCalc

\* loadBomMap(), loadOrderDemands() and loadStockMap().
Load ==
    /\ calc.pc = "idle"
    /\ \E map \in EngineBoms, demands \in EngineDemands, rows \in StockRows :
         calc' = [NoCalc EXCEPT !.pc = "explode", !.map = map, !.demands = demands,
                                !.rows = rows]

ExplodeDemand ==
    /\ calc.pc = "explode" /\ calc.next <= Len(calc.demands)
    /\ calc' = [calc EXCEPT !.next = @ + 1,
                            !.gross = Explode(@, calc.map, calc.demands[calc.next])]

NetAndSort ==
    /\ calc.pc = "explode" /\ calc.next > Len(calc.demands)
    /\ LET lines == LinesOf(calc.rows, calc.gross)
       IN  calc' = [calc EXCEPT !.pc = "done", !.lines = lines,
                                !.requisitions = RequisitionsOf(lines)]

EngineNext == Load \/ ExplodeDemand \/ NetAndSort

EngineSpec == EngineInit /\ [][EngineNext]_calc

-----------------------------------------------------------------------------
(* Reference definitions: what a planning should find, level by level over *)
(* all the paths of the bills, with no order among demands or lines.       *)

\* What the lines of a bill ask of an item, for one piece of the parent.
Asked(bill, item) ==
    SumFunction([i \in DOMAIN bill |-> IF bill[i].child = item THEN bill[i].per ELSE 0])

\* Pieces of every item needed at a level: the demands at level 0, and below it what
\* the bills of the level above ask for.
Needed ==
    LET needed[n \in 0 .. EngineDepth] ==
          [item \in Items |->
            IF n = 0
            THEN SumFunction([k \in DOMAIN calc.demands |->
                   IF calc.demands[k].item = item THEN calc.demands[k].qty ELSE 0])
            ELSE SumFunction([parent \in DOMAIN calc.map |->
                   needed[n - 1][parent] * Asked(calc.map[parent], item)])]
    IN  needed

GrossNeed(item) ==
    IF item \in DOMAIN calc.map THEN 0
    ELSE SumFunction([n \in 1 .. EngineDepth |-> Needed[n][item] * Unit(n)])

\* Items within so many levels below an item, and itself.
Below(item) ==
    LET below[n \in 0 .. EngineDepth - 1] ==
            IF n = 0 THEN {item}
            ELSE below[n - 1] \cup
                 {l.child : l \in UNION {Range(calc.map[p]) :
                                           p \in below[n - 1] \cap DOMAIN calc.map}}
    IN  below[EngineDepth - 1]

-----------------------------------------------------------------------------
(* Properties.                                                             *)

\* The gross requirement of a material is the sum over every path of the bills
\* and every demand, shared sub-assemblies and cycles included, and nothing but
\* materials is planned (explodeBom).
GrossOfAllPaths ==
    calc.pc = "done" =>
        \A item \in Items :
            LET planned == {i \in DOMAIN calc.lines : calc.lines[i].item = item}
            IN  IF GrossNeed(item) = 0 THEN planned = {}
                ELSE \E i \in planned : /\ planned = {i}
                                        /\ calc.lines[i].gross = Round2(GrossNeed(item))

\* What is requested, with the stock of all locations that nobody else has been
\* promised, covers the gross requirement to half a hundredth, and no material
\* that is covered is requested.
RequestedIsShort ==
    calc.pc = "done" =>
        \A l \in Range(calc.lines) :
            LET free == SumFunction([row \in {r \in DOMAIN calc.rows : r[1] = l.item} |->
                          Available(calc.rows[row])])
                short == GrossNeed(l.item) - (Unit(0) * free + Unit(1) * l.net)
            IN  /\ 2 * short <= Unit(1)
                /\ l.net > 0 => 2 * short >= -Unit(1)
                /\ l \in Range(calc.requisitions) <=> l.net > 0

\* Lines come with the most urgent first, and each in time for every demand it is
\* planned for: its order date leaves the lead time before the earliest of them.
OrderedInTime ==
    calc.pc = "done" =>
        /\ \A i, j \in DOMAIN calc.lines : i < j =>
              calc.lines[i].orderBy <= calc.lines[j].orderBy
        /\ \A i \in DOMAIN calc.lines, d \in Range(calc.demands) :
              \A p \in Below(d.item) \cap DOMAIN calc.map : \A l \in Range(calc.map[p]) :
                  l.child = calc.lines[i].item =>
                      calc.lines[i].orderBy <= d.delivery - l.lead

\* What calculate() returns is what the bills, the demands and the stock call for:
\* how much of each material, and how much of it to request.
ComputedIsNeeded == GrossOfAllPaths /\ RequestedIsShort

=============================================================================

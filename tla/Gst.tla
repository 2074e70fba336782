--------------------------------- MODULE Gst ---------------------------------
(***************************************************************************)
(* The money of an invoice: GstService computes it when the invoice is     *)
(* created, EInvoiceService computes it again from the stored lines when   *)
(* the invoice is registered with NIC.  Amounts are in paise, quantities   *)
(* in hundredths, so that a product is in hundredths of a paisa.           *)
(***************************************************************************)
EXTENDS Integers, Sequences, FiniteSets, SequencesExt

CONSTANTS
    ListedCodes,    \* HSN codes of HSN_RATE_MAP: all have four digits
    LongCodes,      \* longer codes
    Prefix,         \* [LongCodes -> the four digits they begin with]
    ListedRate,     \* [ListedCodes -> the rate listed]
    InvoiceInputs,  \* sequences of lines a client may send
    SupplyFlags,    \* isInterState of a DTO: TRUE, FALSE or Absent
    StateCodes,     \* states of sellers and buyers
    Absent          \* a field the DTO leaves out

Slabs == {0, 5, 12, 18, 28}

\* A line a client may send; a rate of tax need not be a slab, nor a code listed.
CreateInvoiceLineDto(line) ==
    /\ line.qty \in Nat \ {0} /\ line.rate \in Nat
    /\ line.gstPct = Absent \/ line.gstPct \in 0 .. 28

ASSUME GstAssumption ==
    /\ ListedRate \in [ListedCodes -> Slabs]
    /\ DOMAIN Prefix = LongCodes
    /\ SupplyFlags \subseteq {TRUE, FALSE, Absent}
    /\ \A lines \in InvoiceInputs :
         lines \in Seq(ToSet(lines)) /\ \A i \in DOMAIN lines : CreateInvoiceLineDto(lines[i])

VARIABLES
    ties,           \* which products that end in a half are rounded up
    bill            \* one invoice: as sent, as stored, as reported to NIC

gstVars == <<ties, bill>>

-----------------------------------------------------------------------------
\* Hundredths of a paisa to paise.  A product that ends in a half is a double
\* just below or above it: which one depends on the product, and on nothing else.
Round2(product) ==
    LET whole == product \div 100
    IN  CASE product % 100 > 50 -> whole + 1
          [] product % 100 < 50 -> whole
          [] OTHER -> CASE ties = "up" -> whole + 1
                        [] ties = "down" -> whole
                        [] ties = "odd" -> whole + (whole % 2)

HsnRate(code) ==
    CASE code \in ListedCodes -> ListedRate[code]
      [] code \in LongCodes /\ Prefix[code] \in ListedCodes -> ListedRate[Prefix[code]]
      [] OTHER -> 12

\* validateRate(): a rate the client gives must be a slab.
RateAccepted(line) == line.gstPct # Absent => line.gstPct \in Slabs

\* resolveRate(): the rate given, the rate of the code, or 12%.
ResolveRate(line) == IF line.gstPct # Absent THEN line.gstPct ELSE HsnRate(line.hsnCode)

\* Mutant: both halves of the tax are rounded.
BugSplit(gst, interState) ==
    IF interState THEN [cgst |-> 0, sgst |-> 0, igst |-> gst]
    ELSE [cgst |-> Round2(gst * 50), sgst |-> Round2(gst * 50), igst |-> 0]

\* SGST is what CGST leaves.
Split(gst, interState) ==
    IF interState THEN [cgst |-> 0, sgst |-> 0, igst |-> gst]
    ELSE [cgst |-> Round2(gst * 50), sgst |-> gst - Round2(gst * 50), igst |-> 0]

Taxable(line) == Round2(line.qty * line.rate)

\* computeLineGst() with the rate of the line; amount is its grandTotal.
LineGst(line, gstPct, interState) ==
    LET gst == Round2(Taxable(line) * gstPct)
    IN  [taxable |-> Taxable(line), gst |-> gst, tax |-> Split(gst, interState),
         amount |-> Taxable(line) + gst]

Sum(lines, field) == FoldLeft(LAMBDA total, l : total + l[field], 0, lines)

SumTax(lines, kind) == FoldLeft(LAMBDA total, l : total + l.tax[kind], 0, lines)

\* computeInvoiceGst(): the totals of the lines.
Summary(breakdowns) ==
    [subtotal |-> Sum(breakdowns, "taxable"), gstAmount |-> Sum(breakdowns, "gst"),
     total |-> Sum(breakdowns, "taxable") + Sum(breakdowns, "gst")]

-----------------------------------------------------------------------------
\* Mutant: the line keeps the rate that was sent.
BugStoredLine(line) ==
    [qty |-> line.qty, rate |-> line.rate,
     gstPct |-> IF line.gstPct = Absent THEN 0 ELSE line.gstPct,
     amount |-> LineGst(line, ResolveRate(line), FALSE).amount]

\* What is stored of a line; whether the supply is inter-state is not stored.
StoredLine(line) ==
    [qty |-> line.qty, rate |-> line.rate, gstPct |-> ResolveRate(line),
     amount |-> LineGst(line, ResolveRate(line), FALSE).amount]

NoBill == [pc |-> "idle", sent |-> <<>>, flag |-> Absent, summary |-> Absent,
           breakdowns |-> <<>>, lines |-> <<>>, payload |-> Absent]

GstInit == ties \in {"up", "down", "odd"} /\ bill = NoBill

Truthy(flag) == flag = TRUE

\* createInvoice() of FinanceService: refused when a rate is not a slab.
CreateBill ==
    /\ bill.pc = "idle"
    /\ \E sent \in InvoiceInputs, flag \in SupplyFlags :
         /\ \A i \in DOMAIN sent : RateAccepted(sent[i])
         /\ LET breakdowns == [i \in DOMAIN sent |->
                                 LineGst(sent[i], ResolveRate(sent[i]), Truthy(flag))]
            IN  bill' = [NoBill EXCEPT !.pc = "stored", !.sent = sent, !.flag = flag,
                           !.breakdowns = breakdowns, !.summary = Summary(breakdowns),
                           !.lines = [i \in DOMAIN sent |-> StoredLine(sent[i])]]
    /\ UNCHANGED ties

\* An item of buildPayload(), computed from a stored line.
Item(line, interState) ==
    LET gst == Round2(Taxable(line) * line.gstPct)
    IN  [taxable |-> Taxable(line), tax |-> Split(gst, interState),
         value |-> Taxable(line) + gst]

\* generateEInvoice(): the supply is inter-state if the request says so, or else
\* if the states it names differ.
InterState(flag, seller, buyer) == IF flag = Absent THEN seller # buyer ELSE flag

\* buildPayload()
ReportBill ==
    /\ bill.pc = "stored"
    /\ \E flag \in SupplyFlags, seller \in StateCodes, buyer \in StateCodes :
         LET items == [i \in DOMAIN bill.lines |->
                         Item(bill.lines[i], InterState(flag, seller, buyer))]
         IN  bill' = [bill EXCEPT !.pc = "reported", !.payload =
               [items |-> items, assVal |-> Sum(items, "taxable"),
                cgst |-> SumTax(items, "cgst"), sgst |-> SumTax(items, "sgst"),
                igst |-> SumTax(items, "igst"),
                totInvVal |-> Sum(items, "taxable") + SumTax(items, "cgst")
                                + SumTax(items, "sgst") + SumTax(items, "igst")]]
    /\ UNCHANGED ties

GstNext == CreateBill \/ ReportBill

GstSpec == GstInit /\ [][GstNext]_gstVars

-----------------------------------------------------------------------------
(* Properties.                                                             *)

Abs(n) == IF n < 0 THEN - n ELSE n

\* No paisa is lost in the sums: the halves of the tax add up to it and differ by
\* a paisa a line at most, the total is the sum of the stored line amounts, and
\* every stored line is taxed at a slab (computeLineGst, computeInvoiceGst).
NoPaisaLost ==
    bill.pc # "idle" =>
        /\ SumTax(bill.breakdowns, "cgst") + SumTax(bill.breakdowns, "sgst")
             + SumTax(bill.breakdowns, "igst") = bill.summary.gstAmount
        /\ Abs(SumTax(bill.breakdowns, "cgst") - SumTax(bill.breakdowns, "sgst"))
             <= Len(bill.lines)
        /\ bill.summary.total = Sum(bill.lines, "amount")
        /\ \A i \in DOMAIN bill.lines : bill.lines[i].gstPct \in Slabs

\* What NIC is told is what the invoice says, line by line and in total, even
\* where the two requests disagree on whether the supply is inter-state: only how
\* the tax is divided may differ (buildPayload).
ReportedAsStored ==
    bill.pc = "reported" =>
        /\ bill.payload.assVal = bill.summary.subtotal
        /\ bill.payload.cgst + bill.payload.sgst + bill.payload.igst = bill.summary.gstAmount
        /\ bill.payload.totInvVal = bill.summary.total
        /\ \A i \in DOMAIN bill.lines : bill.payload.items[i].value = bill.lines[i].amount

\* The amounts of an invoice agree from its lines to what NIC is told.
AmountsAgree == NoPaisaLost /\ ReportedAsStored

=============================================================================

------------------------------ MODULE MCFinance ------------------------------
(***************************************************************************)
(* Invoices, their tax and the token of NIC for TLC.  They share no state: *)
(* a behaviour exercises one of them.                                      *)
(***************************************************************************)
EXTENDS MCInvoices, Gst, NicToken

CONSTANTS yarn, shirt, shirtLong, other, h1, h2, Exercised

VARIABLE subject    \* "invoices", "gst" or "nic"

MCVars == <<subject, vars, gstVars, nicVars>>

MCInit ==
    /\ subject \in Exercised
    /\ Init /\ GstInit /\ NicInit
    /\ subject # "gst" => ties = "up"

MCNext ==
    /\ UNCHANGED subject
    /\ \/ subject = "invoices" /\ Next /\ UNCHANGED <<gstVars, nicVars>>
       \/ subject = "gst" /\ GstNext /\ UNCHANGED <<vars, nicVars>>
       \/ subject = "nic" /\ NicNext /\ UNCHANGED <<vars, gstVars>>

MCSpec == MCInit /\ [][MCNext]_MCVars

-----------------------------------------------------------------------------
\* Quantities in hundredths, rates in paise: products on, below and above a half.
Sent(qty, rate, gstPct, code) ==
    [qty |-> qty, rate |-> rate, gstPct |-> gstPct, hsnCode |-> code]

SomeLines ==
    {Sent(100, 25050, Absent, shirt), Sent(333, 17, Absent, shirtLong), Sent(150, 101, 5, yarn),
     Sent(150, 101, Absent, Absent), Sent(50, 33, 18, Absent), Sent(250, 1, 12, other),
     Sent(125, 1366, Absent, yarn), Sent(7, 50, 28, yarn), Sent(100, 0, 0, Absent),
     Sent(100, 300, 7, other), Sent(101, 1050, Absent, other)}

MCInvoiceInputs == {<<l>> : l \in SomeLines} \cup {<<l, k>> : l, k \in SomeLines}

MCListedRate == (yarn :> 12) @@ (shirt :> 5)

MCPrefix == shirtLong :> shirt

=============================================================================

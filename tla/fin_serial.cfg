SPECIFICATION MCSpec
CONSTANTS
    v1 = v1
    v2 = v2
    r1 = r1
    r2 = r2
    r3 = r3
    r4 = r4
    r5 = r5
    typed = typed
    yarn = yarn
    shirt = shirt
    shirtLong = shirtLong
    other = other
    h1 = h1
    h2 = h2
    None = None
    Absent = Absent
    NoToken = NoToken
    InvoiceIds = {v1, v2}
    Requests = {r1, r2, r3, r4, r5}
    Kinds <- AllKinds
    MaxInFlight = 1
    MayFail = TRUE
    Subtotals = {100}
    GstRates = {0, 12}
    Amounts = {40, 60}
    PatchStatuses <- AllButCancelled
    TypedIrns = {}
    CreditLimit = 170
    Exercised = {"invoices", "gst", "nic"}
    ListedCodes = {yarn, shirt}
    LongCodes = {shirtLong}
    Prefix <- MCPrefix
    ListedRate <- MCListedRate
    InvoiceInputs <- MCInvoiceInputs
    SupplyFlags = {TRUE, FALSE, Absent}
    StateCodes = {yarn, shirt}
    Calls = {h1, h2}
    Lives = {1, 3}
    Buffer = 1
    DefaultLife = 3
    Horizon = 6
SYMMETRY RequestSymmetry
CHECK_DEADLOCK FALSE
INVARIANTS
    NoOverpayment
    PaidIsReceived
    IrnsAgree
    AmountsAgree
PROPERTIES
    TokenTakenByNic

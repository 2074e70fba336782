SPECIFICATION Spec
CONSTANTS
    v1 = v1
    v2 = v2
    r1 = r1
    r2 = r2
    r3 = r3
    r4 = r4
    r5 = r5
    typed = typed
    None = None
    InvoiceIds = {v1}
    Requests = {r1, r2, r3, r4}
    Kinds <- PaymentKinds
    MaxInFlight = 2
    MayFail = FALSE
    Subtotals = {100}
    GstRates = {0}
    Amounts = {60}
    PatchStatuses <- NoPaidByHand
    TypedIrns = {}
    CreditLimit = 0
SYMMETRY RequestSymmetry
CHECK_DEADLOCK FALSE
INVARIANTS
    NoOverpayment

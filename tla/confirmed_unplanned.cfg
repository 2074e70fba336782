SPECIFICATION Spec
CONSTANTS
    o1 = o1
    p1 = p1
    p2 = p2
    c1 = c1
    c2 = c2
    l1 = l1
    w1 = w1
    x = x
    y = y
    u1 = u1
    u2 = u2
    None = None
    MaxRequests = 2
    Orders = {o1}
    LineSets = {x, y}
    LoadedOrders = {}
    Attempts = 3
    MaxFaults = 0
    Pos = {p1, p2}
    PoValues = {1, 2}
    LoadedPos = {"SENT", "ACKNOWLEDGED", "PART_RECEIVED"}
    Cuts = {c1, c2}
    Plans = {l1}
    Wips = {w1}
    Figures = {x, y}
    WipQtys = {0, 1, 2}
    LoadedWork = TRUE
    NewYears = 1
    Users = {u1, u2}
    Tenants = {x}
    Emails = {x, y}
    Passwords = {x, y}
    MaxUsers = 1
    MaxAttempts = 2
    Signed = {u1}
    SignedAs <- SignedIn
    Exercised = {"orders"}
CHECK_DEADLOCK FALSE
PROPERTIES
    ConfirmedIsPlanned

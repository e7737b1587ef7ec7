SPECIFICATION MCSpec
CONSTANTS
    A = A
    B = B
    a1 = a1
    a2 = a2
    b2 = b2
    v = v
    node = node
    r1 = r1
    r2 = r2
    r3 = r3
    s1 = s1
    s2 = s2
    NDirs = 2
    Manifests = {a1, a2, b2}
    NameOf <- KitNames
    RoutesOf <- KitRoutes
    Requires <- KitNeeds
    AuthOf <- KitAuth
    CommandOf <- OneCommand
    Vars = {v}
    Servers = {s1, s2}
    Offers <- TwoServers
    Calls = {c1}
    Gone = Gone
    Broken = Broken
    Foreign = Foreign
    None = None
    MaxEdits = 2
    MaxLoads = 2
INVARIANTS
    RoutesUnambiguous
    ToldCanBeCalled
PROPERTIES
    KitsAreKept
CHECK_DEADLOCK FALSE

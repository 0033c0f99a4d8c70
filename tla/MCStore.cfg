SPECIFICATION Spec
CONSTANTS
    t1 = t1
    t2 = t2
    user = user
    tool = tool
    f1 = f1
    f2 = f2
    a = a
    b = b
    d1 = d1
    d2 = d2
    None = None
    Thread = {t1, t2}
    Creator = t1
    Key <- Keys
    Value <- Values
    User = {user}
    Field = {f1, f2}
    Fact = {a, b}
    Confidence = {0, 7, 10}
    UpdateConf = {0, 10}
    Extractions <- Found
    Tool = {tool}
    Description = {d1, d2}
    Files <- Before
    MaxConns = 6
    Owner <- Owners
    MaxCalls = 3
    MaxRestarts = 1
INVARIANTS NoConnectionLost ClosedIsForgotten RegistryIsStored
PROPERTIES KeepsPromise ExplicitFactsSurvive

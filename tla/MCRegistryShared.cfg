SPECIFICATION Spec
CONSTANTS
    hot = hot
    registrar = registrar
    faulty = faulty
    late = late
    extra = extra
    r1 = r1
    r2 = r2
    r3 = r3
    a1 = a1
    noError = noError
    e1 = e1
    e2 = e2
    Sinks = {hot, registrar, faulty, late, extra}
    Failing = {faulty, extra}
    Registering = {registrar}
    Sampled = {hot}
    Wired <- ThreeWired
    Reporters = {r1, r2, r3}
    Adders = {a1}
    SinkOf <- SinksAdded
    ErrorOf <- SharedError
    NoError = noError
    Empty = Empty
    Nobody = Nobody
    NotYet = NotYet
    Growth = {0, 1, 2, 4, 8}
    MaxReentrant = 2
CHECK_DEADLOCK FALSE
INVARIANT FingerprintWhole

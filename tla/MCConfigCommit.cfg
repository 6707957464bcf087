SPECIFICATION Spec
CONSTANTS
    c1 = c1
    c2 = c2
    u1 = u1
    u2 = u2
    a1 = a1
    CoreUpdates = {c1, c2}
    CustomerUpdates = {u1, u2}
    Activations = {a1}
    Original = Original
    Empty = Empty
    Nil = Nil
    Free = Free
    Scenarios <- MCScenarios
INVARIANT CommittedOnDisk
PROPERTY ImplementsRegister
CHECK_DEADLOCK FALSE

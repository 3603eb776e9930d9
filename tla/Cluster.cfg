SPECIFICATION Spec
CONSTANTS
    f = f
    a = a
    b = b
    c = c
    s = s
    None = None
    Torn = Torn
    Node = {f, a, b, c, s}
    Founder = f
    Stranger = {s}
    MaxRestarts = 1
CONSTRAINT Short
SYMMETRY Alike
INVARIANTS Inv KeptByContact JoinerKnows KeyKept
CHECK_DEADLOCK FALSE

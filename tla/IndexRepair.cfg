SPECIFICATION Spec
CONSTANTS
    in = in
    re1 = re1
    re2 = re2
    emb = emb
    del = del
    soft = soft
    Ops = {in, re1, re2, emb, del, soft}
    NoOp = NoOp
    Kind <- MCKind
    OnDelete = "restrict"
    AtOnce = 2
    MaxOps = 3
    MaxFaults = 1
INVARIANTS Repaired
CHECK_DEADLOCK FALSE

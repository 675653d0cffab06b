SPECIFICATION Spec
CONSTANTS
    t1 = t1
    t2 = t2
    t3 = t3
    n1 = n1
    n2 = n2
    n3 = n3
    n4 = n4
    a = a
    b = b
    c = c
    End = End
    None = None
    Threads = {t1, t2, t3}
    Nodes = {n1, n2, n3}
    Items = {a, b, c}
    Recycles = TRUE
SYMMETRY Alike
INVARIANTS
    QueueWhole
PROPERTIES
    PopsWhatWasLinked

SPECIFICATION FairSpec
CONSTANTS
    t1 = t1
    t2 = t2
    n1 = n1
    n2 = n2
    n3 = n3
    a = a
    b = b
    None = None
    Threads = {t1, t2}
    Nodes = {n1, n2, n3}
    Items = {a, b}
    SeqMod = 2
INVARIANTS
    TypeOK
    ListWhole
PROPERTIES
    IsItemStack
    LockFree

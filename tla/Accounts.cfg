SPECIFICATION Spec
CONSTANTS
    Calls = {k1, k2}
    Users = {root, bob}
    Bootstrap = root
    Sessions = {s1, s2}
    Tokens = {t1}
    None = None
    Unused = Unused
    Deleted = Deleted
SYMMETRY Symmetric
INVARIANTS WipesAreComplete
PROPERTIES BarredAreRejected OnlyOwnersRevoke

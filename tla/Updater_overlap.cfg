CONSTANTS
    Updaters = {u1, u2}
    Checkers = {}
    Manifests <- OneManifest
    None = None
    Old = Old
    Partial = Partial
    Mixed = Mixed
SYMMETRY Symmetry
SPECIFICATION Spec
INVARIANT RollbackHasPrevious

CONSTANTS
    Updaters = {u1, u2}
    Checkers = {}
    Manifests <- MCManifests
    None = None
    Old = Old
    Partial = Partial
    Mixed = Mixed
SYMMETRY Symmetry
SPECIFICATION Spec
CONSTRAINT Undisturbed
INVARIANTS BackupIsRecoverable PartIsBound SwapIsAuthorized
PROPERTIES OutcomeIsTrue FloorNeverFalls

CONSTANTS
    Updaters = {u1}
    Checkers = {}
    Manifests <- MCManifests
    None = None
    Old = Old
    Partial = Partial
    Mixed = Mixed
SPECIFICATION Spec
INVARIANT InstallationSurvives

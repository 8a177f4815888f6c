CONSTANTS
    Files <- Corpus
    Filled <- FindAnObject
    Cpus = {c1, c2}
SYMMETRY AnyCpu
SPECIFICATION Spec
INVARIANTS
    TypeOK
    SafeSteps
    NothingLeft
    DeclaredVerdict

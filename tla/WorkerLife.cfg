\* Two worker threads, every call may fail, the process is killed and the
\* power fails at any point.
SPECIFICATION LifeSpec
CONSTANTS
    sha256 = sha256
    sha512 = sha512
    k1 = k1
    Algs = {sha256, sha512}
    DefaultAlg = sha256
    Keys = {k1}
    Garbled = Garbled
    NoFile = NoFile
    NoState = NoState
    Workers = {t1, t2}
    Confs <- SomeConfs
    OldStates <- SomeOldStates
    SignInterval = 2
    MaxSeq = 2
SYMMETRY AnyThread
INVARIANTS
    LifeTypeOK
    HeapIsOwned
    RestsWithItsOwn
    AtMostOneChain
    CountsWorkers
    LifeInv
PROPERTIES
    ImplementsStateFile

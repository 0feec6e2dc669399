\* Crashes and tolerated failures, plain verifier, raw public key.
SPECIFICATION Spec
CONSTANTS
    k1 = k1
    k2 = k2
    sha256 = sha256
    m1 = m1
    m2 = m2
    Algs = {sha256}
    Keys = {k1}
    Msgs = {m1}
    EmptyMsg = EmptyMsg
    NoSD = NoSD
    NoKey = NoKey
    NoSig = NoSig
    NoChain = NoChain
    NoState = NoState
    NoWorker = NoWorker
    NoLine = NoLine
    NoAlg = NoAlg
    Confs <- VaryingConfs
    SignInterval = 3
    Standalone = TRUE
    Faults = {"crash", "init", "final", "hash", "cert", "save"}
    MaxSeq = 7
    CertifiedKeys = {k1}
    MaxErrors = 3
    Opts <- KeyOpts
    MaxLog = 6
INVARIANTS
    NoFalseAlarm
    StateFileMatchesLog
    IInv
    TailInv
PROPERTIES
    ImplementsChainLog

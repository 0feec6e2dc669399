\* Every call may fail, every configuration, CA-bundle verifier.
SPECIFICATION Spec
CONSTANTS
    k1 = k1
    k2 = k2
    sha256 = sha256
    sha512 = sha512
    m1 = m1
    m2 = m2
    Algs = {sha256, sha512}
    Keys = {k1, k2}
    Msgs = {m1}
    EmptyMsg = EmptyMsg
    NoSD = NoSD
    NoKey = NoKey
    NoSig = NoSig
    NoChain = NoChain
    NoState = NoState
    NoWorker = NoWorker
    NoLine = NoLine
    NoAlg = NoAlg
    Confs <- AnyConfs
    SignInterval = 2
    Standalone = TRUE
    Faults = {"crash", "init", "final", "hash", "sign", "payload", "newsd", "cert", "load", "save", "unlink"}
    MaxSeq = 2
    CertifiedKeys = {k1}
    MaxErrors = 3
    Opts <- BundleOpts
    MaxLog = 2
INVARIANTS
    TypeOK
    CountersAgree

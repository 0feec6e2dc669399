\* A rotated certificate, CA-bundle verifier.
SPECIFICATION Spec
CONSTANTS
    k1 = k1
    k2 = k2
    sha256 = sha256
    m1 = m1
    m2 = m2
    Algs = {sha256}
    Keys = {k1, k2}
    Msgs = {m1}
    EmptyMsg = EmptyMsg
    NoSD = NoSD
    NoKey = NoKey
    NoSig = NoSig
    NoChain = NoChain
    NoState = NoState
    NoWorker = NoWorker
    NoLine = NoLine
    NoAlg = NoAlg
    Confs <- RotatingConfs
    SignInterval = 3
    Standalone = FALSE
    Faults = {}
    MaxSeq = 7
    CertifiedKeys = {k1, k2}
    MaxErrors = 3
    Opts <- BundleOpts
    MaxLog = 6
INVARIANTS
    NoFalseAlarm

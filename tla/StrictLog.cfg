\* Graceful restarts only, strict verifier: nothing may stay unsigned.
SPECIFICATION FairSpec
CONSTANTS
    k1 = k1
    k2 = k2
    sha256 = sha256
    m1 = m1
    m2 = m2
    Algs = {sha256}
    Keys = {k1}
    Msgs = {m1}
    EmptyMsg = EmptyMsg
    NoSD = NoSD
    NoKey = NoKey
    NoSig = NoSig
    NoChain = NoChain
    NoState = NoState
    NoWorker = NoWorker
    NoLine = NoLine
    NoAlg = NoAlg
    Confs <- VaryingConfs
    SignInterval = 3
    Standalone = TRUE
    Faults = {"init", "hash", "cert"}
    MaxSeq = 8
    CertifiedKeys = {k1}
    MaxErrors = 3
    Opts <- StrictOpts
    MaxLog = 7
INVARIANTS
    NoFalseAlarm
    IInv
PROPERTIES
    ImplementsChainLog
    TailHandedOver
    SavedTailEventuallySigned

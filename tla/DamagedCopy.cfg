\* Any two incidents to the stored copy, failing calls, every kind of run.
SPECIFICATION AuditSpec
CONSTANTS
    k1 = k1
    k2 = k2
    sha256 = sha256
    m1 = m1
    m2 = m2
    Algs = {sha256}
    Keys = {k1}
    Msgs = {m1}
    EmptyMsg = EmptyMsg
    NoSD = NoSD
    NoKey = NoKey
    NoSig = NoSig
    NoChain = NoChain
    NoState = NoState
    NoWorker = NoWorker
    NoLine = NoLine
    NoAlg = NoAlg
    Confs <- CertConfs
    SignInterval = 2
    Standalone = FALSE
    Faults = {}
    MaxSeq = 5
    CertifiedKeys = {k1}
    MaxErrors = 3
    Opts <- KeyOpts
    MaxLog = 4
    AuditFaults = {"digest", "store", "read"}
    MaxIncidents = 2
    AuditOpts <- AllOpts
    Incidents = {"lose", "repeat", "swap", "alter", "element", "rehash"}
INVARIANTS
    AuditTypeOK
    UndamagedPasses
    AcceptedIsAuthentic
    StrictSegmentsSigned
    SignedRangesTile
    AuditIInv
    HonestIInv

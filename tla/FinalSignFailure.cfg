\* A failing signature on the first message after a restart.
SPECIFICATION Spec
CONSTANTS
    k1 = k1
    k2 = k2
    sha256 = sha256
    m1 = m1
    m2 = m2
    Algs = {sha256}
    Keys = {k1}
    Msgs = {m1}
    EmptyMsg = EmptyMsg
    NoSD = NoSD
    NoKey = NoKey
    NoSig = NoSig
    NoChain = NoChain
    NoState = NoState
    NoWorker = NoWorker
    NoLine = NoLine
    NoAlg = NoAlg
    Confs <- SteadyConfs
    SignInterval = 3
    Standalone = FALSE
    Faults = {"final"}
    MaxSeq = 7
    CertifiedKeys = {k1}
    MaxErrors = 3
    Opts <- KeyOpts
    MaxLog = 6
PROPERTIES
    TailHandedOver

\* Every small message, signed by one signer and by a relay after it.
SPECIFICATION TextSpec
CONSTANTS
    Hosts <- HostValues
    ClientSDs <- ClientElements
    Texts <- MsgTexts
    HdrMaxLen = 9
    MsgBufLen = 24
    MaxHops = 2
INVARIANTS
    TextTypeOK
    TextInv
    ReadsBackExactly
    StripsOnlyOurs
PROPERTIES
    ResigningIsStable
CHECK_DEADLOCK FALSE

SPECIFICATION FairSpec
CONSTANTS
    t1 = t1
    t2 = t2
    Addr <- Clash
    Text = {t1, t2}
    NoText = NoText
    None = None
INVARIANTS
    TypeOK
    TablesSound
    Copied
    GrowsForStranger
PROPERTIES
    Implements
    SetReturns

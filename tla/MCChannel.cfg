SPECIFICATION FairSpec
CONSTANTS
    Senders = {s1, s2}
    Receivers = {r1, r2}
    Openers = {s1, r1}
    None = None
    MAX = 2
    Killable = {s1}
    NonBlocking = {s1, r1}
    MaxCall = 2
    s1 = s1
    MaxSent <- MCMaxSent
INVARIANTS
    TypeOK
    PlacesConserved
    BytesInOrder
    SleepersJustified
    EndGoesWithLastFile
PROPERTIES
    WritersReturn
CHECK_DEADLOCK FALSE

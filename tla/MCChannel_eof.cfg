SPECIFICATION FairSpec
CONSTANTS
    Senders = {s1}
    Receivers = {r1}
    Openers = {s1, r1}
    None = None
    MAX = 1
    Killable = {s1, r1}
    NonBlocking = {s1, r1}
    MaxCall = 1
    s1 = s1
    MaxSent <- MCMaxSent
PROPERTIES
    ReadersSeeEof
CHECK_DEADLOCK FALSE

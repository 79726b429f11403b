SPECIFICATION FairSpec
CONSTANTS
    t1 = t1
    t2 = t2
    offer = offer
    bye = bye
    long = long
    Threads = {t1, t2}
    Plaintexts = {offer, bye, long}
    Oversize = {long}
    Faulty = FALSE
    CarefulDriver = TRUE
    MaxHandshakes = 1
    MaxSealed <- ThreeAndOne
INVARIANT
    TypeOK
PROPERTIES
    ImplementsChannel
    SessionOpens
    EveryMessageArrives
CHECK_DEADLOCK FALSE

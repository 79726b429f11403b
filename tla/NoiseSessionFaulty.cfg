SPECIFICATION Spec
CONSTANTS
    t1 = t1
    t2 = t2
    offer = offer
    bye = bye
    long = long
    Threads = {t1, t2}
    Plaintexts = {offer, bye}
    Oversize = {}
    Faulty = TRUE
    CarefulDriver = FALSE
    MaxHandshakes = 2
    MaxSealed <- OneDirection
SYMMETRY Symmetry
INVARIANTS
    NoNonceReuse
    OpenedByBothHandshakes
PROPERTIES
    ImplementsChannel
CHECK_DEADLOCK FALSE

\* Two overlapping requests: every way to ask for, answer, withdraw or take away one item.
SPECIFICATION Spec
CONSTANTS
    olga = olga
    rita = rita
    sam = sam
    loaf = loaf
    soup = soup
    d1 = d1
    d2 = d2
    s1 = s1
    s2 = s2
    NoSession = NoSession
    NoDonation = NoDonation
    NoItem = NoItem
    Users = {olga, rita, sam}
    Admins = {}
    Items = {loaf}
    Donations = {d1, d2}
    Owner <- MCOwner
    ItemOf <- MCItemOf
    RecipientOf <- MCRecipientOf
    Horizon = 1
    Sessions = {s1, s2}
    Ops = {"request", "accept", "decline", "complete", "cancel", "withdraw", "remove", "sweep"}
SYMMETRY Symmetry
INVARIANT TypeOK
INVARIANT LockDiscipline
INVARIANT NoStrandedReservation
INVARIANT EveryStatusWasAnnounced
INVARIANT DonatedWasHandedOver
PROPERTY OnlyStaleReadsDeviate
PROPERTY EndedMovesNeedARace
CHECK_DEADLOCK FALSE

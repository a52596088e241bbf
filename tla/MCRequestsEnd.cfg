\* Every request ends, with fair scheduling and fair lock queues.
SPECIFICATION FairSpec
CONSTANTS
    olga = olga
    rita = rita
    sam = sam
    loaf = loaf
    soup = soup
    d1 = d1
    d2 = d2
    s1 = s1
    s2 = s2
    NoSession = NoSession
    NoDonation = NoDonation
    NoItem = NoItem
    Users = {olga, rita, sam}
    Admins = {}
    Items = {loaf}
    Donations = {d1}
    Owner <- MCOwner
    ItemOf <- MCItemOf
    RecipientOf <- MCRecipientOf
    Horizon = 1
    Sessions = {s1, s2}
    Ops = {"request", "accept", "decline", "remove", "sweep"}
PROPERTY RequestsEnd
CHECK_DEADLOCK FALSE

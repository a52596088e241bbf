\* Two requests for one loaf.
SPECIFICATION Spec
CONSTANTS
    olga = olga
    rita = rita
    sam = sam
    loaf = loaf
    soup = soup
    d1 = d1
    d2 = d2
    s1 = s1
    s2 = s2
    NoSession = NoSession
    NoDonation = NoDonation
    NoItem = NoItem
    Users = {olga, rita, sam}
    Admins = {}
    Items = {loaf}
    Donations = {d1, d2}
    Owner <- MCOwner
    ItemOf <- MCItemOf
    RecipientOf <- MCRecipientOf
    Horizon = 1
    Sessions = {s1, s2}
    Ops = {"request"}
SYMMETRY Symmetry
INVARIANT OnlyOneRequestSucceeds
CHECK_DEADLOCK FALSE

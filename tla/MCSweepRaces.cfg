\* Two items that expire and are swept while requests, answers and edits of the owner overlap.
SPECIFICATION Spec
CONSTANTS
    olga = olga
    rita = rita
    sam = sam
    loaf = loaf
    soup = soup
    d1 = d1
    d2 = d2
    s1 = s1
    s2 = s2
    NoSession = NoSession
    NoDonation = NoDonation
    NoItem = NoItem
    Users = {olga, rita, sam}
    Admins = {}
    Items = {loaf, soup}
    Donations = {d1, d2}
    Owner <- MCOwner
    ItemOf <- MCItemOf
    RecipientOf <- MCRecipientOf
    Horizon = 2
    Sessions = {s1, s2}
    Ops = {"request", "decline", "cancel", "update", "remove", "sweep"}
SYMMETRY SessionSymmetry
INVARIANT DeadlockNeedsTwoSweeps
PROPERTY OwnerEditsSurvive
CHECK_DEADLOCK FALSE

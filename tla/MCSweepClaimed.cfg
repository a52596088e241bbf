\* The sweep expires a reserved item.
SPECIFICATION Spec
CONSTANTS
    olga = olga
    rita = rita
    sam = sam
    adm = adm
    loaf = loaf
    soup = soup
    d1 = d1
    d2 = d2
    d3 = d3
    Users = {olga, rita, sam, adm}
    Admins = {adm}
    Items = {loaf, soup}
    Donations = {d1, d2, d3}
    Owner <- MCOwner
    ItemOf <- MCItemOf
    RecipientOf <- MCRecipientOf
    Horizon = 2
INVARIANT OpenDonationCanBeReleased
CHECK_DEADLOCK FALSE

\* Sign-ins, exchanges and sign-outs that overlap, at half-second resolution.
SPECIFICATION Spec
CONSTANTS
    NoUser = NoUser
    NoPair = NoPair
    NoToken = NoToken
    Users = {u1}
    Pairs = {p1, p2}
    Calls = {c1, c2}
    Second = 2
    AccessTtl = 2
    RefreshTtl = 4
    Horizon = 3
    MixedPairs = FALSE
SYMMETRY Symmetry
INVARIANT TypeOK
INVARIANT RotatedIsSpent
INVARIANT SignedOutIsSpent
INVARIANT InactiveIsOut
PROPERTY SpentForGood
CHECK_DEADLOCK FALSE

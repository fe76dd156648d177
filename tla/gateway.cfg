SPECIFICATION LiveSpec
CONSTANTS
    Conns = {1, 2}
    TokensOf <- MCTokensOf
    Docs = {"d", "e"}
    DocMeta <- MCDocMeta
    Guests <- MCGuests
    Lapsing <- MCLapsing
    Cap = 2
    Room = 1
    NoToken = NoToken
    NoPlace = NoPlace
    NoOwner = NoOwner
    Coincide = {}
INVARIANTS
    LimitsHold
    JoinedOnly
PROPERTIES
    LapsedLeaves
    Served

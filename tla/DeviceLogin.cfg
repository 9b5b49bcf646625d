\* Two clients with one code; two browsers, of one account or of two.
SPECIFICATION FairLoginSpec
CONSTANTS
    ann = ann
    bob = bob
    v1 = v1
    v2 = v2
    cli = cli
    web = web
    People <- TwoPeople
    Visits <- TwoVisits
    Clients <- TwoClients
    MaxLosses = 1
CHECK_DEADLOCK FALSE
INVARIANTS
    TokenGivenOnceUnlessContested
    SignedInWorks
PROPERTIES
    ApprovedGetsIn
    LoginEnds

SPECIFICATION Spec
CONSTANTS
    Client = {1, 2, 3}
    OrgOf <- Orgs
    MinterOrg = "Org1MSP"
    Operator = {2}
    MaxInt = 3
    Amounts20 <- Amounts
    Id1155 = {"i", "j"}
    Batch1155 <- Items
    MaxSupply1155 = 3
    TokenId = {"t1", "t2"}
    NoClient = NoClient
    AmountsU = {1, 2}
    MaxTxU = 3
    MaxIns = 2
    MaxOuts = 2
    Price = {0, 1, 2}
    MaxBid = 2
    MaxCreate = 2
    NoBidder = NoBidder
    PriceD = {1, 2}
    QuantityD = {1, 2}
    MaxBidD = 2
    NoSeller = NoSeller
    PriceS = {1, 2}
    Props = {"p", "q"}
    RealProps = "p"
    Nothing = Nothing
    MaxAgree = 2
    Appraisal = {1, 2}
    NoneP = NoneP
    MaxAgreeP = 1
    AssetId = {"a1", "a2"}
    Color = {"red", "blue"}
    Owner = {"x", "y"}
    InitialAsset <- FirstAssets
    Delta = {1, 2}
    MaxTxH = 4
INVARIANT AssetsConserved
INVARIANT AuctionsFair
INVARIANT AgreementsKept
PROPERTY TokensAreLedgers
CHECK_DEADLOCK FALSE

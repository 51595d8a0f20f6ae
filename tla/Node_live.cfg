SPECIFICATION FairSpec
CONSTANTS
    Req = {"r1", "r2"}
    ReqTypes = {"tokenPoolConfirm"}
    MaxEvents = 2
    Call = {1, 2, 3, 4, 5}
    TogetherO <- CallsLive
    KeyOf <- Keys
    NoKey = "none"
    KindOf <- Kinds
    Writer = {"w1", "w2"}
    BatchMax = 2
    MaxRollbacks = 1
    MaxRestarts = 1
    Batches = {1}
    BlobsOf <- OneBlob
    Worker = {"d1", "d2"}
    QueueLength = 3
    MaxAttempts = 2
    RecoveryPage = 2
    MaxStops = 1
    Stream <- Pins
    AuthorOf <- Authors
    DefinesGroup = {"g"}
    LateBlob = {"m1"}
    Forged = {}
    Members <- GroupMembers
    GroupIsLocal = FALSE
    PageMP = 2
    MaxFailsMP = 1
    BatchBD = {1, 2, 3, 4}
    KindBD <- BatchKinds
    NodesBD <- BatchNodes
    LocalNode = "me"
    BlobsBD <- BatchBlobs
    MaxFailsBD = 1
    CallMW = {1, 2, 3, 4}
    KeyMW <- MessageKeys
    NoKeyMW = ""
    GroupMW <- MessageGroups
    NoGroup = ""
    WorkerMW = {"w1", "w2"}
    MaxInserts = 4
    SameName = TRUE
    MaxFailsMW = 1
    EventIN <- Inbounds
    SentIN <- TogetherLive
    MsgsIN <- BatchMsgs
    OwnIN = {"o"}
    Peers = {"n"}
    WorkerIN = {1}
    MaxBlobs = 1
    MaxFaultsIN = 1
    ConnS = {1}
    MaxVersion = 2
    MaxEphemeral = 1
    SubT = {"s", "r", "b"}
    EventsT <- SocketEvents
    BatchedT = {"b"}
    AutoAckT = {TRUE, FALSE}
    AckFormsT = {"full", "id", "none"}
    HookEvents <- Hooks
    HookModes <- AllModes
    Identity = {"P", "C"}
    TypeID <- IdentityTypes
    ParentID <- Parents
    NameID <- IdentityNames
    KeyID <- IdentityKeys
    NoParent = "none"
    MaxUpdates = 1
    PageID = 2
    MaxFailsID = 1
    Plain = {"v", "self"}
    DidPaths <- Dids
    ConfigFiles <- Files
    CategoryOf <- Categories
    MaxReloads = 1
    MaxFailsN = 1
    TxDB = {1, 2}
    RowsDB <- Rows
    FirstDB <- FirstRows
    NsTK = {1}
    Creator = 1
    TransfersTK <- Transfers
    ApprovalsTK <- Approvals
    MaxFailsTK = 1
    PluginsC = {"ethereum", "fabric"}
    NsC = {1}
    NetOf <- Networks
    VersionOf <- Versions
    ChainC <- ChainPins
    ListenC = {1}
    BatchC = 2
    MaxFailsC = 1
    MaxRestartsC = 0
    MaxListenersC = 1
    KindsDF = {"interface", "api", "datatype"}
    MembersDF = {1, 2}
    DefsDF <- SomeDefs
    NetsDF = {"n"}
    MaxMsgsDF = 2
    Parts = {"bridge", "operations", "downloads", "privatePins", "inbound", "identities", "namespaces", "connector"}
PROPERTY CallersAnswered
PROPERTY AllReceived
PROPERTY WaitersReleased
CHECK_DEADLOCK FALSE

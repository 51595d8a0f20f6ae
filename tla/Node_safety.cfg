SPECIFICATION Spec
CONSTANTS
    Req = {"r1", "r2"}
    ReqTypes = {"messageReply", "tokenPoolConfirm"}
    MaxEvents = 2
    Call = {1, 2, 3, 4, 5}
    TogetherO <- CallsTogether
    KeyOf <- Keys
    NoKey = "none"
    KindOf <- Kinds
    Writer = {"w1", "w2"}
    BatchMax = 2
    MaxRollbacks = 1
    MaxRestarts = 0
    Batches = {1}
    BlobsOf <- OneBlob
    Worker = {"d1", "d2"}
    QueueLength = 1
    MaxAttempts = 2
    RecoveryPage = 2
    MaxStops = 2
    Stream <- Pins
    AuthorOf <- Authors
    DefinesGroup = {"g"}
    LateBlob = {"m1"}
    Forged = {}
    Members <- GroupMembers
    GroupIsLocal = FALSE
    PageMP = 2
    MaxFailsMP = 1
    BatchBD = {1, 2, 3, 4}
    KindBD <- BatchKinds
    NodesBD <- BatchNodes
    LocalNode = "me"
    BlobsBD <- BatchBlobs
    MaxFailsBD = 1
    CallMW = {1, 2, 3, 4}
    KeyMW <- MessageKeys
    NoKeyMW = ""
    GroupMW <- MessageGroups
    NoGroup = ""
    WorkerMW = {"w1", "w2"}
    MaxInserts = 4
    SameName = TRUE
    MaxFailsMW = 1
    EventIN <- Inbounds
    SentIN <- Together
    MsgsIN <- BatchMsgs
    OwnIN = {"o"}
    Peers = {"n"}
    WorkerIN = {1}
    MaxBlobs = 1
    MaxFaultsIN = 1
    ConnS = {1}
    MaxVersion = 2
    MaxEphemeral = 1
    SubT = {"s", "r", "b"}
    EventsT <- SocketEvents
    BatchedT = {"b"}
    AutoAckT = {TRUE, FALSE}
    AckFormsT = {"full", "id", "none"}
    HookEvents <- Hooks
    HookModes <- AllModes
    Identity = {"P", "C", "D", "N"}
    TypeID <- IdentityTypes
    ParentID <- Parents
    NameID <- IdentityNames
    KeyID <- IdentityKeys
    NoParent = "none"
    MaxUpdates = 0
    PageID = 2
    MaxFailsID = 0
    Plain = {"v", "self"}
    DidPaths <- Dids
    ConfigFiles <- FilesTwo
    CategoryOf <- Categories
    MaxReloads = 2
    MaxFailsN = 0
    TxDB = {1, 2}
    RowsDB <- Rows
    FirstDB <- FirstRows
    NsTK = {1}
    Creator = 1
    TransfersTK <- Transfers
    ApprovalsTK <- Approvals
    MaxFailsTK = 1
    PluginsC = {"ethereum"}
    NsC = {1, 2}
    NetOf <- Networks
    VersionOf <- Versions
    ChainC <- ChainPins
    ListenC = {1}
    BatchC = 1
    MaxFailsC = 0
    MaxRestartsC = 1
    MaxListenersC = 1
    KindsDF = {"interface", "api", "datatype"}
    MembersDF = {1, 2}
    DefsDF <- SomeDefs
    NetsDF = {"n"}
    MaxMsgsDF = 2
    Parts = {"bridge", "operations", "downloads", "privatePins", "dispatch", "writer", "inbound", "subscriptions", "websocket", "webhook", "identities", "routes", "namespaces", "store", "tokens", "connector", "definitions"}
INVARIANT RequestsOnce
INVARIANT SentFaithfully
INVARIANT ReceivedFaithfully
INVARIANT PrivateOrder
INVARIANT DeliveredAsSubscribed
INVARIANT NetworkAgrees
INVARIANT ServedAsDocumented
INVARIANT TablesConsistent
INVARIANT TokensAddUp
INVARIANT ChainFollowed
PROPERTY RecordsKept
CHECK_DEADLOCK FALSE

\* Assets, parties, access, commerce and contents, one of them at a time.
SPECIFICATION Spec
CONSTANTS
    Tenants = {o1, o2}
    Contents = {x, y}
    Holds = {"litigation"}
    Gone = Gone
    MaxBlobs = 2
    MaxAssets = 2
    MaxVersions = 2
    MaxRenditions = 2
    MaxCollections = 1

    PartyTenants = {"t1", "t2"}
    Identifiers = {mail, vat}
    RelationKinds = {"part_of", "owns"}
    MaxParties = 4

    Permissions = {"write"}
    Resources = {"room1", "room2", "elsewhere"}
    ForeignResources = {"elsewhere"}
    Subjects = {"s1", "s2"}
    BuiltinRoles <- MCBuiltinRoles
    Anywhere = "anywhere"
    Assurances = {0, 1}
    GrantInputs <- MCGrantInputs
    DelegationInputs <- MCDelegationInputs
    PolicyInputs <- MCPolicyInputs
    MaxPrincipals = 2
    MaxGroups = 1
    MaxRoles = 2
    MaxSources = 2
    MaxIdentities = 2
    MaxAccessTime = 3

    Products = {"laptop", "chair"}
    AllowedProducts = {"laptop"}
    Quantities = {1, 2}
    Keys = {"k1", "k2"}
    InitialStock <- MCInitialStock
    InitialBudget = 2
    Released = Released
    MaxCarts = 1
    MaxLines = 2
    MaxCalls = 2

    Organizations = {"org", "other"}
    Websites = {"main", "jobs", "foreign"}
    WebsiteOrg <- MCWebsiteOrg
    Datas = {"old", "new"}
    Connections = {1, 2}
    AssignmentInputs <- MCAssignmentInputs
    NoRow = NoRow
    Idle = Idle
    MaxContents = 1
    MaxHistory = 3
    MaxTime = 4
SYMMETRY Sym
\* Stores that are full and clocks that have stopped end a behaviour.
CHECK_DEADLOCK FALSE
INVARIANTS
    FoundationInv
    SharingIsExact
    InfectedIsNotActive
    RedirectsResolve
    HierarchyIsComplete
    ListingAgrees
    BooksBalance
    ConfirmedIsBacked
    OneOrderPerKey
PROPERTIES
    HeldIsKept
    TakingGivesNothing

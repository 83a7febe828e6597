SPECIFICATION Spec
CONSTANTS
    Versions = {v1, v2}
    Serials = {s1,s2}
    ConfigNames = {"","e"}
    GroupNames = {"g"}
    ProxyNames = {p1,p2}
    HwIds = {h1}
    Settings = {a}
    MaxRows = 2
    Null = Null
    MaxActivated = 1
SYMMETRY Symmetry
INVARIANTS
    TypeOK
    References
    OnlyIdleNodesBlock
    UpdateIsExact
    ItemsAgree
PROPERTIES
    NodesInUpdateStay
    VersionsAreIsolated

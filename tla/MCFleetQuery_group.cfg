SPECIFICATION Spec
CONSTANTS
    Versions = {v1}
    Serials = {s1}
    ConfigNames = {""}
    GroupNames = {"g", "k"}
    ProxyNames = {p1}
    HwIds = {h1}
    Settings = {a}
    MaxRows = 2
    Null = Null
    MaxActivated = 1
INVARIANT GroupUpdateIsOfGroup

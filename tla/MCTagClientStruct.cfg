SPECIFICATION Spec
CONSTANTS
    CTag = {"A", "T", "S"}
    PTag = {"P"}
    Program = "X"
    NoTag = "no_tag"
    Pseudo = 9
    Bit = {"b"}
    MaxReply = 6
    PageSize = 2
    MaxServices = 2
    Task = {"t1", "t2"}
    Initial <- MCInitial
    Shape <- MCShape
    Template <- MCTemplate
    Definition <- MCDefinition
    Address <- MCAddress
    Extent <- MCExtent
    Calls <- StructCalls
    ForeignRequest <- MCForeign
INVARIANTS
    StructWhole
CHECK_DEADLOCK FALSE

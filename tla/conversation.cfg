SPECIFICATION Spec
CONSTANTS
    Ada = Ada
    Bob = Bob
    Kinds <- Texts
    PageSize = 2
    MaxLog = 3
    MaxDrafts = 1
    MaxDrops = 1
    MaxBusy = 1
INVARIANTS OnlyAuthorsAlter  TypedIsKept
PROPERTIES ListCatchesUp
CHECK_DEADLOCK FALSE

SPECIFICATION FairSpec
CONSTANTS
    VM = {v1, v2}
    Box = {b1}
    NoBox = NoBox
    NoVM = NoVM
    FreeListCap = 1
    MaxRefs = 1
INVARIANTS TypeOK StopTheWorld NoDangling ParkedRootsKept PoolClean NoSleeperForgotten
PROPERTIES TraceFrozen ImplementsManagedHeap WaitsEnd

SPECIFICATION Spec
CONSTANTS
    Chats = {"c1", "c2"}
    Runs = {r1, r2, r3}
    NoRun = NoRun
    MaxId = 4
SYMMETRY RunSymmetry
INVARIANTS TypeOK CurrentOrCancelled NoOrphanEntry OneUncancelledRun
PROPERTY EntryRemovedByOwner

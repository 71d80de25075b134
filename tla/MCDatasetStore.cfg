CONSTANTS
    split = split
    solo = solo
    x = x
    y = y
    r1 = r1
    r2 = r2
    None = None
    Hole = Hole
    Datasets = {split, solo}
    Blocks = {x, y}
    Requests = {r1, r2}
    Declared <- MCDeclared
    ChunkSize <- MCChunkSize
    Offered <- MCOffered
SPECIFICATION Spec
SYMMETRY MCSymmetry
INVARIANTS
    TypeOK
    CommittedFileIsWhole
    ChunksMatchRows
    RowsAreReferenced
    BoundStays
    RestIsClean

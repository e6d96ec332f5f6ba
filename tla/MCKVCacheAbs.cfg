CONSTANTS
    r1 = r1
    r2 = r2
    h1 = h1
    h2 = h2
    h3 = h3
    Request = {r1, r2}
    Block = {b1, b2, b3, b4}
    Hash = {h1, h2, h3}
    NoHash = NoHash
    BlockHash <- MCBlockHash
    MaxFull = 2
SPECIFICATION Spec
SYMMETRY Symmetry
INVARIANTS
    RefExact
    Isolation
    IInv

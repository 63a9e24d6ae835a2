CONSTANTS
    W = 6
    R <- SmallR
    Cells = {p, q}
    Contents <- SmallContents
SPECIFICATION Spec
INVARIANTS TypeOK ComputesProduct PartialProduct
CHECK_DEADLOCK FALSE

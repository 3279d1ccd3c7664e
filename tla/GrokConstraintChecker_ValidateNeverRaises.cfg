CONSTANTS
    GpuCounts = {8, 16}
    Factors = {1, 2, 4}
    Missing = Missing
SPECIFICATION Spec
INVARIANT ValidateNeverRaises

SPECIFICATION Spec
CONSTANTS
    i1 = i1
    i2 = i2
    i3 = i3
    d0 = d0
    d1 = d1
    d2 = d2
    d3 = d3
    d4 = d4
    d5 = d5
    d6 = d6
    None = None
    Instances = {i1, i2, i3}
    Jobs <- StripJobs
INVARIANT
    StrippingKeepsTheTable

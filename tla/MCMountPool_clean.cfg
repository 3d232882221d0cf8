SPECIFICATION PoolSpec
CONSTANTS
    d1 = d1
    d2 = d2
    d3 = d3
    Devs <- ThreeDevs
    Stubborn <- TwoDevs
    MaxTmp = 2
SYMMETRY Symmetry
INVARIANT NothingForgotten
PROPERTIES LeaksAreReported NilMeansClean

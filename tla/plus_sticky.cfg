SPECIFICATION Spec
CONSTANTS
    Keys = {k1, k2, k3, k4, k5}
    NoKey = NoKey
    CtrMod = 4
    IvMod = 2
SYMMETRY KeySymmetry

PROPERTY CryptoMeansMac

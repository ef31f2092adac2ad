SPECIFICATION Spec
CONSTANTS
    Keys = {k1, k2, k3}
    NoKey = NoKey
    KeyNos = {"0"}
    KeyTypes = {"AES128"}
    Channels = {"EV1"}
    CardType = "EV1"
    Aids = {0, 1}
    Chaining = {FALSE}
    CtrMod = 3
    MaxIv = 4
    CipherChains = TRUE
    Unmaced = {}
    Api <- OwnKeyCalls
SYMMETRY KeySymmetry
PROPERTY CarriedOutIsReported

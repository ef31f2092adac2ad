SPECIFICATION Spec
CONSTANTS
    Keys = {k1, k2, k3}
    NoKey = NoKey
    KeyNos = {"0"}
    KeyTypes = {"DES", "3K3DES", "AES128"}
    Channels = {"AUTO", "EV2"}
    CardType = "EV1"
    Aids = {0, 1}
    Chaining = {FALSE}
    CtrMod = 3
    MaxIv = 6
    CipherChains = TRUE
    Unmaced = {}
    Api <- AllCalls
SYMMETRY KeySymmetry
VIEW Remembered
INVARIANTS TypeOK Agreement AidAgreement
PROPERTIES CarriedOutIsReported DisabledOnlyApart NoSilentDowngrade

SPECIFICATION Spec
CONSTANTS
    Keys = {k1, k2, k3}
    NoKey = NoKey
    KeyNos = {"0", "1"}
    KeyTypes = {"AES128"}
    Channels = {"EV2", "LRP"}
    CardType = "NTAG424"
    Aids = {0, 1}
    Chaining = {FALSE, TRUE}
    CtrMod = 3
    MaxIv = 4
    CipherChains = TRUE
    Unmaced = {}
    Api <- Ev3Calls
SYMMETRY KeySymmetry
VIEW Remembered
INVARIANT Agreement
PROPERTIES CarriedOutIsReported SuccessMeansSession

SPECIFICATION Spec
CONSTANTS
    Bs = 4
    Bytes = {0, 99, 128}
    MaxPayload = 3
INVARIANTS CrcFound PaddingUndone MacInputsDiffer CbcUndone CounterSucceeds VersionKept SettingsReadBack TmiTellsApart
CHECK_DEADLOCK FALSE

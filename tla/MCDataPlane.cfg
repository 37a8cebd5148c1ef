SPECIFICATION Spec
CONSTANTS
    group = group
    Group = group
    Window = 2
    Overlap = 1
    Leaves <- MCLeaves
    Bits <- MCBits
    Low = 2
    Top = 64
    KDFs <- MCKDFs
    MaxEpoch = 2
    MaxSeq = 4
    MaxSent = 5
INVARIANTS NoReplay OnlyStaleMissed EpochsDemuxed LostIsLate NonceOnce
CHECK_DEADLOCK FALSE

SPECIFICATION Spec
CONSTANTS
    WordBits = 5
    Configs <- MCConfigs
    Filter1Max = 3
    Filter2Max = 7
INVARIANTS CountedWhereDecoded OldAndNewNeverMix ClassedAndSampled

CONSTANTS
    Nobody = Nobody
    i1 = i1
    i2 = i2
    i3 = i3
    Installers = {i1, i2, i3}
    MaxLines = 8
    MaxAdmin = 2
SPECIFICATION Spec
SYMMETRY Symmetry
INVARIANT TypeOK
INVARIANT OnlyFaithfulBundles
INVARIANT DoneMeansDone
PROPERTY NeverSwitchesOff
CHECK_DEADLOCK FALSE

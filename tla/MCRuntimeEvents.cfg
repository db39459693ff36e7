CONSTANTS
    s1 = s1
    s2 = s2
    m1 = m1
    m2 = m2
    NoScene = NoScene
    MaxLeases = 2
    MaxFaults = 1
    Scene <- MCScene
    Mod <- MCMod
    Look <- MCLook
SPECIFICATION FairSpec
INVARIANTS
    TypeOK
    CursorGoesBack
PROPERTIES
    CursorIsGivenBack
    ActiveSceneIsTold

SPECIFICATION Spec
CONSTANTS
    k1 = k1
    k2 = k2
    k3 = k3
    Tokens <- MCTokens
    Configs <- MCConfigs
    Free = Free
    Threads = {t1, t2, t3}
INVARIANTS
    EnabledNotRefused
    BuiltOnce

SPECIFICATION Spec
CONSTANTS
    p1 = p1
    p2 = p2
    p3 = p3
    m1 = m1
    m2 = m2
    Providers <- MCProviders
    Models <- MCModels
    Configs <- MCConfigs
    Threads = {t1, t2}
SYMMETRY Symmetry
INVARIANTS
    TypeOK
    RoutedByOwnConfig
    UnhealthyLast

SPECIFICATION MCSpec
CONSTANTS
    MaxMembers = 3
    MaxLines = 4
    Types <- MCTypes
    Docs <- MCDocs
    Whole <- MCWhole
    MaxChanges = 2
    MaxMessages = 3
INVARIANTS
    ScannerIsGrammar
    InjectionSound
    TranslatesEvents
    ResponsePathsAgree
    RequestPathsAgree
    LoadedIsSound
    TimeoutHonoured
CHECK_DEADLOCK FALSE

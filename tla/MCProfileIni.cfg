CONSTANTS
    Pieces <- MCPieces
    NamePieces <- MCNamePieces
    UpperOf <- MCUpperOf
    Keys <- InputKeys
    CodeOf <- MCCodeOf
    MaxOf <- MCMaxOf
    IntOf <- MCIntOf
    PercentOf <- MCPercentOf
    NaN = NaN
    HexOf <- MCHexOf
    TemplateKeys = {2}
    TemplateRels = {1}
    Edits <- MCEdits
    MaxEdits = 2
    MaxId = 5
SPECIFICATION Spec
INVARIANTS
    TypeOK
    BindingsAsWritten
    CommandIdsUnique
    KeysReachDevices
    AxesReachDevices
    AxesAsWritten
    SavedIsLoaded

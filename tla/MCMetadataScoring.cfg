SPECIFICATION ScoringSpec
CONSTANTS
    None = None
    w1 = w1
    w2 = w2
    l1 = l1
    l2 = l2
    Workers <- MCWorkers
    Lots <- MCLots
    LotRows <- MCLotRows
    Birth <- MCBirth
    Handoffs <- MCHandoffs
    Reading <- MCReading
    Catalogues <- MCCatalogues
    ImagePairs <- MCImagePairs
    NameAlike <- MCNameAlike
    TitleEdits <- MCTitleEdits
    LogShare <- MCLogShare
    SizeRarity <- MCSizeRarity
    CommonTitles <- MCCommonTitles
    UnknownKeys <- MCUnknownKeys
    Unbekannt = "unbekannt"
    Parent <- MCParent
    MaxChanges = 1
    MaxKills = 1
    MaxRuns = 2
SYMMETRY Symmetric
INVARIANTS DatesAreTheirOwn RarityNeverUnderstated KeptIsDeserved
CHECK_DEADLOCK FALSE

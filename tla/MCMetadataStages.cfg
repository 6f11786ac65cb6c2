SPECIFICATION Spec
CONSTANTS
    Auctions = {"x", "y"}
    Losts = {"l"}
    MaxVersion = 2
    ExtractBatch = 2
    MatchBatch = 1
    Garbled <- MCGarbled
    Blank <- MCBlank
    Silent <- MCSilent
    Alike <- MCAlike
    Scrapes = 3
    Faults = 2
    None = None
INVARIANTS ExtractedIsCurrent MatchedIsScored
PROPERTIES EveryLotIsMatched

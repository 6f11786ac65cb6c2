SPECIFICATION UpsertSpec
CONSTANTS
    Scrapers = {"p", "q", "r"}
    Plan <- MCPlan
    Key <- MCKey
    Every = 2
    Runs = 2
    None = None
INVARIANTS ReferencesHold DoneSavedAll
CHECK_DEADLOCK FALSE

SPECIFICATION SourceSpec
CONSTANTS
    Sources = {"christies", "dorotheum", "drouot", "lottissimo", "sothebys", "lostart"}
    Lots = {1, 2, 3}
    Stored = {1}
    Listings <- MCListings
    Offers <- MCOffers
    OldImages = {"a"}
    MaxPages = 2
    Skips = {0, 1}
    Limits = {None, 1}
    PageLimits = {None, 2}
    CommitEvery = 2
    None = None
INVARIANTS QueueIsWhatWasRead RowsFollowRun
PROPERTIES NothingLostBlindly
CHECK_DEADLOCK FALSE

SPECIFICATION FairSpec
CONSTANTS
  x1 = x1
  x2 = x2
  Artwork <- OneArtwork
  Image = {x1, x2}
  Owner <- OneOwner
  Broken = {}
  Scraper = {s1}
  BatchSize = 1
  MaxVersion = 2
  MaxRevision = 2
  MaxTxns = 2
  MaxFaults = 1
  MaxEvents = 2
INVARIANTS ScoresAreCurrent DoneIsJudged DeletableIsRejected EmbeddedIsCurrent
PROPERTIES PendingIsJudged

SPECIFICATION FairSpec
CONSTANTS
  Nil = Nil
  provinces = provinces
  cities = cities
  Keys = {provinces, cities}
  Rank <- ProvincesFirst
  Under <- CitiesBelow
  Entries <- Rows
  Tables <- Provinces
  Answers <- Replies
  h1 = h1
  h2 = h2
  n1 = n1
  n2 = n2
  RunsOn <- Processes
  Wanted <- Reads
  Plans <- Syncs
  Jobs = {j1, j2}
  Instances = {n1, n2}
  Handlers = {h1, h2}
INVARIANTS TypeOK SyncsExclude NoOrphanJobs 
PROPERTIES FinishedForGood JobsEnd
CHECK_DEADLOCK FALSE

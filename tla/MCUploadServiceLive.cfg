CONSTANTS
  Sessions = {s1}
  Parts = {1, 2}
  Requests = {r1}
  Video = Video
  NoSession = NoSession
  MaxPuts = 1
  MaxFaults = 1
  JanitorBatch = 1
SPECIFICATION FairSpec
PROPERTIES
  SessionsSettle
  LostCompleteIsRecovered
  UploadedIsAnnounced

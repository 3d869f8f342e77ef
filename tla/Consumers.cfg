SPECIFICATION ConsumersSpec
CONSTANTS
  Files = {"a", "b"}
  Threads = {t1, t2}
  Announced <- MCAnnounced
  Slots = 1
  MaxRequests = 3
  MaxRestarts = 1
  Messages = {"h1", "h2", "h3", "p1", "p2", "p3", "p4", "n1", "n2", "f1", "f2", "f3"}
  Message <- MCMessage
  Traffic <- MCTraffic
  NoMessage = "none"
  MaxPending = 2
  MaxRetries = 1
INVARIANTS UploadsStored TorrentsFetched SendersSound
PROPERTY UploadAdds
CHECK_DEADLOCK FALSE
SYMMETRY MCSymmetry

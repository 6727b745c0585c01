SPECIFICATION FairSpec
CONSTANTS
  u1 = u1
  u2 = u2
  d1 = d1
  NoTTL = NoTTL
  Uploads <- TwoUploads
  Downloads <- NoDownload
  Headers <- TooLongTTL
  DefaultFileTTL = 2
  DefaultMaxTTL = 5
  Sec = 2
  MaxJournal = 2
  IOFaults = TRUE
  MaxCrashes = 1
 
PROPERTY ServeEnds

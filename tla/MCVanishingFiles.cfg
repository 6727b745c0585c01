SPECIFICATION Spec
CONSTANTS
  u1 = u1
  u2 = u2
  d1 = d1
  NoTTL = NoTTL
  Uploads <- TwoUploads
  Downloads <- OneDownload
  Headers <- LongTTL
  DefaultFileTTL = 2
  DefaultMaxTTL = 5
  Sec = 2
  MaxJournal = 1
  IOFaults = TRUE
  MaxCrashes = 1
SYMMETRY UploadSymmetry
INVARIANT NoWriteAfterReturn
 

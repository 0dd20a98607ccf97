SPECIFICATION FairSpec
CONSTANTS
  DelegateSetParams = TRUE
  BlobMayReject = FALSE
INVARIANTS
  CameraTypeOK FlagFollowsBlob BuffersFit PreviewIsShown
PROPERTY
  PreviewReturns

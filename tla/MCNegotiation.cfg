SPECIFICATION Spec
CONSTANTS
  None = None
  Sources <- FiveFiles
  Asks <- AsksAbout
  Policies <- ThreePolicies
  BesideIt <- OneOrNone
  Encoders = {"h264", "hevc", "aac", "flac", "vp9"}
  Muxers = {"mkv", "mp4", "ts"}
  FitsAParameter <- ShortEnough
  MinimumVideoBitrate = 2
  Printed <- Shortest
INVARIANTS
  TypeOK
  TheDecisionsAgree
  LimitsAndCapHold
  MoreIsNeverWorse
PROPERTIES
  TranscodingClaimHolds

SPECIFICATION FairSpec
CONSTANTS
  Keys = {k1}
  Looks = {a, b}
  Pages = {p, q}
  Nothing = Nothing
  FullPackets = 2
  MaxChanges = 1
  MaxConnects = 2
INVARIANTS
  OneUploadAtATime
  NoStrandedRequest
  ShownIsShown
PROPERTIES
  UnpacksInPeace
  Converges

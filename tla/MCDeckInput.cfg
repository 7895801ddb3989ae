CONSTANTS
  aKey = aKey
  aDial = aDial
  onePage = onePage
  another = another
  Controls = {aKey, aDial}
  Dials = {aDial}
  Pages = {onePage, another}
  On <- TwoPages
  MaxStale = 2
  None = None
  Ids = {a, b, c}
  Apps = {app}
  Layouts <- OneAndThree
  MaxDepth = 2
  MaxChanges = 2
  Configs <- FourScreens
  Every = 2
  BreakMin = 3
  Additions = {0, 2}
  MaxTime = 4
SPECIFICATION DeckSpec
INVARIANTS OneGesturePerPress RunHasItsRelease InPlace TapFollowsScreen
PROPERTIES WakingPressIsNoTap BackToChosen ImplementsCountdown

SPECIFICATION Spec
CONSTANTS
  TextSize <- TextSizeVal
  TrueText = 1
  FalseText = 2
  BareText <- BareVal
  Split <- SplitVal
  Values <- ValuesVal
  Follows <- FollowsVal
  Ordered <- OrderedVal
  Texts <- TextsVal
  CallTexts <- CallTextsVal
  Arguments <- ArgumentsVal
  Written <- WrittenVal
  Subjects <- SubjectsVal
  Patterns <- PatternsVal
  Rules <- RulesVal
  MaxRules = 2
INVARIANTS
  EncodeSizeExact
  RoundTrip
  StrictWeakOrder
  
  ReadFaithful
  MatchMeaning
  FirstRuleWins

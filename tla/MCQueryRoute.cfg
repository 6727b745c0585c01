SPECIFICATION RouteFairSpec
CONSTANTS
  h1 = h1
  h2 = h2
  a = a
  none = none
  Routes <- TwoRoutes
  Keys <- OneKey
  Answers <- SmallAnswers
  MinTTL = 1
  MaxTTL = 2
  NegCacheMinTTL = 1
  Messages <- SmallMessages
  MaxVersion = 1
  NoMessage <- none
INVARIANT CachedReplyIsOwn
PROPERTY ValidIsCurrent

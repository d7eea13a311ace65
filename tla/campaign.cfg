\* A product with two keywords and two phones, dealt or in turns;
\* the second keyword is written to the history as another text.
SPECIFICATION FairSpec
CONSTANTS
  Phones = 2
  Products = 1
  Keywords = 2
  Cut = {2}
  Goal = 1
  Period = 2
  MaxHits = 2
  MaxNights = 1
  MaxKills = 1
INVARIANTS
  TypeOK
  CountedAtMostTwice
  TodayIsCounted
  SavedHitsStay
PROPERTY
  KeywordsTakeTurns

CONSTANTS
  Bytes = {"a", "b"}
  Profiles <- MCProfiles
  Ids = {1}
  MaxGen = 3
  MaxTroubles = 2
SPECIFICATION FairSpec
INVARIANTS NamedBytesStay NothingLeaks
PROPERTIES DecisionStands GivenBack
CHECK_DEADLOCK FALSE

\* A DNS and a threat-intel feed and an operator who share an address.
SPECIFICATION FairSpec
CONSTANTS
  Feed = {"dns", "intel"}
  Source = {"d1", "d2", "list"}
  Addr = {"x", "y"}
  Sources <- FeedSources
  Answers <- FeedAnswers
  AllOrNothing = {"intel"}
  Cidr = {}
  Manual = {"x"}
INVARIANTS TypeOK BlocksRemembered ListedBlocked
PROPERTIES RolledOffLifted

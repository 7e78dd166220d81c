CONSTANTS
  Clients = {"c1", "c2"}
  Hosts = {"h1", "h2"}
  Session <- OneSession
  MaxAttempts = 3
  MaxPolls = 2
SPECIFICATION FairSpec
INVARIANTS TypeOK OneHost OwnRegistry LaunchExclusive
PROPERTY CallsReturn
PROPERTY SlotSpec

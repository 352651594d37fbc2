SPECIFICATION BackOfficeSpec
CONSTANTS
  Day = 1000
  MaxSafe = 2147483647
  Durations = {1, 19, 25, 42}
  Jobs <- MCJobs
  Proposals <- MCProposals
  l1 = l1
  h1 = h1
  h2 = h2
  w1 = w1
  Letters = {l1}
  Hooks = {h1, h2}
  Secrets <- MCSecrets
  DevSecret = "dev"
  NoSecret = "none"
  Environments <- MCEnvironments
  Freshness = 1
  RedriveAfter = 0
  GiveUpAfter = 2
  MaxClock = 2
  MaxTroubles = 1
  Shows = {w1}
  Timeout = 2
  FlagTTL = 2
  MaxMeddling = 1
  Attempts = 2
  MaxEntries = 2
  MaxTags = 2
  ClosedOccasions = {"diwali", "rakhi"}
  Tasks <- MCTasks
  Answers <- MCAnswers
  k1 = k1
  k2 = k2
  Carts = {k1, k2}
  Worth <- MCWorth
  Budget <- MCBudget
  BucketTicks = 2
  WindowTicks = 2
  AskedAt = 3
  MaxMoves = 1
INVARIANTS
  GateFollowsPolicy
  PaiseConserved
  OfferIsGrounded
  AckedIsKept
  VerdictIsTrue
  PublishedIsSound
  BoardIsTrue
PROPERTIES
  ScenarioEnds
CHECK_DEADLOCK FALSE

\* Three runners; of five scripts the second can be repeated, and the last two
\* commit by themselves, as 012, 015 and 016 do.
CONSTANTS
  Runners = {"deploy1", "deploy2", "deploy3"}
  N = 5
  SelfCommitting = {4, 5}
  Repeatable = {2}
  MaxFailures = 3
SPECIFICATION FairSpec
INVARIANTS
  TypeOK
  ExitZeroMeansMigrated
  OnlyOwnCommitsTear
PROPERTIES
  ImplementsHistory
  EventuallyMigrated

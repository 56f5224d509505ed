CONSTANTS
  Requests = {"r1", "r2"}
  Migrations = 2
  Targets = {"a", "b", "c"}
  YamlTargets = {"a", "b"}
  Inputs <- mcInputs
SPECIFICATION ProcessSpec
INVARIANTS TypeOK GracefulExit MigratedBeforeUse SourcesOnce NothingSilentlyWins NothingLost OwnerUnique NamesIrrelevant
PROPERTIES RejectedTouchesNothing ShutdownEnds

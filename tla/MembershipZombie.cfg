CONSTANTS
  Workers = {w1}
  Registries = {r1}
  w1 = w1
  r1 = r1
  Background = {"watcher", "monitor"}
  Faults = {"redis"}
SPECIFICATION FairSpec
PROPERTY ServingIsRegistered
CHECK_DEADLOCK FALSE

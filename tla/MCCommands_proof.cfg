SPECIFICATION Spec
CONSTANTS
  Live = {"rotation"}
  Bindings = {1}
  MaxFaults = 0
  Tickets = {1}
  MaxKills = 0
  Keys = {"first", "second", "elsewhere"}
  PrincipalOf <- UserKey
  AccountOf <- OwnAccount
  Commands = {c1}
  Writers = {w1}
  Runs = {1}
  StageRuns = {1}
  Material = {m1}
  Attested = {m1}
  MaxEdits = 0
  MaxChanges = 0
INVARIANTS RotationIsProven
CHECK_DEADLOCK FALSE

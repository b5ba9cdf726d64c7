SPECIFICATION Spec
CONSTANTS
  Live = {"binding", "ticket", "rotation", "alpha", "release", "packages"}
  Bindings = {1, 2, 3, 4}
  MaxFaults = 3
  Tickets = {1, 2}
  MaxKills = 3
  Keys = {"first", "second", "elsewhere"}
  PrincipalOf <- UserKey
  AccountOf <- OwnAccount
  Commands = {c1, c2}
  Writers = {w1, w2}
  Runs = {1, 2}
  StageRuns = {1, 2}
  Material = {m1, m2}
  Attested = {m1}
  MaxEdits = 1
  MaxChanges = 1
INVARIANTS TicketIsHonest
PROPERTIES BindingIsDelivered BindingSettles RecordIsEarned ReleaseIsTrue RefusalLeavesNothing PublishedIsBuilt
CHECK_DEADLOCK FALSE

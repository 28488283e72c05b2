\* Three updates, in any split into batches, and one stop.
SPECIFICATION Spec
CONSTANTS
  MaxUpdates = 3
  MaxStops = 1
  NoUpdate = NoUpdate
INVARIANTS
  TypeOK
  ForgottenUpdatesWereHandled
  TextsWereAskedFor
PROPERTY UpdatesAreHandled
CHECK_DEADLOCK FALSE

SPECIFICATION ServeSpec
CONSTANTS
  t1 = t1
  None = None
  Calls = {r1, r2}
  Tokens = {t1}
  ApiFaults = {"tokens", "handler"}
  Cap = 2
  MaxEvents = 3
  Events = {"open_error", "bind_error", "api_bind_error", "listener_ends", "tui_error", "tui_panic"}
INVARIANTS ApiTypeOK TokensDecide ListsKept
PROPERTIES StopsOnlyWhenTold WaitsEnd QuitEndsProcess

\* The answers, the hooks and the users are as few as make every case.
CONSTANTS
  Events = 2
  MaxAttempts = 2
  MostAttempts = 3
  Hooks = {h1, h2, h3}
  NoHook = NoHook
  NoResponse = NoResponse
  Responses <- SomeResponses
  MaxChanges = 2
  EndsWith <- Ending
  Users = {alice, bob}
  Nobody = Nobody
  ProductKey = "loan_application"
  Uuid = "uuid"
  OtherText = "actions"
SPECIFICATION MCSpec
INVARIANTS DeliveredExactly SteadyHooksRun IdsNameTheirHook ErrorHasItsResponse
  NoCrossUserChange RefusalIsFinal SilentOnlyAtGateway
  UrlReadsBack CallerHeadersKept OnlyRecordOperationsPass
PROPERTIES AbortEnds CallSettles
CHECK_DEADLOCK FALSE

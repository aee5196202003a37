SPECIFICATION FairSpec
CONSTANTS
  Feature = {"jserrors", "ajax"}
  Aggregators = {"jserrors"}
  EarlyFeatures = {"ajax"}
  AttributeBytes <- NoAttributes
  NumEvents = 3
  Size <- MCSize
  MaxPayload = 4
  IdealPayload = 2
  Method = "xhr"
  Statuses = {0, 200, 400, 503}
  ConsentMode = TRUE
  MaxInFlight = 1
INVARIANTS NoSilentLoss NoDuplicateDelivery Chronological SavedCopyIsInFlight BytesAreExact
PROPERTIES ImplementsDelivery EventuallySettled
CHECK_DEADLOCK FALSE

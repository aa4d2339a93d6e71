SPECIFICATION Spec
CONSTANTS
  undefined = undefined
  Thrown = Thrown
  Supported <- SomeTechnologies
  Inputs <- AllInputs
  Given <- SomeGiven
  PickBands <- SomeBands
  PickArfcns <- SomeArfcns
INVARIANTS FormTypeOK FormConsistent NearestChannel ChannelRoundTrips
PROPERTIES GivenShown

SPECIFICATION Spec
CONSTANTS
  Raw <- AnyValue
  Path <- MCPath
  JsonPath <- MCJsonPath
  Content = {text, json, folder}
  Json = {json}
  Unreadable = folder
  Missing = missing
  Changes = 2
  Inputs <- MCInputs
  Fill <- fillTemplate
INVARIANTS
  AcceptedRuns
  FilledAsAsked
  ImportFaithful
CHECK_DEADLOCK FALSE

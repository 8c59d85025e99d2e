\* Room for two of three drivers.
SPECIFICATION Spec
CONSTANTS
  MaxEntries = 2
  NoNumber = 0
  Absent = "absent"
  Bad = "bad"
  Fields <- MCFields
  Payloads <- MCPayloads
INVARIANT KeepsRoster

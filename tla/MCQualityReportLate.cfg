SPECIFICATION Spec
CONSTANTS
  S = 10
  MaxInFlight = 2
PROPERTY ReportIsShare

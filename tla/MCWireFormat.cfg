\* Every line of up to 9 bytes, and the suite's for up to three dependencies.
SPECIFICATION Spec
CONSTANTS
  Plain = {"x", "y"}
  Commands <- MCCommands
  PackageNames <- MCPackageNames
  MaxNames = 3
  MaxLine = 9
INVARIANTS ParsesAsSpecified RoundTrip RestOfRequestRejected
CHECK_DEADLOCK FALSE

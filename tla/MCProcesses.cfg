\* Two CSI calls, two hosts; hosts hang or drop connections, processes are stopped.
SPECIFICATION FairSpec
CONSTANTS
  Calls = {k1, k2}
  NoCall = NoCall
  MaxFaults = 1
  MaxSignals = 1
  MaxArrivals = 2
INVARIANTS
  TypeOK
  AtMostOnce
  OkMeansRan
  CrashesOnlyStopping
PROPERTIES
  Terminates
  CallsEnd
CHECK_DEADLOCK FALSE

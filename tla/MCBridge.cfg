CONSTANTS
  MaxChunks = 1
  Stallable = {"client", "backend"}
SPECIFICATION FairSpec
INVARIANTS CleanHandback CauseIsRootCause
PROPERTIES TeardownCompletes ClientGoneEndsBridge

CONSTANTS
  DataBytes = {107, 239}
  Options = {0, 24, 107}
  Payloads <- MCPayloads
  maxSubnegLen = 3
  MaxCommands = 4
  Traffic <- MCTraffic
  MaxTraffic = 2
  Items = {1, 2, 3, 4, 5}
  Blocked = {3}
  PageSize = 2
  Texts = {"text"}
  Wides = {"wide"}
  Blank = Blank
  NL = NL
  MaxDoc = 3
  MaxLines = 3
  Stored <- MCStored
  Quiet = Quiet
SPECIFICATION TerminalSpec
INVARIANTS EscapeContained PayloadExact  HeardExact
PROPERTIES PromptedCommit ListPaging EditExact

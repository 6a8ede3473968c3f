CONSTANTS
  Items = {1, 2, 3, 4, 5}
  Blocked = {3}
  PageSize = 2
  Texts = {"text"}
  Wides = {"wide"}
  Blank = Blank
  NL = NL
  MaxDoc = 3
  MaxLines = 3
  Stored <- MCStored
  Quiet = Quiet
SPECIFICATION Spec
PROPERTIES SnapshotPaging

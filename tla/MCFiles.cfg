SPECIFICATION FilesSpec
CONSTANTS
  Cmds = {1, 2, 3}
  Keys = {1, 2}
  Given <- MCGiven
  Length = 3
  buf_size = 2
  Starts <- MCStarts
  Lengths <- MCLengths
  max_len = 3
  FileSize = 3
  MaxPlace = 10
  MaxFails = 2
  Contents <- MCContents
  Files = 3
  BufferInts = 3
  MaxOpen = 2
  IntMax = 127
  Garbage <- MCGarbage
  Alphabet <- MCAlphabet
  MaxLength <- MCMaxLength
  max_lines = 2
  max_chars = 3
  Columns = 3
  LongWord = 3
INVARIANTS
  FilesAreExact
  FiltersAsAsked
CHECK_DEADLOCK FALSE

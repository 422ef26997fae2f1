SPECIFICATION MCSpec
CONSTANTS
  Jobs <- MCJobs
  PipeSize = 1
  InBlocks = 2
  Numbers = 3
  Alphabet <- MCAlphabet
  MaxLength <- MCMaxLength
  max_lines = 2
  max_chars = 3
  Columns = 3
  LongWord = 3
  Read40 = {7, 8, 9}
  MaxRead = 7
  Tokens <- MCTokens
  MaxTokens <- MCMaxTokens
  Width = 4
  Nearness = 2
  Arguments41 <- MCArguments41
  Arguments42 <- MCArguments42
  Arguments44 <- MCArguments44
  Arguments65 <- MCArguments65
  CharBits = 4
  start_buffer = 3
  LF = 1
  TAB = 2
  SPACE = 4
  DigitCodes <- MCDigitCodes
  Typed <- MCTyped
  MaxLine = 8
  Secrets <- MCSecrets
  Lines <- MCLines
  buff = 4
  bufsize = 4
INVARIANTS
  BlocksArrive
  LinesOnce
  ReportsAreTrue
  AnswersAsAsked
PROPERTIES
  EverybodyEnds
CHECK_DEADLOCK FALSE

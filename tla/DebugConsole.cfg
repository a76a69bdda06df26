\* Two threads log two messages while a third draws and clears.
CONSTANTS
  c = c
  Threads = {t1, t2}
  Severities = {Info, Error}
  White = White
  Newline = n
  Garbage = Garbage
  Texts <- MCTexts
  MaxLogs = 2
  MaxClears = 1
SYMMETRY Symmetry
SPECIFICATION ConsoleSpec
INVARIANTS ConsoleTypeOK LinesAreFound OffsetsAscend DrawnLinesAreLines ColorsLineUp

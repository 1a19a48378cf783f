CONSTANTS
  Proc = {p1, p2, p3}
  Users = {p1, p2}
  Victims = {p2}
  Creator = p1
  Nobody = Nobody
  PIPESIZE = 2
  PIPEWORD = 4
  MAXBYTES = 4
  INPUT_BUF = 2
  INPUTWORD = 4
  Letter = {"a"}
  COLS = 2
  ROWS = 3
  TICKWORD = 3
SPECIFICATION DevSpec
INVARIANTS PipeSound ConsoleSound ClockSound NobodyForgotten
PROPERTY PipeEnds
CHECK_DEADLOCK FALSE

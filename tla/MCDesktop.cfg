CONSTANTS
  Command = {c1}
  e1 = e1
  e2 = e2
  t1 = t1
  Asker = {e1, e2}
  Asked = {t1}
  AskedBy <- MCAskedBy
  NoAsker = NoAsker
  MaxTokens = 2
  MaxAsks = 2
  Port = {1, 2}
  MaxChanges = 2
  ToolCaller = {x, y}
  MaxCalls = 2
  Window = {main, graph}
  Graph = graph
  graph = graph
  Place = {upper, lower}
  Nowhere = Nowhere
  Main = Main
  UiCommand = UiCommand
  MaxGeneration = 4
  MaxCaptures = 3
  Unit <- MCUnit
  Monitor <- MCMonitor
  Position <- MCPosition
  Size <- MCSize
  MinSize <- MCMinSize
  Strip = 2
SPECIFICATION DesktopSpec
SYMMETRY MCSymmetry
INVARIANTS
  OneRunPerConfirmation
  ApprovalsQueued
  ConfigGivenBack
  MutatingOnce
  Remembered
  PlacedWell
CHECK_DEADLOCK FALSE

SPECIFICATION Spec
CONSTANTS
  Boards <- MCBoards
  Powers <- MCPowers
  SmcArgs <- MCSmcArgs
  ToshArgs <- MCToshArgs
INVARIANTS  LeavesConfigState OnlyTheRightChip FoundIsThere

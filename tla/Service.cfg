SPECIFICATION FairSpec
CONSTANTS
  Consoles = {console}
  Controls = {control}
  NoClient = NoClient
  Cap = 2
  Keys = {"l", "x", "q"}
  Arguments = {"r", "?"}
  Keys_Max = 3
  Deaths_Max = 1
  Killable = {console, control}
INVARIANTS TypeOK AddressKnown ControlNeverHolds ConfirmedFirst LeftBehind
PROPERTIES EngineMovesOn RequestsTaken ControlReturns
CHECK_DEADLOCK FALSE

SPECIFICATION Spec
CONSTANTS
  Consoles = {}
  Controls = {control1, control2}
  NoClient = NoClient
  Cap = 2
  Keys = {}
  Arguments = {"r", "h"}
  Keys_Max = 0
  Deaths_Max = 0
  Killable = {}
INVARIANTS SuccessMeansDone

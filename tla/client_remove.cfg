SPECIFICATION Spec
CONSTANTS
  Printable = {"x", "y"}
  Controls <- MCControls
  Wd <- MCWd
  Cells = {0}
  HomeDirs = {}
  NoHome = NoHome
  Invalid = {}
  Bases = {}
  MaxText = 0
  Inputs = {}
  MaxId = 2
  MaxCmds = 1
  MaxEvs = 1
PROPERTY RunningStays

SPECIFICATION Spec
CONSTANTS
  MaxId = 2
  MaxCmds = 1
  MaxEvs = 1
  Printable = {"x", "y"}
  Controls <- MCControls
  Wd <- MCWd
  Cells = {0, 1, 222, 223, 2014, 2015, 65534}
  HomeDirs <- MCHomes
  NoHome = NoHome
  Invalid = {"b1", "b2"}
  Bases <- MCBases
  MaxText = 4
  Inputs <- MCInputs
INVARIANTS OwnIds AttachCoherent 

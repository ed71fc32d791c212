\* One command and one supervisor: is a result kept?
SPECIFICATION Spec
CONSTANTS
  Commands = {c1}
  MaxTurns = 1
  MaxLaunches = 1
  MayCrash = {"command", "supervisor"}
  MaxCrashes = 0
PROPERTY FailsUnfinalized
CHECK_DEADLOCK FALSE

SPECIFICATION BootLiveSpec
CONSTANTS
  Servers = {p1, p2, p3}
  Families = {"v4", "v6"}
  MaxKills = 2
PROPERTIES PortHeld ClientConnects
CHECK_DEADLOCK FALSE

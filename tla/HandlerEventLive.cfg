CONSTANTS
  MaxInits = 2
  InitPower = {FALSE}
SPECIFICATION Spec
INVARIANT HandlerEventLive

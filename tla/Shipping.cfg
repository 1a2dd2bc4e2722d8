\* Three handlers of one order, and one failure.
SPECIFICATION ShipSpec
CONSTANTS
  h1 = h1  h2 = h2  h3 = h3
  Handler = {h1, h2, h3}
  NoHandler = NoHandler
  ShipFaults = {"lost", "die", "slow"}
  MaxShipFaults = 1
SYMMETRY Handlers
INVARIANTS ShipTypeOK OneParcelUnlessCut
PROPERTIES OnlyStaleReadersUndo
CHECK_DEADLOCK FALSE

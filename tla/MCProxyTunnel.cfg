SPECIFICATION Spec
CONSTANT MaxPieces = 6
INVARIANTS StreamWhole SocketOwned
CHECK_DEADLOCK FALSE

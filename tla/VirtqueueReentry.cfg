\* A debug build whose driver reclaims buffers both from its thread and
\* from its interrupt callback; the device caller follows the protocol.
CONSTANTS
  N = 2
  Cookies = {c1, c2}
  NULL = NULL
  StartIdx = {0}
  MaxChain = 2
  MaxAdds = 3
  EventIdxModes = {FALSE}
  VQUEUE_DEBUG = TRUE
  MaxStrays = 0
  IsrReclaims = TRUE
SPECIFICATION Spec
INVARIANT OwnershipIntactOrTrapped
CHECK_DEADLOCK FALSE

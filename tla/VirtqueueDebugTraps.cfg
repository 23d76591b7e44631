\* A debug build whose device caller may return any descriptor index as a
\* used head, and whose driver reclaims buffers from its interrupt
\* callback as well as from the thread.  A VQASSERT stops the program, so
\* a trapped run ends there.
CONSTANTS
  N = 2
  Cookies = {c1, c2}
  NULL = NULL
  StartIdx = {0}
  MaxChain = 2
  MaxAdds = 3
  EventIdxModes = {FALSE}
  VQUEUE_DEBUG = TRUE
  MaxStrays = 2
  IsrReclaims = TRUE
SPECIFICATION Spec
INVARIANT FreeListIntactOrTrapped
CHECK_DEADLOCK FALSE

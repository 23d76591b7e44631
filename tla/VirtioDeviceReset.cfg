\* A fresh queue of 2 descriptors, one or two buffers, then reset and
\* re-create: the run shows the driver's private indices surviving.
CONSTANTS
  N = 2
  Cookies = {c1, c2}
  NULL = NULL
  StartIdx = {0}
  MaxChain = 2
  MaxAdds = 2
  EventIdxModes = {FALSE}
  VQUEUE_DEBUG = TRUE
  MaxStrays = 0
  IsrReclaims = FALSE
SPECIFICATION DevSpec
PROPERTY ResetRecreateIsFresh

CONSTANTS
  N = 2
  Cookies = {c1, c2}
  NULL = NULL
  StartIdx = {0}
  MaxChain = 2
  MaxAdds = 3
  EventIdxModes = {FALSE}
  VQUEUE_DEBUG = FALSE
  MaxStrays = 0
  IsrReclaims = FALSE
SPECIFICATION Spec
INVARIANT DescriptorsPartitioned

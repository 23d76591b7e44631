CONSTANTS
  N = 4
  Cookies = {c1, c2}
  NULL = NULL
  StartIdx = {65535}
  MaxChain = 2
  MaxAdds = 3
  EventIdxModes = {FALSE}
  VQUEUE_DEBUG = TRUE
  MaxStrays = 0
  IsrReclaims = FALSE
SPECIFICATION Spec
INVARIANT TypeOK
INVARIANT DescriptorsPartitioned
INVARIANT HeadOwnership
PROPERTY ChannelRefinement

\* One 2-entry driver queue behind the MMIO interrupt, both suppression
\* schemes, a debug build, a device that returns what it takes.
CONSTANTS
  N = 2
  Cookies = {c1, c2}
  NULL = NULL
  StartIdx = {0}
  MaxChain = 1
  MaxAdds = 2
  EventIdxModes = {FALSE, TRUE}
  VQUEUE_DEBUG = TRUE
  MaxStrays = 0
  IsrReclaims = TRUE
SPECIFICATION MqSpec
PROPERTY IsrReclaimsEveryBuffer
CHECK_DEADLOCK FALSE

\* A 2-entry ring from index 65535, both notification-suppression schemes:
\* the flags (EVENT_IDX not negotiated) and vring_need_event.
CONSTANTS
  N = 2
  Cookies = {c1, c2}
  NULL = NULL
  StartIdx = {65535}
  MaxChain = 2
  MaxAdds = 3
  EventIdxModes = {FALSE, TRUE}
  VQUEUE_DEBUG = TRUE
  MaxStrays = 0
  IsrReclaims = FALSE
SPECIFICATION FairSpec
PROPERTY NoLostBuffer

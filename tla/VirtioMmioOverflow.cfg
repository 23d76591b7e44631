\* register_device for two queues, then create_virtqueues for both.
CONSTANTS
  NQ = 2
  NENTRIES = 4
  Slots <- MCGoodSlots
  DeviceModes = {"driver"}
  ReadyChoices = {TRUE}
  Offered = {"EVENT_IDX"}
  Wanted = {{"EVENT_IDX"}}
  NegotiationStyles = {"set"}
  VQUEUE_DEBUG = TRUE
  MaxEvents = 0
  MetalIoResults = {TRUE}
SPECIFICATION Spec
INVARIANT VringsInfoInBounds
CHECK_DEADLOCK FALSE

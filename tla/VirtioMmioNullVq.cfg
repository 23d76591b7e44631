\* Release build; the pre-allocated queues may not pass the "already
\* configured" test of virtio_mmio_setup_virtqueue.
CONSTANTS
  NQ = 1
  NENTRIES = 4
  Slots <- MCGoodSlots
  DeviceModes = {"driver"}
  ReadyChoices = {TRUE, FALSE}
  Offered = {"EVENT_IDX"}
  Wanted = {{"EVENT_IDX"}}
  NegotiationStyles = {"set"}
  VQUEUE_DEBUG = FALSE
  MaxEvents = 0
  MetalIoResults = {TRUE}
SPECIFICATION Spec
INVARIANT SetupNeverUsesNullQueue
CHECK_DEADLOCK FALSE

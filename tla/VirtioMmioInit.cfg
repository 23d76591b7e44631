\* Probe and queue set-up over every slot content, both roles, queues
\* that do and do not pass the "already configured" test, in a release
\* build; then interrupts on the queues that came up, with the ISR fair.
CONSTANTS
  NQ = 2
  NENTRIES = 4
  Slots <- MCSlots
  DeviceModes = {"driver", "device"}
  ReadyChoices = {TRUE, FALSE}
  Offered = {"EVENT_IDX"}
  Wanted <- MCWanted
  NegotiationStyles = {"set", "get", "negotiate"}
  VQUEUE_DEBUG = FALSE
  MaxEvents = 3
  MetalIoResults = {TRUE, FALSE}
SPECIFICATION FairSpec
INVARIANT TypeOK QueueActivationSound
PROPERTY InterruptLineSettles
CHECK_DEADLOCK FALSE

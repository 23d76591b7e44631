----------------------------- MODULE VirtioMmio -----------------------------
(***************************************************************************)
(* The legacy (version 1) MMIO transport of src/lib/virtio_mmio: the       *)
(* driver's probe, feature negotiation, registration and queue set-up      *)
(* against the device's register bank, the device raising interrupts, and *)
(* virtio_mmio_isr fanning them out to the queue callbacks.               *)
(*                                                                         *)
(* A queue is a model value; its ring traffic is the Virtqueue module.    *)
(* Here a completion is a count the device raises and the queue's         *)
(* callback drains (it calls virtqueue_get_buffer until NULL).            *)
(***************************************************************************)
EXTENDS Naturals, FiniteSets

CONSTANTS
  NQ,            \* vq_num passed to virtio_mmio_register_device
  NENTRIES,      \* vq_nentries of each pre-allocated virtqueue
  Slots,         \* register contents a device slot may present
  DeviceModes,   \* vmdev->device_mode values
  ReadyChoices,  \* whether a pre-allocated vq passes the "already configured" test
  Offered,       \* DEVICE_FEATURES of the device
  Wanted,        \* feature sets the caller may ask set_features for
  NegotiationStyles, \* how the probing caller negotiates features
  VQUEUE_DEBUG,  \* build flag of the queue code
  MaxEvents,     \* bound on the interrupts the device raises
  MetalIoResults \* whether libmetal registers, opens and maps both regions

MAGIC == "virt"                    \* VIRTIO_MMIO_MAGIC_VALUE_STRING
Q == 0 .. NQ - 1                   \* queue indices, also the vqs[] passed in
NULL == NQ                          \* no queue
MaxVrings == 2 * NQ                 \* entries setup_virtqueue can come to write
VRING == "VRING"                    \* VIRTIO_MMIO_INT_VRING
CONFIG == "CONFIG"                  \* VIRTIO_MMIO_INT_CONFIG
PFN(q) == q + 1                     \* phys(desc)/4096 of queue q's ring

VARIABLES
  slot,          \* the device in the slot: [magic, version, devid, qmax]
  regs,          \* the device's register bank as the driver last wrote it
  role,          \* vdev->role
  idVersion,     \* vdev->id.version
  features,      \* vdev->features
  cfgIo,         \* vmdev->cfg_io is a mapped region (else NULL)
  vqReady,       \* [Q -> BOOLEAN]: vq_nentries # 0, = free_cnt, desc set
  vringsInfo,    \* vdev->vrings_info[i].vq, i < MaxVrings
  infoCap,       \* entries metal_allocate_memory gave vrings_info
  vringsNum,     \* vdev->vrings_num
  phase,         \* where the probing caller is
  createIdx,     \* loop index of virtio_mmio_create_virtqueues
  isrPc,         \* "idle" | "callbacks" | "ack"
  isrVal,        \* isr: INTERRUPT_STATUS as virtio_mmio_isr read it
  isrI,          \* loop index of virtio_mmio_isr
  done,          \* [Q -> Nat]: completions raised and not yet drained
  events         \* interrupts raised so far

drvVars == <<role, idVersion, features, cfgIo, vqReady, vringsInfo, infoCap,
             vringsNum, phase, createIdx>>
isrVars == <<isrPc, isrVal, isrI>>
vars == <<slot, regs, drvVars, isrVars, done, events>>

Init ==
  /\ slot \in Slots
  /\ regs = [status |-> {}, pageSize |-> 0, queueSel |-> 0, featSel |-> 0,
             driverFeatures |-> {}, intStatus |-> {},
             queueNum |-> [q \in Q |-> 0], queueAlign |-> [q \in Q |-> 0],
             queuePfn |-> [q \in Q |-> 0]]
  /\ role \in DeviceModes
  /\ idVersion = 0 /\ features = {} /\ cfgIo = FALSE
  /\ vqReady \in [Q -> ReadyChoices]
  /\ vringsInfo = [i \in 0 .. MaxVrings - 1 |-> NULL]
  /\ infoCap = 0 /\ vringsNum = 0
  /\ phase = "probe" /\ createIdx = 0
  /\ isrPc = "idle" /\ isrVal = {} /\ isrI = 0
  /\ done = [q \in Q |-> 0] /\ events = 0

-----------------------------------------------------------------------------
(* The driver's probe sequence.                                            *)

\* virtio_mmio_get_metal_io: register the shared-memory device, open it,
\* take region 0 as shm_io and region 1 as cfg_io.  Each of the four
\* failures returns before cfg_io is assigned (the two region failures
\* even return err = 0), so cfg_io is mapped only when all succeed.
virtio_mmio_get_metal_io(ok) == cfgIo' = ok

\* Mutant: device_init that reads the registers as if get_metal_io had
\* mapped them.
device_init_ignores_io(mode, ok) ==
  /\ phase = "probe"
  /\ role' = mode
  /\ virtio_mmio_get_metal_io(ok)
  /\ IF slot.magic = MAGIC /\ slot.devid # 0 /\ slot.version = 1
     THEN /\ idVersion' = slot.version
          /\ regs' = [regs EXCEPT !.status = {"ACK"}, !.pageSize = 4096]
          /\ phase' = "inited"
     ELSE /\ phase' = "failed"
          /\ UNCHANGED <<regs, idVersion>>
  /\ UNCHANGED <<slot, features, vqReady, vringsInfo, infoCap, vringsNum,
                 createIdx, isrVars, done, events>>

\* virtio_mmio_device_init: role, priv and func are set before any check,
\* then virtio_mmio_get_metal_io, whose result is ignored: without cfg_io
\* the MAGIC read goes through a NULL metal_io_region (undefined, "ub").
\* Then MAGIC, DEVICE_ID, VERSION are checked in that order, each failure
\* returning -1; on success the id is recorded, STATUS = ACK and
\* GUEST_PAGE_SIZE = 4096.
virtio_mmio_device_init(mode, ok) ==
  /\ phase = "probe"
  /\ role' = mode
  /\ virtio_mmio_get_metal_io(ok)
  /\ CASE ~ok ->
            phase' = "ub" /\ UNCHANGED <<regs, idVersion>>
       [] ok /\ slot.magic = MAGIC /\ slot.devid # 0 /\ slot.version = 1 ->
            /\ idVersion' = slot.version
            /\ regs' = [regs EXCEPT !.status = {"ACK"}, !.pageSize = 4096]
            /\ phase' = "inited"
       [] OTHER ->
            phase' = "failed" /\ UNCHANGED <<regs, idVersion>>
  /\ UNCHANGED <<slot, features, vqReady, vringsInfo, infoCap, vringsNum,
                 createIdx, isrVars, done, events>>

\* virtio_mmio_dispatch: the operation table device_init installs as
\* vdev->func.  It has no negotiate_features, delete_virtqueues or
\* wait_notified.
virtio_mmio_dispatch ==
  {"create_virtqueues", "get_status", "set_status", "get_features",
   "set_features", "read_config", "write_config", "reset_device", "notify"}

\* virtio_mmio_set_status: write STATUS.
virtio_mmio_set_status(s) == regs' = [regs EXCEPT !.status = s]

\* virtio_mmio_get_status: STATUS read as 32 bits and returned as uint8_t;
\* every status bit is in the low byte.
virtio_mmio_get_status == regs.status

\* virtio_mmio_get_features -> _virtio_mmio_get_features(idx 0): select
\* window 0 and return DEVICE_FEATURES AND vdev->features, the set already
\* negotiated, not the device's offer.
virtio_mmio_get_features == Offered \cap features

\* Mutant: the wanted set written back without masking it by DEVICE_FEATURES.
set_features_no_mask(wanted) ==
  /\ regs' = [regs EXCEPT !.featSel = 0, !.driverFeatures = wanted]
  /\ features' = wanted

\* virtio_mmio_set_features -> _virtio_mmio_set_features(idx 0): select
\* window 0, read DEVICE_FEATURES, AND, write DRIVER_FEATURES, record.
virtio_mmio_set_features(wanted) ==
  /\ regs' = [regs EXCEPT !.featSel = 0,
                          !.driverFeatures = wanted \cap Offered]
  /\ features' = wanted \cap Offered

\* The generic wrappers of virtio.h forward to vdev->func and return
\* -ENXIO when the table lacks the operation.
Has(op) == op \in virtio_mmio_dispatch
virtio_set_status(s) == Has("set_status") /\ virtio_mmio_set_status(s)
virtio_get_status == IF Has("get_status") THEN virtio_mmio_get_status ELSE {}
virtio_get_features == IF Has("get_features") THEN virtio_mmio_get_features ELSE {}
virtio_set_features(w) == Has("set_features") /\ virtio_mmio_set_features(w)
virtio_negotiate_features_ret == IF Has("negotiate_features") THEN 0 ELSE "ENXIO"

\* The caller advances STATUS to ACK|DRIVER: virtio_get_status, OR in
\* DRIVER, virtio_set_status.
probe_set_status_driver ==
  /\ phase = "inited"
  /\ virtio_set_status(virtio_get_status \cup {"DRIVER"})
  /\ phase' = "driver"
  /\ UNCHANGED <<slot, role, idVersion, features, cfgIo, vqReady, vringsInfo,
                 infoCap, vringsNum, createIdx, isrVars, done, events>>

\* The caller negotiates the features it wants: with virtio_set_features
\* directly ("set"); as the spec describes, reading the offer with
\* virtio_get_features and proposing the part of it it wants ("get");
\* or with virtio_negotiate_features ("negotiate"), whose -ENXIO ends the
\* probe.
probe_negotiate(style, w) ==
  /\ phase = "driver"
  /\ CASE style = "set" ->
            virtio_set_features(w) /\ phase' = "featured"
       [] style = "get" ->
            virtio_set_features(w \cap virtio_get_features) /\ phase' = "featured"
       [] style = "negotiate" ->
            /\ virtio_negotiate_features_ret = "ENXIO"
            /\ phase' = "failed" /\ UNCHANGED <<regs, features>>
  /\ UNCHANGED <<slot, role, idVersion, cfgIo, vqReady, vringsInfo, infoCap,
                 vringsNum, createIdx, isrVars, done, events>>

\* virtio_mmio_register_device(vdev, NQ, vqs): allocate NQ entries, store
\* vqs[i] in each, vrings_num = NQ.
virtio_mmio_register_device ==
  /\ phase = "featured"
  /\ infoCap' = NQ
  /\ vringsInfo' = [i \in 0 .. MaxVrings - 1 |-> IF i < NQ THEN i ELSE NULL]
  /\ vringsNum' = NQ
  /\ phase' = "registered"
  /\ UNCHANGED <<slot, regs, role, idVersion, features, cfgIo, vqReady, createIdx,
                 isrVars, done, events>>

\* virtio_mmio_create_virtqueues, up to its loop: refuses without
\* vrings_info (-EINVAL).
virtio_mmio_create_virtqueues ==
  /\ infoCap > 0
  /\ phase' = "creating" /\ createIdx' = 0
  /\ UNCHANGED <<slot, regs, role, idVersion, features, cfgIo, vqReady, vringsInfo,
                 infoCap, vringsNum, isrVars, done, events>>

\* The caller's virtio_create_virtqueues: vdev->func has create_virtqueues,
\* so virtio.c hands the whole job to virtio_mmio_create_virtqueues.
virtio_create_virtqueues ==
  /\ phase = "registered"
  /\ Has("create_virtqueues")
  /\ virtio_mmio_create_virtqueues

\* Mutant: set-up that programs the queue without the QUEUE_NUM_MAX check.
setup_virtqueue_no_assert ==
  LET i  == createIdx
      vq == vringsInfo[i]
  IN
  /\ phase = "creating"
  /\ \/ /\ role # "driver" \/ idVersion # 1
        /\ phase' = "failed"
        /\ UNCHANGED <<regs, vringsInfo, vringsNum, createIdx>>
     \/ /\ role = "driver" /\ idVersion = 1
        /\ regs' = [regs EXCEPT !.queueSel = i, !.queueNum[i] = NENTRIES,
                                !.queueAlign[i] = 4096, !.queuePfn[i] = PFN(vq)]
        /\ vringsInfo' = [vringsInfo EXCEPT ![vringsNum] = vq]
        /\ vringsNum' = vringsNum + 1
        /\ createIdx' = i + 1
        /\ phase' = IF i + 1 = NQ THEN "created" ELSE "creating"
  /\ UNCHANGED <<slot, role, idVersion, features, cfgIo, vqReady, infoCap, isrVars,
                 done, events>>

\* virtio_mmio_setup_virtqueue(vdev, i, vrings_info[i].vq, ...), one loop
\* iteration of virtio_mmio_create_virtqueues.  Early returns: not the
\* driver role or not version 1 (NULL, so -ENODEV).  vring_info->vq is
\* only set when the vq passes the "already configured" test; otherwise
\* virtqueue_create gets vq == NULL: VQ_PARAM_CHK refuses it with
\* VQUEUE_DEBUG, and without it the NULL pointer is written through.
\* role_bk equals VIRTIO_DEV_DRIVER here, so role is unchanged.  Then
\* QUEUE_SEL, QUEUE_NUM_MAX checked by VIRTIO_ASSERT (metal_assert aborts),
\* QUEUE_NUM, QUEUE_ALIGN, QUEUE_PFN, and the vq is stored at
\* vrings_info[vrings_num++].
virtio_mmio_setup_virtqueue ==
  LET i  == createIdx
      vq == vringsInfo[i]
  IN
  /\ phase = "creating"
  /\ \/ /\ role # "driver" \/ idVersion # 1
        /\ phase' = "failed"
        /\ UNCHANGED <<regs, vringsInfo, vringsNum, createIdx>>
     \/ /\ role = "driver" /\ idVersion = 1 /\ ~vqReady[vq]
        /\ regs' = [regs EXCEPT !.queueSel = i]
        /\ phase' = IF VQUEUE_DEBUG THEN "failed" ELSE "ub"
        /\ UNCHANGED <<vringsInfo, vringsNum, createIdx>>
     \/ /\ role = "driver" /\ idVersion = 1 /\ vqReady[vq]
        /\ \/ /\ slot.qmax = 0 \/ slot.qmax < NENTRIES
              /\ regs' = [regs EXCEPT !.queueSel = i]
              /\ phase' = "assert"
              /\ UNCHANGED <<vringsInfo, vringsNum, createIdx>>
           \/ /\ slot.qmax # 0 /\ slot.qmax >= NENTRIES
              /\ regs' = [regs EXCEPT !.queueSel = i,
                                      !.queueNum[i] = NENTRIES,
                                      !.queueAlign[i] = 4096,
                                      !.queuePfn[i] = PFN(vq)]
              /\ vringsInfo' = [vringsInfo EXCEPT ![vringsNum] = vq]
              /\ vringsNum' = vringsNum + 1
              /\ createIdx' = i + 1
              /\ phase' = IF i + 1 = NQ THEN "created" ELSE "creating"
  /\ UNCHANGED <<slot, role, idVersion, features, cfgIo, vqReady, infoCap, isrVars,
                 done, events>>

\* The caller sets DRIVER_OK with virtio_set_status once the queues exist.
probe_set_status_driver_ok ==
  /\ phase = "created"
  /\ virtio_set_status(virtio_get_status \cup {"DRIVER_OK"})
  /\ phase' = "running"
  /\ UNCHANGED <<slot, role, idVersion, features, cfgIo, vqReady, vringsInfo,
                 infoCap, vringsNum, createIdx, isrVars, done, events>>

-----------------------------------------------------------------------------
(* The device: completions on live queues, configuration changes.          *)

\* The device uses a buffer of an activated queue (QUEUE_PFN # 0) once the
\* driver is ready, and raises the vring interrupt.
device_complete(q) ==
  /\ "DRIVER_OK" \in regs.status /\ regs.queuePfn[q] # 0
  /\ events < MaxEvents
  /\ done' = [done EXCEPT ![q] = @ + 1]
  /\ regs' = [regs EXCEPT !.intStatus = @ \cup {VRING}]
  /\ events' = events + 1
  /\ UNCHANGED <<slot, drvVars, isrVars>>

\* The device changes its configuration space and raises the config
\* interrupt.
device_config_change ==
  /\ regs.status # {} /\ events < MaxEvents
  /\ regs' = [regs EXCEPT !.intStatus = @ \cup {CONFIG}]
  /\ events' = events + 1
  /\ UNCHANGED <<slot, drvVars, isrVars, done>>

-----------------------------------------------------------------------------
(* virtio_mmio_isr, run while the interrupt line is asserted.              *)

\* isr = read32(INTERRUPT_STATUS).
virtio_mmio_isr_read ==
  /\ isrPc = "idle" /\ regs.intStatus # {}
  /\ isrVal' = regs.intStatus
  /\ isrI' = 0
  /\ isrPc' = IF VRING \in regs.intStatus THEN "callbacks" ELSE "ack"
  /\ UNCHANGED <<slot, regs, drvVars, done, events>>

\* One iteration of the callback loop over vrings_info[0 .. vrings_num):
\* the queue's callback drains its used ring.
virtio_mmio_isr_callback ==
  /\ isrPc = "callbacks" /\ isrI < vringsNum
  /\ done' = [done EXCEPT ![vringsInfo[isrI]] = 0]
  /\ isrI' = isrI + 1
  /\ UNCHANGED <<slot, regs, drvVars, isrPc, isrVal, events>>

virtio_mmio_isr_loop_end ==
  /\ isrPc = "callbacks" /\ isrI >= vringsNum
  /\ isrPc' = "ack"
  /\ UNCHANGED <<slot, regs, drvVars, isrVal, isrI, done,
                 events>>

\* Mutant: acknowledge only the vring bit, the one the handler serves.
isr_ack_vring_only ==
  /\ isrPc = "ack"
  /\ regs' = [regs EXCEPT !.intStatus = @ \ (isrVal \cap {VRING})]
  /\ isrPc' = "idle" /\ isrVal' = {}
  /\ UNCHANGED <<slot, drvVars, isrI, done, events>>

\* write32(INTERRUPT_ACK, isr): clears the bits that were read.
virtio_mmio_isr_ack ==
  /\ isrPc = "ack"
  /\ regs' = [regs EXCEPT !.intStatus = @ \ isrVal]
  /\ isrPc' = "idle" /\ isrVal' = {}
  /\ UNCHANGED <<slot, drvVars, isrI, done, events>>

-----------------------------------------------------------------------------
Next ==
  \/ \E m \in DeviceModes, ok \in MetalIoResults : virtio_mmio_device_init(m, ok)
  \/ probe_set_status_driver
  \/ \E st \in NegotiationStyles, w \in Wanted : probe_negotiate(st, w)
  \/ virtio_mmio_register_device
  \/ virtio_create_virtqueues
  \/ virtio_mmio_setup_virtqueue
  \/ probe_set_status_driver_ok
  \/ \E q \in Q : device_complete(q)
  \/ device_config_change
  \/ virtio_mmio_isr_read
  \/ virtio_mmio_isr_callback
  \/ virtio_mmio_isr_loop_end
  \/ virtio_mmio_isr_ack

\* The interrupt line is level-triggered: while INTERRUPT_STATUS is non-zero
\* the CPU takes the interrupt, and the handler runs to its end.
IsrFairness ==
  /\ WF_vars(virtio_mmio_isr_read)
  /\ WF_vars(virtio_mmio_isr_callback)
  /\ WF_vars(virtio_mmio_isr_loop_end)
  /\ WF_vars(virtio_mmio_isr_ack)

Spec == Init /\ [][Next]_vars
FairSpec == Spec /\ IsrFairness

-----------------------------------------------------------------------------
TypeOK ==
  /\ regs.status \subseteq {"ACK", "DRIVER", "DRIVER_OK"}
  /\ regs.intStatus \subseteq {VRING, CONFIG}
  /\ regs.queuePfn \in [Q -> Nat] /\ regs.queueNum \in [Q -> Nat]
  /\ role \in DeviceModes /\ features \subseteq Offered /\ cfgIo \in BOOLEAN
  /\ vringsInfo \in [0 .. MaxVrings - 1 -> Q \cup {NULL}]
  /\ vringsNum \in 0 .. MaxVrings /\ infoCap \in 0 .. NQ
  /\ isrPc \in {"idle", "callbacks", "ack"} /\ isrVal \subseteq {VRING, CONFIG}
  /\ done \in [Q -> 0 .. MaxEvents]

\* A queue the device has been handed (QUEUE_PFN written non-zero) was set
\* up by virtio_mmio_device_init and virtio_mmio_setup_virtqueue through
\* the cfg_io region virtio_mmio_get_metal_io mapped (its failure is
\* ignored by device_init), on a slot
\* with the right MAGIC, VERSION 1 and a device, in the driver role, with a
\* QUEUE_NUM the device's QUEUE_NUM_MAX allows, and sits in vrings_info
\* below vrings_num, so virtio_mmio_isr will call its callback.
QueueActivationSound ==
  \A q \in Q : regs.queuePfn[q] # 0 =>
    /\ cfgIo
    /\ slot.magic = MAGIC /\ slot.version = 1 /\ slot.devid # 0
    /\ role = "driver" /\ "DRIVER" \in regs.status
    /\ regs.queueNum[q] \in 1 .. slot.qmax /\ regs.queueAlign[q] = 4096
    /\ \E i \in 0 .. vringsNum - 1 : vringsInfo[i] = q

\* virtio_mmio_isr writes back to INTERRUPT_ACK every bit it read, the
\* configuration-change bit it only warns about included, so once the
\* device stops raising interrupts the line is deasserted and the handler
\* is not re-entered forever.
InterruptLineSettles == regs.intStatus # {} ~> regs.intStatus = {}

\* virtio_mmio_setup_virtqueue and virtio_mmio_isr only index vrings_info
\* below the number of entries virtio_mmio_register_device allocated.
VringsInfoInBounds == vringsNum <= infoCap \/ infoCap = 0

\* Spec: virtqueue_create refuses missing storage with NO_MEM; set-up of a
\* queue that was not pre-configured hands it vq == NULL, and the release
\* build writes through that pointer.
SetupNeverUsesNullQueue == phase # "ub"

=============================================================================

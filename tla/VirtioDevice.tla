---------------------------- MODULE VirtioDevice ----------------------------
(***************************************************************************)
(* The virtual-device layer around one driver-side queue: the generic      *)
(* virtio_reset_device wrapper (src/lib/include/openamp/virtio.h) and      *)
(* virtio_create_virtqueues (src/lib/virtio/virtio.c), which zeroes the    *)
(* vring memory of a driver and calls virtqueue_create on the device's     *)
(* existing struct virtqueue.  The queue itself is the Virtqueue module.   *)
(*                                                                         *)
(* The device peer is not part of this library on the reset path: per the *)
(* spec it discards all its queue state when the status goes to 0, so the  *)
(* reset step puts the device's queue back to the fresh state.            *)
(***************************************************************************)
EXTENDS Virtqueue

VARIABLE lifecycle   \* "live" | "reset": status written 0, queues not re-created

allVars == <<vars, lifecycle>>

DevInit == Init /\ lifecycle = "live"

\* Queue operations only run on a live device.
QueueStep == lifecycle = "live" /\ Next /\ UNCHANGED lifecycle

\* virtio_reset_device -> reset_device: status 0.  The driver's callers
\* abandon the buffers still in flight; the device peer drops its queue.
virtio_reset_device ==
  /\ lifecycle = "live" /\ drvPc = "idle"
  /\ lifecycle' = "reset"
  /\ devAvailCons' = 0 /\ devQueued' = 0
  /\ devHeld' = {} /\ devPc' = "idle" /\ devPending' = CHAIN_END
  /\ devRun' = "sleeping" /\ kickPending' = FALSE /\ irqPending' = FALSE
  /\ inflight' = {}
  /\ UNCHANGED <<ring, eventIdx, drv, drvPc, drvPending, adds, strays>>

\* virtio_create_virtqueues, driver role, for this queue: metal_io_block_set
\* zeroes vring_size() bytes of the vring, then virtqueue_create sets
\* vq_nentries and vq_free_cnt and vq_ring_init threads desc[].next.
\* vq_desc_head_idx, vq_used_cons_idx, vq_queued_cnt and vq_descx keep
\* whatever the struct held.
virtio_create_virtqueues ==
  /\ lifecycle = "reset"
  /\ lifecycle' = "live"
  /\ desc' = vq_ring_init
  /\ availRing' = [s \in Idx |-> 0] /\ usedRing' = [s \in Idx |-> 0]
  /\ availIdx' = 0 /\ usedIdx' = 0 /\ usedEvent' = 0 /\ availEvent' = 0
  /\ availFlags' = FALSE /\ usedFlags' = FALSE
  /\ drvFree' = N
  /\ UNCHANGED <<eventIdx, drvHead, drvQueued, drvUsedCons, descx, dev, env>>

DevNextAll == QueueStep \/ virtio_reset_device \/ virtio_create_virtqueues

DevSpec == DevInit /\ [][DevNextAll]_allVars

\* The driver's queue as a freshly allocated and created one is.
FreshDriverQueue ==
  /\ drvHead = 0 /\ drvFree = N /\ drvQueued = 0
  /\ drvUsedCons = usedIdx
  /\ \A i \in Idx : descx[i].cookie = NULL

\* Spec section 8, property 6: reset followed by re-creating the queues
\* leaves the driver's queue identical to a fresh start, so the free list,
\* the consumed index and the cookie table agree with the zeroed vring.
ResetRecreateIsFresh ==
  [][lifecycle = "reset" /\ lifecycle' = "live" => FreshDriverQueue']_allVars

=============================================================================

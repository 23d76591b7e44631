----------------------------- MODULE MmioQueue -----------------------------
(***************************************************************************)
(* One driver-side virtqueue (module Virtqueue) behind the MMIO transport  *)
(* interrupt (src/lib/virtio_mmio/virtio_mmio_drv.c, virtio_mmio_isr).    *)
(*                                                                         *)
(* The device's vq_ring_notify sets the VRING bit of INTERRUPT_STATUS,     *)
(* which is irqPending of the queue model.  The driver reclaims only from  *)
(* its queue callback, which virtio_mmio_isr calls: the callback drains    *)
(* the used ring with virtqueue_get_buffer until it returns NULL, re-arms *)
(* with virtqueue_enable_cb and drains again while that reports entries.  *)
(* virtio_mmio_isr then writes INTERRUPT_ACK with the status it read.     *)
(* The driver thread only adds buffers and kicks, with the interrupt      *)
(* masked around each call (spec section 5), so the ISR runs between the   *)
(* thread's calls and the device runs concurrently with both.             *)
(***************************************************************************)
EXTENDS Virtqueue

VARIABLE isrPc   \* virtio_mmio_isr: "idle" | "drain" | "rearm" | "ack"

allVars == <<vars, isrPc>>

MqInit == Init /\ isrPc = "idle"

\* isr = read32(INTERRUPT_STATUS); the VRING bit is set, so the loop over
\* vrings_info calls the queue's callback.  The thread is between calls.
virtio_mmio_isr_read ==
  /\ isrPc = "idle" /\ irqPending /\ drvPc = "idle"
  /\ isrPc' = "drain"
  /\ UNCHANGED vars

\* The callback's virtqueue_get_buffer returning a buffer.
callback_get_buffer ==
  /\ isrPc = "drain" /\ drvUsedCons # usedIdx
  /\ vq_free_used_entry("idle")
  /\ UNCHANGED <<irqPending, eventIdx, isrPc>>

\* The callback's virtqueue_get_buffer returning NULL.
callback_get_buffer_null ==
  /\ isrPc = "drain" /\ drvUsedCons = usedIdx
  /\ isrPc' = "rearm"
  /\ UNCHANGED vars

\* The callback's virtqueue_enable_cb: re-arm, then a non-zero
\* virtqueue_nused sends it back to draining; else it returns.
callback_enable_cb ==
  /\ isrPc = "rearm"
  /\ virtqueue_enable_cb_driver
  /\ isrPc' = IF virtqueue_nused > 0 THEN "drain" ELSE "ack"
  /\ UNCHANGED eventIdx

\* write32(INTERRUPT_ACK, isr): clears the VRING bit it read, whether or
\* not the device set it again since.
virtio_mmio_isr_ack ==
  /\ isrPc = "ack"
  /\ irqPending' = FALSE
  /\ isrPc' = "idle"
  /\ UNCHANGED <<ring, drv, dev, kickPending, drvPc, drvPending, devPc,
                 devPending, devRun, devHeld, inflight, adds, strays, eventIdx>>

\* The driver thread: add buffers and kick, never reclaim.
ThreadNext ==
  \/ \E r \in 0 .. MaxChain, w \in 0 .. MaxChain, c \in Cookies :
       /\ 1 <= r + w /\ r + w <= MaxChain
       /\ \/ virtqueue_add_buffer(r, w, c)
          \/ virtqueue_add_buffer_full(r, w, c)
  \/ vq_ring_update_avail_idx
  \/ virtqueue_kick_driver

IsrNext ==
  \/ virtio_mmio_isr_read
  \/ callback_get_buffer
  \/ callback_get_buffer_null
  \/ callback_enable_cb
  \/ virtio_mmio_isr_ack

MqNext == ((ThreadNext \/ DevNext) /\ UNCHANGED <<eventIdx, isrPc>>) \/ IsrNext

(* The device serves what it is given as in Virtqueue; the thread finishes *)
(* the publish and kick it started; the interrupt line is level-triggered, *)
(* so while the VRING bit is set the ISR is taken and runs to its end.     *)
MqFairness ==
  /\ WF_stateVars(vq_ring_update_avail_idx)
  /\ WF_stateVars(virtqueue_kick_driver)
  /\ WF_stateVars(virtqueue_notification_device)
  /\ WF_stateVars(virtqueue_get_available_buffer)
  /\ WF_stateVars(virtqueue_get_available_buffer_empty)
  /\ WF_stateVars(virtqueue_enable_cb_device)
  /\ WF_stateVars(\E h \in devHeld : ReturnHead(h))
  /\ WF_stateVars(virtqueue_add_consumed_buffer_idx)
  /\ WF_stateVars(virtqueue_kick_device)
  /\ WF_allVars(IsrNext)

MqSpec == MqInit /\ [][MqNext]_allVars /\ MqFairness

\* Spec section 4.4 (ISR) and 4.2.6: a driver that reclaims in its queue
\* callback gets every buffer back, because each completion the device
\* signals leads to a virtio_mmio_isr run that drains it.  The ISR writes
\* INTERRUPT_ACK after the callbacks with the status read before them.
IsrReclaimsEveryBuffer == \A c \in Cookies : c \in inflight ~> c \notin inflight

=============================================================================

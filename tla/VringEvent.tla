----------------------------- MODULE VringEvent -----------------------------
(***************************************************************************)
(* The event-index test of src/lib/include/openamp/virtio_ring.h and the   *)
(* 16-bit arithmetic it relies on.  A producer that has published          *)
(* vq_queued_cnt entries since its last notification asks                  *)
(* vring_need_event whether the peer's event index lies among them.       *)
(***************************************************************************)
EXTENDS Integers

U16(x) == x % 65536                  \* uint16_t arithmetic

\* Mutant: the event window test off by one.
need_event_off_by_one(event, new, old) == U16(new - event) < U16(new - old)

\* Mutant: the left operand left in int after promotion, without the
\* (uint16_t) cast.
need_event_no_cast(event, new, old) == new - event - 1 < U16(new - old)

\* vring_need_event(event_idx, new_idx, old)
vring_need_event(event, new, old) == U16(new - event - 1) < U16(new - old)

\* vq_ring_must_notify with VIRTIO_RING_F_EVENT_IDX: prev_idx is the
\* published index less vq_queued_cnt, both uint16_t.
must_notify_event(event, new, queued) ==
  vring_need_event(event, new, U16(new - queued))

-----------------------------------------------------------------------------
(* Reference: without wrapping, the producer moved its index from old to  *)
(* old + k; the peer's event index is 16-bit, so it stands for event and  *)
(* event + 65536 on that line.                                             *)
Crossed(event, old, k) ==
  \E e \in {event, event + 65536} : old <= e /\ e < old + k

\* Queue counts and event offsets on either side of every boundary.
EdgeIdx == {0, 1, 32767, 32768, 65534, 65535}
EdgeCnt == {0, 1, 2, 3, 32767, 32768, 32769, 65534, 65535}
EdgeOff(k) == {0, 1, 32768, 65535} \cup {U16(k + d) : d \in -2 .. 1}

\* vq_ring_must_notify's answer for a producer that moved its index from
\* old by k entries, against the reference.
MatchesWindow(event, old, k) ==
  must_notify_event(event, U16(old + k), k) = Crossed(event, old, k)

=============================================================================

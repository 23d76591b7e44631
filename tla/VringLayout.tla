---------------------------- MODULE VringLayout ----------------------------
(***************************************************************************)
(* Layout of the shared vring (src/lib/include/openamp/virtio_ring.h):     *)
(* vring_size, the number of bytes virtio_create_virtqueues clears before  *)
(* a driver creates a queue, and vring_init, which places desc, avail and  *)
(* used from the ring's start address; the event-index test of the same   *)
(* header is module VringEvent.  Byte offsets and sizes only: the contents *)
(* of the fields are the Virtqueue module.                                 *)
(***************************************************************************)
EXTENDS Naturals, Bitwise, VringEvent

CONSTANTS
  Nums,     \* descriptor counts a vring_alloc_info may carry
  Aligns,   \* alignments a vring_alloc_info may carry
  Addrs     \* start addresses (vaddr) of the ring memory

\* sizeof of the packed structures: struct vring_desc is 16 bytes, the
\* vring_avail and vring_used headers 4, a vring_used_elem 8, a u16 2.
DESC_SZ == 16
HDR_SZ == 4
ELEM_SZ == 8
U16_SZ == 2

\* (x + align - 1) & ~(align - 1), with x & ~m written as x - (x & m).
align_mask_up(x, a) == (x + a - 1) - ((x + a - 1) & (a - 1))

\* Mutant: the size without rounding the avail ring up to the alignment.
vring_size_no_round(num, align) ==
  num * DESC_SZ + HDR_SZ + num * U16_SZ + U16_SZ + HDR_SZ + num * ELEM_SZ + U16_SZ

vring_size(num, align) ==
  LET s1 == num * DESC_SZ + HDR_SZ + num * U16_SZ + U16_SZ
  IN  align_mask_up(s1, align) + HDR_SZ + num * ELEM_SZ + U16_SZ

\* Mutant: used placed after avail->ring[num] without the used_event field.
vring_init_no_used_event(num, p, align) ==
  LET avail == p + num * DESC_SZ
  IN  [num |-> num, desc |-> p, avail |-> avail,
       used |-> align_mask_up(avail + HDR_SZ + num * U16_SZ, align)]

\* vring_init: used is aligned as an absolute address, &avail->ring[num]
\* plus the trailing used_event field rounded up to the alignment.
vring_init(num, p, align) ==
  LET avail == p + num * DESC_SZ
  IN  [num |-> num, desc |-> p, avail |-> avail,
       used |-> align_mask_up(avail + HDR_SZ + num * U16_SZ + U16_SZ, align)]

VARIABLES
  vr,       \* struct vring of the queue: num and the three addresses
  zeroed,   \* [lo, hi): bytes metal_io_block_set cleared before creation
  align     \* alignment the queue was created with

vars == <<vr, zeroed, align>>

Init ==
  /\ vr = [num |-> 0, desc |-> 0, avail |-> 0, used |-> 0]
  /\ zeroed = [lo |-> 0, hi |-> 0]
  /\ align = 0

\* virtio_create_virtqueues for a driver queue: clear vring_size bytes at
\* vaddr, then virtqueue_create -> vq_ring_init -> vring_init.
virtio_create_vring(n, a, p) ==
  /\ zeroed' = [lo |-> p, hi |-> p + vring_size(n, a)]
  /\ vr' = vring_init(n, p, a)
  /\ align' = a

Next == \E n \in Nums, a \in Aligns, p \in Addrs : virtio_create_vring(n, a, p)

Spec == Init /\ [][Next]_vars

-----------------------------------------------------------------------------
\* Reference definition, spec section 8 property 8:
\* vring_size(num, align) = align_up(16*num + 6 + 2*num, align) + 6 + 8*num,
\* with align_up the least multiple of align not below its argument.
AlignUp(x, a) == ((x + a - 1) \div a) * a

VringSizeFormula ==
  vr.num > 0 =>
    zeroed.hi - zeroed.lo
      = AlignUp(16 * vr.num + 6 + 2 * vr.num, align) + 6 + 8 * vr.num

\* The three structures vring_init places lie in order, do not overlap,
\* used starts on an alignment boundary, and all of them, trailing event
\* fields included, lie inside the bytes virtio_create_virtqueues cleared:
\* otherwise a driver would start on a stale used.idx or avail_event.
RingLayoutSound ==
  vr.num > 0 =>
    LET availEnd == vr.avail + HDR_SZ + vr.num * U16_SZ + U16_SZ
        usedEnd  == vr.used + HDR_SZ + vr.num * ELEM_SZ + U16_SZ
    IN  /\ vr.desc = zeroed.lo
        /\ vr.avail = vr.desc + vr.num * DESC_SZ
        /\ availEnd <= vr.used
        /\ vr.used % align = 0
        /\ usedEnd <= zeroed.hi

=============================================================================

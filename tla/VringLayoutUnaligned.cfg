\* Ring memory at an address that is not a multiple of the alignment:
\* nothing in virtio_create_virtqueues or virtqueue_create refuses it.
CONSTANTS
  Nums <- MCNums
  NULL = NULL
  Aligns = {16, 4096}
  Addrs = {0, 4108}
SPECIFICATION MCSpec
INVARIANT RingLayoutSound

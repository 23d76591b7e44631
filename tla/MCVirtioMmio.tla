---------------------------- MODULE MCVirtioMmio ----------------------------
(* Model-checking instance of VirtioMmio.                                 *)
EXTENDS VirtioMmio, TLC

\* Every combination of good and bad register contents, and a
\* QUEUE_NUM_MAX of 0, too small, or large enough for NENTRIES = 4.
MCSlots == [magic : {MAGIC, "bad"}, version : {1, 2}, devid : {0, 7},
            qmax : {0, 2, 4}]

\* A device that behaves: the only slot the liveness runs probe.
MCGoodSlots == [magic : {MAGIC}, version : {1}, devid : {7}, qmax : {4}]

MCWanted == {{}, {"EVENT_IDX"}, {"EVENT_IDX", "BAD_FEATURE"}}

=============================================================================

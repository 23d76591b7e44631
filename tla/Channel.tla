------------------------------ MODULE Channel ------------------------------
(***************************************************************************)
(* What one virtqueue promises its two users, with rings, descriptors and  *)
(* notifications abstracted away (spec sections 4.1 and 4.2): the driver   *)
(* posts buffers, the device takes them in the order they were posted,     *)
(* returns them in any order it likes, and the driver gets them back in    *)
(* the order they were returned.  At most Capacity buffers are in the      *)
(* channel at once, one per descriptor at least.                           *)
(***************************************************************************)
EXTENDS Naturals, Sequences, FiniteSets

CONSTANTS Cookies,   \* the buffers, by their cookies
          Capacity   \* vq_nentries

VARIABLES avail,     \* posted and not yet taken, oldest first
          held,      \* taken by the device and not yet returned
          used       \* returned and not yet reclaimed, oldest first

chanVars == <<avail, held, used>>

SeqElems(s) == {s[k] : k \in DOMAIN s}
InChannel == SeqElems(avail) \cup held \cup SeqElems(used)
Load == Len(avail) + Cardinality(held) + Len(used)

Init == avail = <<>> /\ held = {} /\ used = <<>>

\* The driver makes a buffer it owns visible to the device.
Post(c) ==
  /\ c \notin InChannel /\ Load < Capacity
  /\ avail' = Append(avail, c)
  /\ UNCHANGED <<held, used>>

\* The device takes the oldest posted buffer.
Take ==
  /\ avail # <<>>
  /\ avail' = Tail(avail) /\ held' = held \cup {Head(avail)}
  /\ UNCHANGED used

\* The device hands back any buffer it holds.
Complete(c) ==
  /\ c \in held
  /\ held' = held \ {c} /\ used' = Append(used, c)
  /\ UNCHANGED avail

\* The driver gets back the oldest returned buffer.
Reclaim ==
  /\ used # <<>>
  /\ used' = Tail(used)
  /\ UNCHANGED <<avail, held>>

Next == (\E c \in Cookies : Post(c) \/ Complete(c)) \/ Take \/ Reclaim

Spec == Init /\ [][Next]_chanVars

\* A buffer is in at most one place in the channel at a time.
TypeOK ==
  /\ avail \in Seq(Cookies) /\ held \subseteq Cookies /\ used \in Seq(Cookies)
  /\ Load = Cardinality(InChannel) /\ Load <= Capacity

=============================================================================

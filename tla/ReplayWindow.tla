---------------------------- MODULE ReplayWindow ----------------------------
(***************************************************************************)
(* One direction of an encrypted session of the mesh radio: every sealed   *)
(* frame has a counter, and the receiver's sliding window decides whether  *)
(* a counter is new.  The channel may deliver frames in any order and any  *)
(* number of times; a frame may also be damaged in a way only the          *)
(* authentication of its contents finds.                                   *)
(*                                                                         *)
(* The bitmap, an integer of Window bits in the code, is the set of its    *)
(* set bits: bit d stands for the counter top - d.                         *)
(***************************************************************************)
EXTENDS Integers, Sequences

CONSTANTS
  Window,    \* width of the bitmap (WINDOW, 2048)
  MaxFrames  \* bound: frames sealed, and frames opened, in a session

\* What the theorems assume of the constants.
Sizes == Window \in Nat \ {0} /\ MaxFrames \in Nat

VARIABLES
  ctr,    \* the sender's next counter (tx_ctr)
  top,    \* the highest counter marked
  bits,   \* the bitmap
  opened  \* history: the counters of the frames opened, in their order

vars == <<ctr, top, bits, opened>>

Sent == 0..(ctr - 1)

Init ==
  /\ ctr = 0
  /\ top = -1
  /\ bits = {}
  /\ opened = <<>>

Fresh(n) == n > top \/ (top - n < Window /\ top - n \notin bits)

\* The bitmap moved up by k, with the bit of the new top.
Shifted(k) == ({d + k : d \in bits} \cup {0}) \cap 0..(Window - 1)

Mark(n) ==
  IF n > top
  THEN /\ bits' = Shifted(n - top)
       /\ top' = n
  ELSE /\ bits' = bits \cup {top - n}
       /\ UNCHANGED top

----------------------------------------------------------------------------
\* The sender seals a frame.
Protect ==
  /\ ctr < MaxFrames
  /\ ctr' = ctr + 1
  /\ UNCHANGED <<top, bits, opened>>

\* A frame arrives, the first time or again; an old or known one is dropped
\* before it is decrypted, a damaged one leaves no mark.
Open(n, intact) ==
  /\ Fresh(n) /\ intact
  /\ Mark(n)
  /\ opened' = Append(opened, n)
  /\ UNCHANGED ctr

Drop(n, intact) ==
  /\ ~Fresh(n) \/ ~intact
  /\ UNCHANGED vars

Next ==
  \/ Protect
  \/ \E n \in Sent, intact \in BOOLEAN : Open(n, intact) \/ Drop(n, intact)

Spec == Init /\ [][Next]_vars

----------------------------------------------------------------------------
\* Properties

Opened == {opened[i] : i \in DOMAIN opened}

TypeOK ==
  /\ ctr \in 0..MaxFrames
  /\ top \in -1..(ctr - 1)
  /\ bits \subseteq 0..(Window - 1)
  /\ opened \in Seq(Sent)

\* No counter is opened twice, in whatever order and however often the frames
\* arrive (_open: a replayed frame is dropped and not acknowledged).
OpenedOnce ==
  \A i, j \in DOMAIN opened : opened[i] = opened[j] => i = j

\* A frame that is refused was opened before, or is a window behind: reordering
\* within the window costs no frame (_Window.fresh and mark).
RefusedForCause ==
  \A n \in Sent : ~Fresh(n) => n \in Opened \/ n <= top - Window

\* The bitmap is exactly the record of the last counters: what the two
\* properties rest on.
Exact ==
  /\ \A d \in 0..(Window - 1) : d \in bits <=> top - d \in Opened
  /\ \A n \in Opened : n <= top
=============================================================================

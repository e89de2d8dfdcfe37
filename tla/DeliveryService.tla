-------------------------- MODULE DeliveryService --------------------------
(***************************************************************************)
(* What one direction of a link promises its two applications.             *)
(*                                                                         *)
(* Payloads are numbered in the order the sender sends them.  Each is      *)
(* reported to the sending application at most once, as acknowledged or as *)
(* failed; acknowledged only once the receiving end has it.  The receiving *)
(* end hands payloads up in order, each at most once, and passes over a    *)
(* payload only after it failed.  A failed payload may still arrive.       *)
(***************************************************************************)
EXTENDS Integers

VARIABLES
  offered,  \* payloads numbered so far: 0..(offered - 1)
  acked,    \* reported acknowledged
  failed,   \* reported failed, or withdrawn by the sender
  held,     \* at the receiving end, not handed up yet
  handed    \* handed up

vars == <<offered, acked, failed, held, handed>>

Init == offered = 0 /\ acked = {} /\ failed = {} /\ held = {} /\ handed = {}

\* The sending end numbers payloads and reports on outstanding ones.
SenderStep ==
  /\ offered' \in Nat /\ offered <= offered'
  /\ acked \subseteq acked' /\ failed \subseteq failed'
  /\ \A n \in acked' \ acked :
       n < offered /\ n \notin failed' /\ n \in held \cup handed
  /\ \A n \in failed' \ failed : n < offered /\ n \notin acked'
  /\ UNCHANGED <<held, handed>>

\* The receiving end takes payloads in and hands up a run of what it has.
ReceiverStep ==
  /\ handed \subseteq handed'
  /\ held \subseteq held' \cup handed'
  /\ \A n \in held' \cup handed' : n \in Nat /\ n < offered
  /\ held' \cap handed' = {}
  /\ \A n \in handed' \ handed :
       /\ \A m \in handed : m < n
       /\ \A m \in 0..(n - 1) : m \in handed' \cup failed
  /\ \A n \in held' : \A m \in handed' : m < n
  /\ UNCHANGED <<offered, acked, failed>>

Next == SenderStep \/ ReceiverStep

Spec == Init /\ [][Next]_vars

=============================================================================

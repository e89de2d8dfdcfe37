--------------------------- MODULE MCFileTransfer ---------------------------
(***************************************************************************)
(* Instances of FileTransfer: node A sends one file with two losses, one   *)
(* outage and a restart of each node to spare, or two files one after the  *)
(* other with one loss, or both nodes send one at the same time, with the  *)
(* header of B's file given up already.                                    *)
(***************************************************************************)
EXTENDS FileTransfer

MCNodes == {"A", "B"}

MCFiles == {"a1", "a2", "b1"}

MCOrigin == [f \in Files |-> IF f = "b1" THEN "B" ELSE "A"]

\* The first file of A has two fragments, so that one alone can be missing.
MCSize == [f \in Files |-> IF f = "a1" THEN 2 ELSE 1]

MCContent == [f \in Files |-> f]

OneAfterTheOther == {{"a1", "a2"}}
AllOffers == OneAfterTheOther \cup {{"a1"}, {"a2", "b1"}}

Offered == {f \in Files : verdict[f] # "withheld"}

\* Of the budgets, used items have been lost, and neither an outage nor a
\* restart is left.
OnlyLosses(used) ==
  lost = used /\ outages = MaxOutages /\ lives = [n \in Nodes |-> MaxLives]

\* B has started its file, the link has given up the header, and the transfer
\* is in its second round (SendFile, Pump and GiveUp of B).
HeaderGivenUp ==
  /\ tx = [n \in Nodes |-> IF n = "A" THEN Nobody
                           ELSE [file |-> "b1", round |-> 2, waiting |-> FALSE]]
  /\ bulk = [n \in Nodes |-> IF n = "A" THEN << >> ELSE WholeFile("b1")]
  /\ out = [n \in Nodes |-> IF n = "A" THEN << >>
              ELSE <<[item |-> Header("b1"), bulk |-> TRUE, state |-> "lost"]>>]
  /\ verdict["b1"] = "sending" /\ verdict["a2"] = "unsent"

NothingSent ==
  /\ \A f \in Files : verdict[f] # "sending"
  /\ tx = [n \in Nodes |-> Nobody] /\ bulk = [n \in Nodes |-> << >>]
  /\ out = [n \in Nodes |-> << >>]

\* Nothing has been received, or is owed.
Start ==
  /\ hi = [n \in Nodes |-> << >>] /\ written = << >>
  /\ rx = [n \in Nodes |-> Nobody] /\ last = [n \in Nodes |-> Nobody]
  /\ verdict \in [Files -> {"unsent", "withheld", "sending"}]

MCInit ==
  \/ Init /\ Offered = {"a1"}
  \/ Start /\ OnlyLosses(1) /\ Offered = {"a1", "a2"} /\ NothingSent
  \/ Start /\ OnlyLosses(2) /\ Offered = {"a2", "b1"} /\ HeaderGivenUp

MCFairSpec == MCInit /\ [][Next]_vars /\ Fairness

=============================================================================

----------------------------- MODULE MCChatApp -----------------------------
(***************************************************************************)
(* Two nodes and two addresses, one of which both may come to hold.  A run *)
(* submits two of: a text of two frames, two files, all three for p, and a *)
(* message to the group.                                                   *)
(***************************************************************************)
EXTENDS ChatApp, Sequences

MCPeers  == {"p", "q"}
MCAddrs  == {1, 2}
MCReach  == [x \in MCPeers |-> IF x = "p" THEN {1, 2} ELSE {1}]
MCTexts  == {1, 4}
MCFiles  == {2, 3}
MCTo     == <<"p", "p", "p", "group">>
MCFrames == <<2, 1, 1, 1>>
MCOffers == {{1, 2}, {2, 3}, {1, 4}, {2, 4}}

=============================================================================

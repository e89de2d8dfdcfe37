----------------------------- MODULE MCFraming -----------------------------
(***************************************************************************)
(* Frames of one and two bytes of one bit, behind a code of five bits in   *)
(* three parts, and a frame that is too long.  Two of the shortest fit     *)
(* into the stream, and two fit into the backlog once some of the first is *)
(* out: the second is refused when it comes before that.                   *)
(***************************************************************************)
EXTENDS Framing

MCCode     == <<1, 1, 1, 0, 1>>
MCParts    == {{0, 1}, {2, 3}, {4}}
MCPre      == <<0>>
MCPost     == <<0>>
MCFiller   == <<0, 0, 1>>
MCPayloads == {<<1>>, <<1, 0>>, <<1, 0, 1>>}

=============================================================================

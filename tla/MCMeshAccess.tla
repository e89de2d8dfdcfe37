---------------------------- MODULE MCMeshAccess ----------------------------
(***************************************************************************)
(* Three nodes and two channels.  Nodes 1 and 2 derive the same address    *)
(* first, and the next address of node 1 is the first one of node 3.       *)
(***************************************************************************)
EXTENDS MeshAccess

MCDerive == <<<<1, 2, 5>>, <<1, 3>>, <<2, 4>>>>
=============================================================================

-------------------------- MODULE MCDatasetBuilder --------------------------
(***************************************************************************)
(* Session directories for model checking DatasetBuilder: four sessions of *)
(* one configuration, one of another, a rejected one, and a copy of the    *)
(* first.                                                                  *)
(***************************************************************************)
EXTENDS DatasetBuilder

Session(id, frames) ==
  [id |-> id, digests |-> "first", frames |-> frames, accepted |-> TRUE]

MCDirectories ==
  {Session(1, 1), Session(2, 3), Session(3, 2), Session(4, 1),
   [Session(5, 1) EXCEPT !.digests = "second"],
   [Session(6, 1) EXCEPT !.accepted = FALSE],
   Session(1, 2)}
=============================================================================

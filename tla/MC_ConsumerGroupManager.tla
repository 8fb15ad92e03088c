---------------------- MODULE MC_ConsumerGroupManager ----------------------
(***************************************************************************)
(* Instantiation of ConsumerGroupManager for TLC.  The .cfg files give the *)
(* model values; the bounds below are shared by all of them.               *)
(***************************************************************************)
EXTENDS ConsumerGroupManager, TLC

\* Group ids are interchangeable: nothing in the manager orders them.
GroupSymmetry == Permutations(Groups)

=============================================================================

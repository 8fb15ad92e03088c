------------------------- MODULE MC_ConsumerFactory -------------------------
(* Model-checking instance of ConsumerFactory; the constants are given in  *)
(* the MC_factory_*.cfg files.                                             *)
EXTENDS ConsumerFactory, TLC
=============================================================================

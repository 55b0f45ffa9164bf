---------------------------- MODULE AiFallbackMC ----------------------------
(***************************************************************************)
(* Small instances of AiFallback.                                          *)
(***************************************************************************)
EXTENDS AiFallback, TLC

\* Requests and workers differ in their names only (for runs of safety).
Twins == Permutations(Clients) \cup Permutations(Workers)
=============================================================================

---------------------------- MODULE MCRenderQueue ----------------------------
(***************************************************************************)
(* Instances of RenderQueue for TLC.                                       *)
(***************************************************************************)
EXTENDS RenderQueue

\* Books are interchangeable, and so are the handlers.
RenderSymmetry == Permutations(Books) \cup Permutations(Handlers)
===============================================================================

-------------------------- MODULE MCRendererFocus --------------------------
(* Two streams of one or two applications. *)
EXTENDS RendererFocus

CONSTANTS s1, s2, a1, a2

MCProfile ==
  {[pid |-> pid, type |-> type, listed |-> FALSE, mute |-> FALSE] :
     pid \in App,
     type \in {"MUSIC", "NAVIGATION", "VOICE_CALL", "VOICE_COMMUNICATION"}}

Symmetry == Permutations(Stream) \cup Permutations(App)
=============================================================================

-------------------------- MODULE MCAudioInterrupt --------------------------
(* Three streams, alike but for the profile each begins with. *)
EXTENDS AudioInterrupt

CONSTANTS s1, s2, s3, a1, a2, a3

As(pid, type) == [pid |-> pid, type |-> type, listed |-> FALSE, mute |-> FALSE]

\* Three applications that use every type, with a media player that pauses
\* others, a listed recorder and one that would rather be muted.
MCProfile ==
  {As(pid, type) : pid \in App, type \in Type}
  \cup {[As(pid, type) EXCEPT !.listed = TRUE] : pid \in App, type \in {"MUSIC", "MIC"}}
  \cup {[As(pid, "MIC") EXCEPT !.mute = TRUE] : pid \in App}

Symmetry == Permutations(Stream) \cup Permutations(App)
=============================================================================

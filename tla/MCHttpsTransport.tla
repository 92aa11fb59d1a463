--------------------------- MODULE MCHttpsTransport --------------------------
(* Model checking HttpsTransport: symmetry for the runs that check safety.  *)
EXTENDS HttpsTransport, TLC

\* Requests, connections and keys are interchangeable.
Symmetry == Permutations(Reqs) \cup Permutations(Conns) \cup Permutations(Keys)

=============================================================================

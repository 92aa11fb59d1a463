---------------------------- MODULE MCHttpServer ----------------------------
(* Model checking HttpServer: symmetry for the runs that check safety.      *)
EXTENDS HttpServer, TLC

\* Connections are interchangeable.
Symmetry == Permutations(Conns)

=============================================================================

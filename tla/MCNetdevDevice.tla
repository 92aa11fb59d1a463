---------------------------- MODULE MCNetdevDevice ---------------------------
(* Model checking NetdevDevice: symmetry and a view for the safety run.     *)
EXTENDS NetdevDevice, TLC

\* Goroutines, numbers and sockets are interchangeable.
Symmetry == Permutations(Procs) \cup Permutations(Fds) \cup Permutations(Socks)

\* What the properties of the safety run depend on: they and the guards read
\* the recorded outcomes in the step that records them only.
ControlView == <<kernel, phase, sockets, proto, private, tls, session, readMu,
                 writeMu, pc, num, cur, sent>>

=============================================================================

----------------------------- MODULE MCEventLoop -----------------------------
(* EventLoop for TLC: the sessions are interchangeable model values.        *)
EXTENDS EventLoop, TLC

Symmetry == Permutations(Sessions)
=============================================================================

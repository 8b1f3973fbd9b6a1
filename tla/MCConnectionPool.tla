-------------------------- MODULE MCConnectionPool --------------------------
(* ConnectionPool on small instances.                                      *)
EXTENDS ConnectionPool, TLC

\* Requests and connections are interchangeable (only safety is checked with
\* this symmetry); keys are not, as H2Keys tells them apart.
Symmetry == Permutations(Requests) \cup Permutations(Conns)

\* What is left of a connection nobody refers to, and of the last request of an
\* idle slot, is never read again: states that differ in it only are one.
Fate(f) == [c \in Conns |-> IF Unreferenced(c) THEN <<>> ELSE <<f[c]>>]
LastOf(f) == [r \in Requests |-> IF pc[r] = "idle" THEN <<>> ELSE <<f[r]>>]
LiveState == <<pool, pc, LastOf(key), chan, held, LastOf(reused),
               Fate(conn), Fate(h2), Fate(of), owner, lock, draining>>

=============================================================================

-------------------------- MODULE MCStreamResponse --------------------------
(* StreamResponse on small instances.                                      *)
EXTENDS StreamResponse

=============================================================================

------------------------------ MODULE MCClient -------------------------------
(* The two states that the requests of a Client share, its cookie jar         *)
(* (CookieJar) and its connection pool (ConnectionPool), on small instances.  *)
(* They refer to nothing of each other, so a behaviour is one of the jar or   *)
(* one of the pool; which one is chosen at the start.                         *)
EXTENDS MCCookieJar, MCConnectionPool

CONSTANT Followed   \* what a behaviour may follow: some of "jar", "pool"

VARIABLE shared     \* what it follows

clientVars == <<shared, jarVars, vars>>

ClientInit == shared \in Followed /\ JarInit /\ Init

ClientNext ==
    \/ shared = "jar" /\ JarNext /\ UNCHANGED <<shared, vars>>
    \/ shared = "pool" /\ Next /\ UNCHANGED <<shared, jarVars>>

ClientSpec == ClientInit /\ [][ClientNext]_clientVars

FairClientSpec == ClientSpec /\ Fairness

\* The jar's Threads are the requests, so that Symmetry permutes them too.
ClientState == <<shared, jarVars, LiveState>>

=============================================================================

------------------------------ MODULE MCRequest ------------------------------
(* What one request goes through on small instances: the layers around its    *)
(* exchanges (RequestLayers), and the race for the TCP connection of a host   *)
(* (HappyEyeballs).  They have no state in common, so a behaviour is one of   *)
(* the layers or one of a race; which one is chosen at the start.             *)
EXTENDS MCRequestLayers, HappyEyeballs

CONSTANT MaxAddrs   \* bound on the addresses a resolver returns

VARIABLE part       \* what is followed: "layers" or "race"

MCLists == BoundedSeq({"v4", "v6"}, MaxAddrs)

requestVars == <<part, vars, raceVars>>

\* The part that is not followed stays in one of its initial states.
RequestInit ==
    /\ part \in {"layers", "race"}
    /\ Init /\ RaceInit
    /\ part = "race" => /\ cfg = CHOOSE c \in Configs : TRUE
                        /\ given = CHOOSE r \in Requests : TRUE
    /\ part = "layers" => family = <<>> /\ bind = "any" /\ ~stagger /\ ~deadline

OfLayers(A) == part = "layers" /\ A /\ UNCHANGED <<part, raceVars>>
OfRace(A) == part = "race" /\ A /\ UNCHANGED <<part, vars>>

RequestNext == OfLayers(Next) \/ OfRace(RaceNext)

\* The fairness of the part that is followed.
RequestFairness ==
    /\ WF_requestVars(OfLayers(Tick)) /\ WF_requestVars(OfLayers(HeadTimeout))
    /\ WF_requestVars(OfRace(Run)) /\ WF_requestVars(OfRace(Elapse))
    /\ WF_requestVars(OfRace(Expire))

RequestSpec == RequestInit /\ [][RequestNext]_requestVars /\ RequestFairness

=============================================================================

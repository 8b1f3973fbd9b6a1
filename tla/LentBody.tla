------------------------------ MODULE LentBody ------------------------------
(***************************************************************************)
(* What a response handle promises about its body, whatever the reads and  *)
(* closes do in whatever order: there is one body; it is lent to one read  *)
(* at a time, and only until the handle is stopped; a read gives it back or *)
(* loses it, and a body that is lost never comes back.                     *)
(***************************************************************************)
CONSTANTS
    Readers,    \* who may borrow the body
    Shelf       \* where it is while nobody has it, no member of Readers

VARIABLES
    places,     \* where the body is; empty once it is gone
    stopped     \* the handle was closed or dropped

vars == <<places, stopped>>

Init == places = {Shelf} /\ stopped = FALSE

Lend(r) ==
    /\ ~stopped /\ places = {Shelf}
    /\ places' = {r}
    /\ UNCHANGED stopped

GiveBack(r) ==
    /\ places = {r}
    /\ places' = {Shelf}
    /\ UNCHANGED stopped

Lose(r) ==
    /\ places = {r}
    /\ places' = {}
    /\ UNCHANGED stopped

\* A stopped handle may throw away the body it has.
Stop ==
    /\ stopped' = TRUE
    /\ \/ UNCHANGED places
       \/ places = {Shelf} /\ places' = {}

Next == Stop \/ \E r \in Readers : Lend(r) \/ GiveBack(r) \/ Lose(r)

Spec == Init /\ [][Next]_vars
=============================================================================

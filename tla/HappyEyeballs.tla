---------------------------- MODULE HappyEyeballs ---------------------------
(***************************************************************************)
(* The TCP connect of one host (src/conn/net/tcp.rs): the addresses the    *)
(* resolver returned are tried one after another, or raced with staggered  *)
(* starts (Happy Eyeballs), under one deadline.                            *)
(*                                                                         *)
(* The sequential path is the race without stagger: it waits for its only  *)
(* attempt and starts the next address when that one has failed.  Time is  *)
(* the choice of when a timer elapses; what the kernel does with an        *)
(* attempt is the choice of when, and how, it settles.                     *)
(***************************************************************************)
EXTENDS Integers, Sequences, FiniteSets, SequencesExt, FiniteSetsExt

CONSTANTS
    Lists,         \* the address lists a resolver may return, by family
    MaxParallel    \* MAX_PARALLEL_CONNECT_ATTEMPTS

ASSUME ListsAssumption == Lists \subseteq Seq({"v4", "v6"})
ASSUME MaxParallelAssumption == MaxParallel \in Nat \ {0}

VARIABLES
    family, bind, stagger, deadline,   \* the inputs, fixed by RaceInit
    preferred, fallback,   \* the addresses not yet tried: positions in family
    nextFallback,
    tried,         \* the addresses started or refused, in launch order; the
                   \* order of an attempt is its position
    attempts,      \* the active futures, by order: what they would poll; the
                   \* deque keeps them in launch order
    firstError,    \* order of the attempt whose error is kept; 0 when None
    failed,        \* auxiliary: the orders that failed
    delay, expired,        \* the timer of the next start; of the deadline
    stage, outcome

inputs == <<family, bind, stagger, deadline>>
lists  == <<preferred, fallback, nextFallback, tried>>
race   == <<attempts, firstError, failed>>
raceVars   == <<inputs, lists, race, delay, expired, stage, outcome>>

Delays   == {"none", "running", "elapsed"}
Steps    == {"launch", "wait", "polled", "done"}
Outcomes == {"none", "connected", "error", "timeout", "dropped"}
Polls    == {"pending", "ok", "err"}
Orders   == 1..Len(tried)

TypeOK ==
    /\ family \in Seq({"v4", "v6"})
    /\ bind \in {"any", "v4", "v6"} /\ stagger \in BOOLEAN /\ deadline \in BOOLEAN
    /\ preferred \in Seq(1..Len(family)) /\ fallback \in Seq(1..Len(family))
    /\ tried \in Seq(1..Len(family))
    /\ attempts \in [DOMAIN attempts -> Polls] /\ DOMAIN attempts \subseteq Orders
    /\ firstError \in 0..Len(family)
    /\ failed \subseteq Orders
    /\ nextFallback \in BOOLEAN /\ expired \in BOOLEAN
    /\ delay \in Delays /\ stage \in Steps /\ outcome \in Outcomes

-----------------------------------------------------------------------------
(* The addresses.                                                          *)

\* The addresses of fam with one family, in resolver order.
OfFamily(fam, f) ==
    LET all == {i \in 1..Len(fam) : fam[i] = f}
    IN  [n \in 1..Cardinality(all) |->
            CHOOSE i \in all : Cardinality({j \in all : j <= i}) = n]

Other(f) == IF f = "v4" THEN "v6" ELSE "v4"

\* SocketAddrs::split_by_preference; bind names the only family with a local
\* address, or is any.
SplitByPreference(fam, b) ==
    IF b # "any" THEN <<OfFamily(fam, b), <<>>>>
    ELSE IF fam = <<>> THEN <<<<>>, <<>>>>
    ELSE <<OfFamily(fam, fam[1]), OfFamily(fam, Other(fam[1]))>>

\* ConnectingTcp::new: without Happy Eyeballs, resolver order and no fallback.
Split(fam, b, happy) ==
    IF happy THEN SplitByPreference(fam, b)
             ELSE <<[i \in 1..Len(fam) |-> i], <<>>>>

RaceInit ==
    /\ family \in Lists /\ bind \in {"any", "v4", "v6"}
    /\ stagger \in BOOLEAN /\ deadline \in BOOLEAN
    /\ preferred = Split(family, bind, stagger)[1]
    /\ fallback = Split(family, bind, stagger)[2]
    /\ nextFallback = FALSE /\ tried = <<>>
    /\ attempts = << >> /\ firstError = 0 /\ failed = {}
    /\ delay = IF fallback = <<>> THEN "none" ELSE "running"
    /\ expired = FALSE
    /\ stage = "launch" /\ outcome = "none"

\* A has_remaining_addrs that forgets the fallback.
HasPreferredAddrs == preferred # <<>>

HasRemainingAddrs == preferred # <<>> \/ fallback # <<>>

\* next_remote, when an address remains: the families alternate.
UseFallback == fallback # <<>> /\ (nextFallback \/ preferred = <<>>)

\* connect_next of that remote.
TakeAddr ==
    /\ nextFallback' = ~UseFallback
    /\ IF UseFallback
       THEN /\ tried' = Append(tried, Head(fallback))
            /\ fallback' = Tail(fallback) /\ UNCHANGED preferred
       ELSE /\ tried' = Append(tried, Head(preferred))
            /\ preferred' = Tail(preferred) /\ UNCHANGED fallback

-----------------------------------------------------------------------------
(* The race.                                                               *)

\* A record_error that keeps the error it saw first.
RecordErrorsSeen(orders) ==
    IF firstError # 0 \/ orders = {} THEN firstError ELSE Min(orders)

\* record_error of each order, in any sequence.
RecordErrors(orders) ==
    LET known == (orders \cup {firstError}) \ {0}
    IN  IF known = {} THEN 0 ELSE Min(known)

\* The race ends: its state is dropped, and with it every active attempt.
End(o) == outcome' = o /\ stage' = "done" /\ attempts' = << >>

\* launch_next, its turn for one address whose socket is set up.  The delay of
\* the fallback serves the first attempt; any later one is given a new sleep
\* (a sequential connect sleeps on nothing).
Launch ==
    /\ stage = "launch" /\ HasRemainingAddrs
    /\ TakeAddr
    /\ attempts' = [o \in DOMAIN attempts \cup {Len(tried) + 1} |->
                        IF o = Len(tried) + 1 THEN "pending" ELSE attempts[o]]
    /\ delay' = IF ~stagger \/ (tried = <<>> /\ delay # "none")
                THEN delay ELSE "running"
    /\ stage' = "wait"
    /\ UNCHANGED <<inputs, firstError, failed, expired, outcome>>

\* launch_next, its turn for an address whose socket cannot be set up.
LaunchFails ==
    /\ stage = "launch" /\ HasRemainingAddrs
    /\ TakeAddr
    /\ firstError' = RecordErrors({Len(tried) + 1})
    /\ failed' = failed \cup {Len(tried) + 1}
    /\ UNCHANGED <<inputs, attempts, delay, expired, stage, outcome>>

\* launch_next returns false.
NothingToLaunch ==
    /\ stage = "launch" /\ ~HasRemainingAddrs
    /\ IF DOMAIN attempts = {} THEN End("error")
                          ELSE stage' = "wait" /\ UNCHANGED <<attempts, outcome>>
    /\ UNCHANGED <<inputs, lists, firstError, failed, delay, expired>>

-----------------------------------------------------------------------------
(* A poll: every attempt, then the sleep, then the deadline.               *)

Polling(p) == {o \in DOMAIN attempts : attempts[o] = p}

\* The attempts poll_attempts gets to before it returns.
Polled == {o \in DOMAIN attempts : \A ok \in Polling("ok") : o <= ok}

ErrorsPolled == Polled \cap Polling("err")

AllAttemptsFailed == ErrorsPolled # {} /\ Polling("pending") = {}

PollAttempts ==
    /\ stage = "wait"
    /\ firstError' = RecordErrors(ErrorsPolled)
    /\ failed' = failed \cup ErrorsPolled
    /\ IF Polling("ok") # {}
       THEN End("connected")
       ELSE /\ attempts' = Restrict(attempts, Polling("pending"))
            /\ stage' = IF AllAttemptsFailed THEN "launch" ELSE "polled"
            /\ UNCHANGED outcome
    /\ UNCHANGED <<inputs, lists, delay, expired>>

\* A scheduler that looks at the preferred family only.
StaggersPreferred == stagger /\ preferred # <<>>

Staggers == stagger /\ HasRemainingAddrs

\* A make_room_for_next_attempt that is off by one.
MakeRoomLate ==
    attempts' = IF Cardinality(DOMAIN attempts) <= MaxParallel THEN attempts
                ELSE Restrict(attempts, DOMAIN attempts \ {Min(DOMAIN attempts)})

\* make_room_for_next_attempt: the oldest attempt is cancelled.
MakeRoom ==
    attempts' = IF Cardinality(DOMAIN attempts) < MaxParallel THEN attempts
                ELSE Restrict(attempts, DOMAIN attempts \ {Min(DOMAIN attempts)})

DelayElapsed ==
    /\ stage = "polled" /\ Staggers /\ delay = "elapsed"
    /\ MakeRoom
    /\ stage' = "launch"
    /\ UNCHANGED <<inputs, lists, firstError, failed, delay, expired, outcome>>

\* The race is still pending; the deadline is polled.
PollDeadline ==
    /\ stage = "polled" /\ ~(Staggers /\ delay = "elapsed")
    /\ IF expired THEN End("timeout")
                  ELSE stage' = "wait" /\ UNCHANGED <<attempts, outcome>>
    /\ UNCHANGED <<inputs, lists, firstError, failed, delay, expired>>

\* The caller drops the future.
Abandon ==
    /\ stage = "wait"
    /\ End("dropped")
    /\ UNCHANGED <<inputs, lists, firstError, failed, delay, expired>>

-----------------------------------------------------------------------------
(* The kernel and the clock.                                               *)

Settle ==
    \E o \in Polling("pending"), r \in {"ok", "err"} :
        /\ attempts' = [attempts EXCEPT ![o] = r]
        /\ UNCHANGED <<inputs, lists, firstError, failed, delay,
                       expired, stage, outcome>>

Elapse ==
    /\ stage # "done" /\ delay = "running" /\ delay' = "elapsed"
    /\ UNCHANGED <<inputs, lists, race, expired, stage, outcome>>

\* The deadline never runs.
ExpireNever == FALSE /\ UNCHANGED raceVars

Expire ==
    /\ stage # "done" /\ deadline /\ ~expired /\ expired' = TRUE
    /\ UNCHANGED <<inputs, lists, race, delay, stage, outcome>>

Run == Launch \/ LaunchFails \/ NothingToLaunch \/ PollAttempts \/ DelayElapsed
       \/ PollDeadline

RaceNext == Run \/ Abandon \/ Settle \/ Elapse \/ Expire

RaceSpec == RaceInit /\ [][RaceNext]_raceVars

\* The executor polls the future again whenever a timer or an attempt wakes it,
\* and timers elapse.  Attempts need not settle, and no caller needs to drop.
RaceFairness == WF_raceVars(Run) /\ WF_raceVars(Elapse) /\ WF_raceVars(Expire)

RaceFairSpec == RaceSpec /\ RaceFairness

-----------------------------------------------------------------------------
(* Properties.                                                             *)

\* The addresses the race is given, the families not bound to left out.
Candidates ==
    {i \in DOMAIN family : (stagger /\ bind # "any") => family[i] = bind}

\* Each address is tried once, each family in resolver order, and a race that
\* reports an error has tried them all.
TriesAll ==
    /\ \A i, j \in Orders : i < j /\ family[tried[i]] = family[tried[j]]
                                => tried[i] < tried[j]
    /\ outcome = "error" => Range(tried) = Candidates

\* The error reported (take_error) is that of the earliest launched attempt
\* that failed, in whatever order the failures came; there is none (network
\* unreachable) only when there was no address.
ErrorIsEarliest ==
    outcome = "error" => IF Candidates = {} THEN firstError = 0
                                            ELSE firstError = Min(failed)

\* At most MaxParallel sockets are connecting at once, whichever of the timer,
\* a failed set-up or the failure of every attempt starts the next one; a
\* sequential connect has one at a time.
SocketsBounded ==
    Cardinality(DOMAIN attempts) <= IF stagger THEN MaxParallel ELSE 1

\* An address that never answers does not keep the others from their turn
\* (DelayElapsed starts them while it is active).
HungAddressBypassed ==
    stagger ~> (outcome # "none" \/ Range(tried) = Candidates)

\* A race with connect_timeout ends, whatever the addresses do.
DeadlineEnds == deadline ~> outcome # "none"
=============================================================================

----------------------------- MODULE OpLifecycle -----------------------------
(* What an operation promises its caller, whoever concludes it: it is       *)
(* pending from its birth, concludes at most once, never changes after      *)
(* that, and fails with its timeout reason only once its deadline is past.  *)
(*                                                                          *)
(* The caller-side types of op.rs: OpState (26-59), the pair of an Op and   *)
(* its Resolver (84-98), and the four ways a resolver ends (146-172).       *)
EXTENDS Naturals

CONSTANTS
    Ops,         \* the operations a run can start
    NoDeadline,  \* the deadline of an operation that cannot time out
    MaxTime      \* bound on the clock

VARIABLES
    st,   \* st[o]: the OpState a caller of Op::state reads
    dl,   \* dl[o]: the deadline in OpState::Pending
    now   \* the clock (Instant::now)

vars == <<st, dl, now>>

Time == 0..MaxTime
Deadline == Time \cup {NoDeadline}

Terminal == {"Done", "Failed", "TimedOut", "Lost"}
OpState == {"Unborn", "Pending"} \cup Terminal

IsPending(o) == st[o] = "Pending"

TypeOK ==
    /\ st \in [Ops -> OpState]
    /\ dl \in [Ops -> Deadline]
    /\ now \in Time

Init ==
    /\ st = [o \in Ops |-> "Unborn"]
    /\ dl = [o \in Ops |-> NoDeadline]
    /\ now = 0

(* Op::__rillet_pair: born pending, with the deadline its handler gave it. *)
Begin(o, d) ==
    /\ st[o] = "Unborn"
    /\ st' = [st EXCEPT ![o] = "Pending"]
    /\ dl' = [dl EXCEPT ![o] = d]
    /\ UNCHANGED now

(* Resolver::succeed and Resolver::fail, with a reason the service chose. *)
Resolve(o, outcome) ==
    /\ IsPending(o)
    /\ st' = [st EXCEPT ![o] = outcome]
    /\ UNCHANGED <<dl, now>>

(* Resolver::fail with the declared timeout reason. *)
TimeOut(o) ==
    /\ IsPending(o)
    /\ dl[o] # NoDeadline
    /\ dl[o] <= now
    /\ st' = [st EXCEPT ![o] = "TimedOut"]
    /\ UNCHANGED <<dl, now>>

(* Resolvers dropped together, each while its operation is pending. *)
Lose(S) ==
    /\ \A o \in S : IsPending(o)
    /\ st' = [o \in Ops |-> IF o \in S THEN "Lost" ELSE st[o]]
    /\ UNCHANGED <<dl, now>>

Tick ==
    /\ now < MaxTime
    /\ now' = now + 1
    /\ UNCHANGED <<st, dl>>

Next ==
    \/ \E o \in Ops, d \in Deadline : Begin(o, d)
    \/ \E o \in Ops, outcome \in {"Done", "Failed"} : Resolve(o, outcome)
    \/ \E o \in Ops : TimeOut(o)
    \/ \E S \in SUBSET Ops : Lose(S)
    \/ Tick

Spec == Init /\ [][Next]_vars
==============================================================================

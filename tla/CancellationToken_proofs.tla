------------------------ MODULE CancellationToken_proofs ------------------------
(* That no cancellation is lost, for any number of threads and futures.        *)
EXTENDS CancellationToken, TLAPS

(* Between its last look at the flag and its sleep a future holds a listener;  *)
(* one that was told is being woken, and one that was not, of a token that     *)
(* was cancelled since, is about to be.                                        *)
ListenerInv ==
    \A f \in Futures :
        /\ future[f] = "listen" => listener[f] = "none"
        /\ future[f] \in {"await", "pending"} => listener[f] # "none"
        /\ future[f] = "pending" /\ listener[f] = "notified" => f \in woken
        /\ future[f] \in {"await", "pending"} /\ listener[f] = "listening" /\ cancelled
              => \E c \in Cancellers : canceller[c] = "notify"

IInv == TypeOK /\ NothingRegistered /\ ListenerInv

LEMMA InitInv == Init => IInv
    BY DEF Init, IInv, TypeOK, NothingRegistered, ListenerInv

LEMMA StepInv == IInv /\ [Next]_vars => IInv'
<1> SUFFICES ASSUME IInv, [Next]_vars PROVE IInv'
    OBVIOUS
<1> USE DEF IInv, TypeOK, NothingRegistered, ListenerInv
<1>1. ASSUME NEW c \in Cancellers, Store(c) PROVE IInv'
    BY <1>1 DEF Store
<1>2. ASSUME NEW c \in Cancellers, Notify(c) PROVE IInv'
    BY <1>2 DEF Notify
<1>3. ASSUME NEW f \in Futures, Poll(f) PROVE IInv'
    BY <1>3 DEF Poll
<1>4. ASSUME NEW f \in Futures, Load(f) PROVE IInv'
    BY <1>4 DEF Load
<1>5. ASSUME NEW f \in Futures, Listen(f) PROVE IInv'
    BY <1>5 DEF Listen
<1>6. ASSUME NEW f \in Futures, PollListener(f) PROVE IInv'
    BY <1>6 DEF PollListener
<1>7. ASSUME NEW f \in Futures, Drop(f) PROVE IInv'
    BY <1>7 DEF Drop
<1>8. CASE UNCHANGED vars
    BY <1>8 DEF vars
<1> QED
    BY <1>1, <1>2, <1>3, <1>4, <1>5, <1>6, <1>7, <1>8 DEF Next, PollStep

(* The invariant above holds throughout. *)
THEOREM TokenInvariant == Spec => []IInv
    BY InitInv, StepInv, PTL DEF Spec

(* The token, its futures and their listeners stay well typed.                *)
THEOREM TokenTyped == Spec => []TypeOK
<1>1. IInv => TypeOK
    BY DEF IInv
<1> QED
    BY <1>1, TokenInvariant, PTL

(* A future never sleeps through a cancellation: one that is asleep when the  *)
(* flag is set is about to be notified.                                       *)
THEOREM CancelNotLost == Spec => []NoLostCancel
<1>1. IInv => NoLostCancel
    BY DEF IInv, TypeOK, ListenerInv, NoLostCancel
<1> QED
    BY <1>1, TokenInvariant, PTL

(* A future that is over holds no registration in the token. *)
THEOREM WaitsDeregistered == Spec => []NothingRegistered
<1>1. IInv => NothingRegistered
    BY DEF IInv
<1> QED
    BY <1>1, TokenInvariant, PTL
==============================================================================

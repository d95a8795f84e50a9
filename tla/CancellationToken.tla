--------------------------- MODULE CancellationToken ---------------------------
(* The token every service, task and expirer stops by: cancellation.rs.     *)
(*                                                                          *)
(* A flag and an event.  cancel() sets the one, then notifies the other;    *)
(* the future cancelled() returns listens to the one and rereads the other. *)
(* A step is one atomic access of either, so cancel() is two steps and a    *)
(* poll several.  The event is the event-listener crate's: a notification   *)
(* reaches the listeners there are, polling a listener takes its            *)
(* notification or leaves the waker, and dropping it deregisters it.        *)
CONSTANTS
    Cancellers,  \* threads calling cancel()
    Futures      \* futures of cancelled()

VARIABLES
    cancelled,  \* the flag
    canceller,  \* where each call of cancel() is
    future,     \* where each future is
    listener,   \* its listener, and what that has been told
    woken       \* futures whose task the executor is to poll again

vars == <<cancelled, canceller, future, listener, woken>>

(* "new" has yet to be polled, "pending" waits for its waker; "load",       *)
(* "listen" and "await" are inside poll().                                  *)
TypeOK ==
    /\ cancelled \in BOOLEAN
    /\ canceller \in [Cancellers -> {"idle", "notify", "done"}]
    /\ future \in [Futures -> {"new", "load", "listen", "await", "pending",
                               "ready", "dropped"}]
    /\ listener \in [Futures -> {"none", "listening", "notified"}]
    /\ woken \in SUBSET {f \in Futures : future[f] = "pending"}

Init ==
    /\ cancelled = FALSE
    /\ canceller = [c \in Cancellers |-> "idle"]
    /\ future = [f \in Futures |-> "new"]
    /\ listener = [f \in Futures |-> "none"]
    /\ woken = {}

------------------------------------------------------------------------------
(* cancel(): the flag is stored ...                                         *)
Store(c) ==
    /\ canceller[c] = "idle"
    /\ cancelled' = TRUE
    /\ canceller' = [canceller EXCEPT ![c] = "notify"]
    /\ UNCHANGED <<future, listener, woken>>

(* Slip: notify(1), which tells one listener only. *)
XNotifyOne(c) ==
    /\ canceller[c] = "notify"
    /\ canceller' = [canceller EXCEPT ![c] = "done"]
    /\ \E f \in Futures :
          /\ listener[f] = "listening"
          /\ listener' = [listener EXCEPT ![f] = "notified"]
          /\ woken' = woken \cup ({f} \cap {g \in Futures : future[g] = "pending"})
    /\ UNCHANGED <<cancelled, future>>

(* ... and every listener notified. *)
Notify(c) ==
    /\ canceller[c] = "notify"
    /\ canceller' = [canceller EXCEPT ![c] = "done"]
    /\ listener' = [f \in Futures |->
                       IF listener[f] = "listening" THEN "notified" ELSE listener[f]]
    /\ woken' = woken \cup {f \in Futures : listener[f] = "listening"
                                               /\ future[f] = "pending"}
    /\ UNCHANGED <<cancelled, future>>

(* poll() begins: on a wake, or because a select! polls all of its arms. *)
Poll(f) ==
    /\ future[f] \in {"new", "pending"}
    /\ future' = [future EXCEPT ![f] = "load"]
    /\ woken' = woken \ {f}
    /\ UNCHANGED <<cancelled, canceller, listener>>

(* Slip: with a listener in place the flag is not read again. *)
XLoadOnce(f) ==
    /\ future[f] = "load"
    /\ IF listener[f] # "none"
       THEN future' = [future EXCEPT ![f] = "await"] /\ UNCHANGED listener
       ELSE future' = [future EXCEPT ![f] = IF cancelled THEN "ready" ELSE "listen"]
            /\ UNCHANGED listener
    /\ UNCHANGED <<cancelled, canceller, woken>>

(* Slip: the listener outlives the wait. *)
XLoadKeepsListener(f) ==
    /\ future[f] = "load"
    /\ future' = [future EXCEPT ![f] = IF cancelled THEN "ready"
                                       ELSE IF listener[f] = "none" THEN "listen"
                                       ELSE "await"]
    /\ UNCHANGED <<cancelled, canceller, listener, woken>>

(* The top of poll's loop: the flag is read. *)
Load(f) ==
    /\ future[f] = "load"
    /\ \/ /\ cancelled
          /\ future' = [future EXCEPT ![f] = "ready"]
          /\ listener' = [listener EXCEPT ![f] = "none"]
       \/ /\ ~cancelled
          /\ future' = [future EXCEPT ![f] = IF listener[f] = "none" THEN "listen"
                                             ELSE "await"]
          /\ UNCHANGED listener
    /\ UNCHANGED <<cancelled, canceller, woken>>

Listen(f) ==
    /\ future[f] = "listen"
    /\ listener' = [listener EXCEPT ![f] = "listening"]
    /\ future' = [future EXCEPT ![f] = "load"]
    /\ UNCHANGED <<cancelled, canceller, woken>>

(* The listener is polled: its notification is taken, or its waker left.    *)
PollListener(f) ==
    /\ future[f] = "await"
    /\ \/ /\ listener[f] = "notified"
          /\ listener' = [listener EXCEPT ![f] = "none"]
          /\ future' = [future EXCEPT ![f] = "load"]
       \/ /\ listener[f] = "listening"
          /\ future' = [future EXCEPT ![f] = "pending"]
          /\ UNCHANGED listener
    /\ UNCHANGED <<cancelled, canceller, woken>>

(* The future is dropped between polls: a select! took another arm. *)
Drop(f) ==
    /\ future[f] \in {"new", "pending"}
    /\ future' = [future EXCEPT ![f] = "dropped"]
    /\ listener' = [listener EXCEPT ![f] = "none"]
    /\ woken' = woken \ {f}
    /\ UNCHANGED <<cancelled, canceller>>

------------------------------------------------------------------------------
PollStep(f) == Load(f) \/ Listen(f) \/ PollListener(f)

Next ==
    \/ \E c \in Cancellers : Store(c) \/ Notify(c)
    \/ \E f \in Futures : Poll(f) \/ PollStep(f) \/ Drop(f)

Spec == Init /\ [][Next]_vars

(* A thread that has stored the flag goes on to notify, a poll that has     *)
(* begun returns, and the executor polls the tasks it was woken for.  No    *)
(* poll is owed to a future nobody wakes.                                   *)
Fairness ==
    /\ \A c \in Cancellers : WF_vars(Notify(c))
    /\ \A f \in Futures : WF_vars(PollStep(f)) /\ WF_vars(f \in woken /\ Poll(f))

FairSpec == Spec /\ Fairness

------------------------------------------------------------------------------
(* A future that sleeps un-woken although the flag is set is about to be    *)
(* notified: no cancel() falls between reading the flag and listening       *)
(* (cancellation.rs:81-91).                                                 *)
NoLostCancel ==
    \A f \in Futures :
        future[f] = "pending" /\ f \notin woken /\ cancelled =>
            listener[f] = "listening" /\ \E c \in Cancellers : canceller[c] = "notify"

(* A future that is over, however it ended, holds no registration: polling  *)
(* and dropping one per turn of a loop accumulates nothing                  *)
(* (cancellation.rs:50-52; the test at line 118).                           *)
NothingRegistered ==
    \A f \in Futures :
        future[f] \in {"new", "ready", "dropped"} =>
            listener[f] = "none" /\ f \notin woken

(* "All futures returned by cancelled() will complete"                      *)
(* (cancellation.rs:36-38): all that are waiting and kept.                  *)
CancelWakes ==
    \A f \in Futures :
        (cancelled /\ future[f] = "pending") ~> future[f] \in {"ready", "dropped"}
==============================================================================

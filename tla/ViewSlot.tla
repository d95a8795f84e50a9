-------------------------------- MODULE ViewSlot --------------------------------
(* The published view of a service: view.rs, ViewSlot and ViewWatcher.      *)
(*                                                                          *)
(* One PUBLISHER at a time, for publishing happens under the state write    *)
(* lock: it compares, stores the view, bumps the version and notifies, in   *)
(* that order and with nothing held.  WATCHERS follow versions and read the *)
(* view once they see a new one; WAITERS block until a view suits them or   *)
(* the service is cancelled.  A step is one atomic access: of the view, of  *)
(* the version, of the event.                                               *)
(*                                                                          *)
(* A view is a value and the count of the stores it came with, so that a    *)
(* view can be told from an equal one published before.                     *)
EXTENDS Naturals, FiniteSets

CONSTANTS
    Values, Initial,  \* the views there can be, and the first
    Watchers, Waiters,
    MaxStores         \* the bound on publications

ASSUME ViewAssumption ==
    /\ Initial \in Values
    /\ MaxStores \in Nat
    /\ IsFiniteSet(Watchers)
    /\ Watchers \cap Waiters = {}

VARIABLES
    value, stores,  \* the current view: its value, and how many came before
    version,        \* Shared::version
    watchers,       \* Shared::watchers
    pub, next,      \* where the publisher is, and the view it brings
    watcher,        \* where each watcher is
    seen,           \* ViewWatcher::seen
    got,            \* the store of the view it last returned
    waiter,         \* where each call of wait() is
    wanted,         \* the view it waits for
    held,           \* the view it has loaded
    listener,       \* the listener of each of them, and what it has been told
    cancelled       \* the token the waits are given

publisher == <<pub, next>>
watching == <<watcher, seen, got, watchers>>
waiting == <<waiter, wanted, held>>
vars == <<value, stores, version, watchers, pub, next, watcher, seen, got,
          waiter, wanted, held, listener, cancelled>>

Listeners == Watchers \cup Waiters

Live(w) == watcher[w] \notin {"none", "dropped"}

TypeOK ==
    /\ value \in Values
    /\ stores \in 0 .. MaxStores
    /\ version \in 0 .. MaxStores
    /\ watchers = Cardinality({w \in Watchers : Live(w)})
    /\ pub \in {"idle", "store", "bump", "notify"}
    /\ next \in Values
    /\ watcher \in [Watchers -> {"none", "born", "ready", "listen", "version",
                                 "load", "await", "asleep", "try", "tryload",
                                 "dropped"}]
    /\ seen \in [Watchers -> 0 .. MaxStores]
    /\ got \in [Watchers -> 0 .. MaxStores]
    /\ waiter \in [Waiters -> {"idle", "listen", "load", "judge", "await",
                               "asleep", "some", "none"}]
    /\ wanted \in [Waiters -> Values]
    /\ held \in [Waiters -> Values]
    /\ listener \in [Listeners -> {"none", "listening", "notified"}]
    /\ cancelled \in BOOLEAN

Init ==
    /\ value = Initial
    /\ stores = 0
    /\ version = 0
    /\ watchers = 0
    /\ pub = "idle"
    /\ next = Initial
    /\ watcher = [w \in Watchers |-> "none"]
    /\ seen = [w \in Watchers |-> 0]
    /\ got = [w \in Watchers |-> 0]
    /\ waiter = [q \in Waiters |-> "idle"]
    /\ wanted \in [Waiters -> Values]
    /\ held = [q \in Waiters |-> Initial]
    /\ listener = [x \in Listeners |-> "none"]
    /\ cancelled = FALSE

------------------------------------------------------------------------------
(* Slip: the version announces a view before it is stored. *)
XFollows == [idle |-> "bump", bump |-> "store", store |-> "notify", notify |-> "idle"]

(* The order of the steps of publish(). *)
Follows == [idle |-> "store", store |-> "bump", bump |-> "notify", notify |-> "idle"]

(* publish(): a view equal to the current one is not stored ...             *)
Publish(v) ==
    /\ pub = "idle" /\ v # value /\ stores < MaxStores
    /\ next' = v
    /\ pub' = Follows[pub]
    /\ UNCHANGED <<value, stores, version, watching, waiting, listener, cancelled>>

Store ==
    /\ pub = "store"
    /\ value' = next
    /\ stores' = stores + 1
    /\ pub' = Follows[pub]
    /\ UNCHANGED <<version, next, watching, waiting, listener, cancelled>>

Bump ==
    /\ pub = "bump"
    /\ version' = version + 1
    /\ pub' = Follows[pub]
    /\ UNCHANGED <<value, stores, next, watching, waiting, listener, cancelled>>

(* Slip: notify(1). *)
XNotifyOne ==
    /\ pub = "notify"
    /\ pub' = Follows[pub]
    /\ IF \E x \in Listeners : listener[x] = "listening"
       THEN \E x \in Listeners :
               /\ listener[x] = "listening"
               /\ listener' = [listener EXCEPT ![x] = "notified"]
       ELSE UNCHANGED listener
    /\ UNCHANGED <<value, stores, version, next, watching, waiting, cancelled>>

(* ... and whoever listens is notified. *)
Notify ==
    /\ pub = "notify"
    /\ pub' = Follows[pub]
    /\ listener' = [x \in Listeners |->
                       IF listener[x] = "listening" THEN "notified" ELSE listener[x]]
    /\ UNCHANGED <<value, stores, version, next, watching, waiting, cancelled>>

Cancel ==
    /\ ~cancelled
    /\ cancelled' = TRUE
    /\ UNCHANGED <<value, stores, version, publisher, watching, waiting, listener>>

------------------------------------------------------------------------------
(* What the steps of one watcher leave alone. *)
othersOfWatcher == <<value, stores, version, publisher, waiting, cancelled>>

(* watch(): the watcher is counted ...                                      *)
Watch(w) ==
    /\ watcher[w] = "none"
    /\ watchers' = watchers + 1
    /\ watcher' = [watcher EXCEPT ![w] = "born"]
    /\ UNCHANGED <<othersOfWatcher, seen, got, listener>>

(* ... and takes the current version, and so the current view, as seen.     *)
Baseline(w) ==
    /\ watcher[w] = "born"
    /\ seen' = [seen EXCEPT ![w] = version]
    /\ got' = [got EXCEPT ![w] = stores]
    /\ watcher' = [watcher EXCEPT ![w] = "ready"]
    /\ UNCHANGED <<othersOfWatcher, watchers, listener>>

(* changed() is called. *)
Changed(w) ==
    /\ watcher[w] = "ready"
    /\ watcher' = [watcher EXCEPT ![w] = "listen"]
    /\ UNCHANGED <<othersOfWatcher, watchers, seen, got, listener>>

Listen(w) ==
    /\ watcher[w] = "listen"
    /\ listener' = [listener EXCEPT ![w] = "listening"]
    /\ watcher' = [watcher EXCEPT ![w] = "version"]
    /\ UNCHANGED <<othersOfWatcher, watchers, seen, got>>

(* The version is read, for changed() and for try_changed(): a new one is   *)
(* marked seen.                                                             *)
ReadVersion(w) ==
    /\ watcher[w] \in {"version", "try"}
    /\ seen' = [seen EXCEPT ![w] = version]
    /\ watcher' = [watcher EXCEPT ![w] =
                      IF version # seen[w]
                      THEN IF watcher[w] = "try" THEN "tryload" ELSE "load"
                      ELSE IF watcher[w] = "try" THEN "ready" ELSE "await"]
    /\ UNCHANGED <<othersOfWatcher, watchers, got, listener>>

(* The view is loaded and returned, and the listener dropped. *)
LoadView(w) ==
    /\ watcher[w] \in {"load", "tryload"}
    /\ got' = [got EXCEPT ![w] = stores]
    /\ listener' = [listener EXCEPT ![w] = "none"]
    /\ watcher' = [watcher EXCEPT ![w] = "ready"]
    /\ UNCHANGED <<othersOfWatcher, watchers, seen>>

(* Slip: a listener of its own for the await. *)
XAwait(w) ==
    /\ watcher[w] = "await"
    /\ listener' = [listener EXCEPT ![w] = "listening"]
    /\ watcher' = [watcher EXCEPT ![w] = "asleep"]
    /\ UNCHANGED <<othersOfWatcher, watchers, seen, got>>

(* The listener is polled, first and again once it is notified: it has been *)
(* notified and the loop starts over, or it leaves its waker.               *)
Await(w) ==
    /\ watcher[w] \in {"await", "asleep"}
    /\ \/ /\ listener[w] = "notified"
          /\ listener' = [listener EXCEPT ![w] = "none"]
          /\ watcher' = [watcher EXCEPT ![w] = "listen"]
       \/ /\ listener[w] = "listening" /\ watcher[w] = "await"
          /\ watcher' = [watcher EXCEPT ![w] = "asleep"]
          /\ UNCHANGED listener
    /\ UNCHANGED <<othersOfWatcher, watchers, seen, got>>

(* The future of changed() is dropped: a select! took another arm. *)
Abandon(w) ==
    /\ watcher[w] = "asleep"
    /\ listener' = [listener EXCEPT ![w] = "none"]
    /\ watcher' = [watcher EXCEPT ![w] = "ready"]
    /\ UNCHANGED <<othersOfWatcher, watchers, seen, got>>

TryChanged(w) ==
    /\ watcher[w] = "ready"
    /\ watcher' = [watcher EXCEPT ![w] = "try"]
    /\ UNCHANGED <<othersOfWatcher, watchers, seen, got, listener>>

(* Slip: a watcher dropped is still counted. *)
XDropWatcher(w) ==
    /\ watcher[w] = "ready"
    /\ watcher' = [watcher EXCEPT ![w] = "dropped"]
    /\ UNCHANGED <<othersOfWatcher, watchers, seen, got, listener>>

DropWatcher(w) ==
    /\ watcher[w] = "ready"
    /\ watchers' = watchers - 1
    /\ watcher' = [watcher EXCEPT ![w] = "dropped"]
    /\ UNCHANGED <<othersOfWatcher, seen, got, listener>>

------------------------------------------------------------------------------
(* What the steps of one wait() leave alone. *)
othersOfWaiter == <<value, stores, version, publisher, watching, wanted, cancelled>>

Wait(q) ==
    /\ waiter[q] = "idle"
    /\ waiter' = [waiter EXCEPT ![q] = "listen"]
    /\ UNCHANGED <<othersOfWaiter, held, listener>>

WaitListen(q) ==
    /\ waiter[q] = "listen"
    /\ listener' = [listener EXCEPT ![q] = "listening"]
    /\ waiter' = [waiter EXCEPT ![q] = "load"]
    /\ UNCHANGED <<othersOfWaiter, held>>

WaitLoad(q) ==
    /\ waiter[q] = "load"
    /\ held' = [held EXCEPT ![q] = value]
    /\ waiter' = [waiter EXCEPT ![q] = "judge"]
    /\ UNCHANGED <<othersOfWaiter, listener>>

(* A view that suits is returned, cancelled or not; else a cancelled wait   *)
(* ends with none.                                                          *)
Judge(q) ==
    /\ waiter[q] = "judge"
    /\ waiter' = [waiter EXCEPT ![q] =
                     IF held[q] = wanted[q] THEN "some"
                     ELSE IF cancelled THEN "none" ELSE "await"]
    /\ listener' = [listener EXCEPT ![q] =
                       IF held[q] = wanted[q] \/ cancelled THEN "none" ELSE @]
    /\ UNCHANGED <<othersOfWaiter, held>>

(* Slip: the listener races nothing. *)
XWaitAwait(q) ==
    /\ waiter[q] \in {"await", "asleep"}
    /\ \/ /\ listener[q] = "notified"
          /\ listener' = [listener EXCEPT ![q] = "none"]
          /\ waiter' = [waiter EXCEPT ![q] = "listen"]
       \/ /\ listener[q] = "listening" /\ waiter[q] = "await"
          /\ waiter' = [waiter EXCEPT ![q] = "asleep"]
          /\ UNCHANGED listener
    /\ UNCHANGED <<othersOfWaiter, held>>

(* Blocking on the race of the listener and the token. *)
WaitAwait(q) ==
    /\ waiter[q] \in {"await", "asleep"}
    /\ \/ /\ listener[q] = "notified" \/ cancelled
          /\ listener' = [listener EXCEPT ![q] = "none"]
          /\ waiter' = [waiter EXCEPT ![q] = "listen"]
       \/ /\ listener[q] = "listening" /\ ~cancelled /\ waiter[q] = "await"
          /\ waiter' = [waiter EXCEPT ![q] = "asleep"]
          /\ UNCHANGED listener
    /\ UNCHANGED <<othersOfWaiter, held>>

------------------------------------------------------------------------------
PublishStep == Store \/ Bump \/ Notify

ChangedStep(w) == Listen(w) \/ ReadVersion(w) \/ LoadView(w) \/ Await(w)

WaitStep(q) == WaitListen(q) \/ WaitLoad(q) \/ Judge(q) \/ WaitAwait(q)

Next ==
    \/ \E v \in Values : Publish(v)
    \/ PublishStep
    \/ Cancel
    \/ \E w \in Watchers :
          \/ Watch(w) \/ Baseline(w) \/ Changed(w) \/ TryChanged(w)
          \/ ChangedStep(w) \/ Abandon(w) \/ DropWatcher(w)
    \/ \E q \in Waiters : Wait(q) \/ WaitStep(q)

Spec == Init /\ [][Next]_vars

(* A publication that has begun goes on to notify (nothing in it blocks or  *)
(* panics), and threads and tasks run when they can.                        *)
Fairness ==
    /\ WF_vars(PublishStep)
    /\ \A w \in Watchers : WF_vars(ChangedStep(w))
    /\ \A q \in Waiters : WF_vars(WaitStep(q))

FairSpec == Spec /\ Fairness

------------------------------------------------------------------------------
(* No publication is half done. *)
Settled == pub \in {"idle", "store"}

(* A watcher that sleeps un-notified while nothing is being published has   *)
(* returned the current view, or began with it: none is missed between      *)
(* reading the version and sleeping, nor between the version and the view   *)
(* (view.rs:132-134, 213-223).                                              *)
SleepersAreCurrent ==
    \A w \in Watchers :
        watcher[w] = "asleep" /\ listener[w] = "listening" /\ Settled =>
            got[w] = stores

(* A view ready to be returned is no older than the version it is marked    *)
(* seen for, which the watcher will not be told of again (view.rs:213-234). *)
NeverStale == \A w \in Watchers : watcher[w] = "ready" => got[w] >= seen[w]

(* A wait that sleeps un-notified while nothing is being published waits    *)
(* for a view that is not there (view.rs:148-163).                          *)
SleepersWait ==
    \A q \in Waiters :
        waiter[q] = "asleep" /\ listener[q] = "listening" /\ Settled =>
            value # wanted[q]

(* A watcher that awaits a change gets the newest view, unless it gives up; *)
(* a cancelled wait ends.                                                   *)
WatchersCatchUp ==
    \A w \in Watchers :
        (watcher[w] = "asleep" /\ got[w] # stores)
            ~> (got[w] = stores \/ watcher[w] \in {"ready", "dropped"})

CancelledWaitsEnd ==
    \A q \in Waiters :
        (waiter[q] # "idle" /\ cancelled) ~> waiter[q] \in {"some", "none"}
==============================================================================

-------------------------------- MODULE TaskSet --------------------------------
(* The tasks of the services and those who wait for them: runtime.rs,       *)
(* TaskSet and TaskCompletion, and the generated spawn_with that fills a    *)
(* set.                                                                     *)
(*                                                                          *)
(* A service's set receives the handle of each task as it is spawned.  A    *)
(* completion lists the sets of one or several services; waiting on it      *)
(* goes through them in order.  The waiter that finds handles in a set      *)
(* takes them all and blocks on each in turn; one that finds none sleeps on *)
(* the set's condition variable until the set is marked done.               *)
(*                                                                          *)
(* A step is one critical section of a set's mutex, or the end of blocking  *)
(* on a task.  What a task does is left out, but for how it ends.  A handle *)
(* dropped cancels its task on smol, the default spawner, and detaches it   *)
(* on others; either way the task may run for a while.                      *)
EXTENDS Naturals, Sequences

CONSTANTS
    Sets, Tasks, Waiters,
    NoSet        \* where a task not yet spawned belongs

ASSUME TaskSetAssumption == NoSet \notin Sets

VARIABLES
    home,     \* the set each task belongs to
    task,     \* how each task is doing
    pushing,  \* tasks spawned whose handle is still to be pushed
    spawned,  \* sets whose spawn_with has returned
    handles,  \* TaskSetState::handles
    done,     \* TaskSetState::done
    waiter,   \* where each waiter is
    joined,   \* the sets its completion lists
    pos,      \* which of them it is at
    taken,    \* handles it has taken and not blocked on yet
    unwinding \* waiters that a task's panic is propagating to

spawner == <<home, pushing, spawned>>
waiting == <<waiter, joined, pos, taken, unwinding>>
vars == <<home, task, pushing, spawned, handles, done, waiter, joined, pos,
          taken, unwinding>>

(* The sets a completion may list. *)
Completions == {<<s>> : s \in Sets} \cup {<<r, s>> : r, s \in Sets}

Members(q) == {q[i] : i \in DOMAIN q}

(* The set waiter w is at. *)
SetAt(w) == joined[w][pos[w]]

TasksOf(s) == {t \in Tasks : home[t] = s}

TypeOK ==
    /\ home \in [Tasks -> Sets \cup {NoSet}]
    /\ task \in [Tasks -> {"unborn", "running", "ended", "panicked"}]
    /\ pushing \in SUBSET Tasks
    /\ spawned \in SUBSET Sets
    /\ handles \in [Sets -> Seq(Tasks)]
    /\ done \in [Sets -> BOOLEAN]
    /\ waiter \in [Waiters -> {"idle", "take", "check", "asleep", "block",
                               "mark", "notify", "returned", "panicked"}]
    /\ joined \in [Waiters -> Seq(Sets)]
    /\ pos \in [Waiters -> Nat]
    /\ \A w \in Waiters :
          waiter[w] \notin {"idle", "returned"} => pos[w] \in DOMAIN joined[w]
    /\ taken \in [Waiters -> Seq(Tasks)]
    /\ unwinding \in SUBSET Waiters

Init ==
    /\ home = [t \in Tasks |-> NoSet]
    /\ task = [t \in Tasks |-> "unborn"]
    /\ pushing = {}
    /\ spawned = {}
    /\ handles = [s \in Sets |-> <<>>]
    /\ done = [s \in Sets |-> FALSE]
    /\ waiter = [w \in Waiters |-> "idle"]
    /\ joined = [w \in Waiters |-> <<>>]
    /\ pos = [w \in Waiters |-> 1]
    /\ taken = [w \in Waiters |-> <<>>]
    /\ unwinding = {}

------------------------------------------------------------------------------
(* spawn_with: each task is spawned, then pushed, one after the other.      *)
Spawn(t, s) ==
    /\ s \notin spawned /\ task[t] = "unborn"
    /\ pushing \cap TasksOf(s) = {}
    /\ home' = [home EXCEPT ![t] = s]
    /\ task' = [task EXCEPT ![t] = "running"]
    /\ pushing' = pushing \cup {t}
    /\ UNCHANGED <<spawned, handles, done, waiting>>

Push(t) ==
    /\ t \in pushing
    /\ pushing' = pushing \ {t}
    /\ handles' = [handles EXCEPT ![home[t]] = Append(@, t)]
    /\ UNCHANGED <<home, task, spawned, done, waiting>>

(* It returns, and a completion of s can be had from the handle.            *)
SpawnReturns(s) ==
    /\ s \notin spawned
    /\ TasksOf(s) # {} /\ pushing \cap TasksOf(s) = {}
    /\ spawned' = spawned \cup {s}
    /\ UNCHANGED <<home, task, pushing, handles, done, waiting>>

TaskEnds(t) ==
    /\ task[t] = "running"
    /\ \E how \in {"ended", "panicked"} : task' = [task EXCEPT ![t] = how]
    /\ UNCHANGED <<spawner, handles, done, waiting>>

------------------------------------------------------------------------------
(* TaskCompletion::wait. *)
Wait(w, c) ==
    /\ waiter[w] = "idle"
    /\ Members(c) \subseteq spawned
    /\ joined' = [joined EXCEPT ![w] = c]
    /\ pos' = [pos EXCEPT ![w] = 1]
    /\ waiter' = [waiter EXCEPT ![w] = "take"]
    /\ UNCHANGED <<spawner, task, handles, done, taken, unwinding>>

(* Slip: the waiter leaves the handles for others to take too. *)
XTakeCopies(w) ==
    /\ waiter[w] = "take"
    /\ taken' = [taken EXCEPT ![w] = handles[SetAt(w)]]
    /\ waiter' = [waiter EXCEPT ![w] = IF handles[SetAt(w)] = <<>> THEN "check"
                                       ELSE "block"]
    /\ UNCHANGED <<spawner, task, handles, done, joined, pos, unwinding>>

(* TaskSet::wait: whatever handles there are are taken. *)
Take(w) ==
    /\ waiter[w] = "take"
    /\ taken' = [taken EXCEPT ![w] = handles[SetAt(w)]]
    /\ handles' = [handles EXCEPT ![SetAt(w)] = <<>>]
    /\ waiter' = [waiter EXCEPT ![w] = IF handles[SetAt(w)] = <<>> THEN "check"
                                       ELSE "block"]
    /\ UNCHANGED <<spawner, task, done, joined, pos, unwinding>>

(* What follows the set w is at: the next of its completion, if any.        *)
NextFor(w) == IF pos[w] < Len(joined[w]) THEN "take" ELSE "returned"

(* Without handles: the set is done, or the waiter falls asleep.  It is     *)
(* back here when it is woken.                                              *)
Check(w) ==
    /\ waiter[w] = "check"
    /\ \/ /\ done[SetAt(w)]
          /\ waiter' = [waiter EXCEPT ![w] = NextFor(w)]
          /\ pos' = [pos EXCEPT ![w] = @ + 1]
       \/ /\ ~done[SetAt(w)]
          /\ waiter' = [waiter EXCEPT ![w] = "asleep"]
          /\ UNCHANGED pos
    /\ UNCHANGED <<spawner, task, handles, done, joined, taken, unwinding>>

(* Blocking on the next handle ends with its task.  A panic unwinds: the    *)
(* remaining handles are dropped, and the guard marks the set done.         *)
BlockOn(w) ==
    /\ waiter[w] = "block" /\ taken[w] # <<>>
    /\ \/ /\ task[Head(taken[w])] = "ended"
          /\ taken' = [taken EXCEPT ![w] = Tail(@)]
          /\ UNCHANGED <<waiter, unwinding>>
       \/ /\ task[Head(taken[w])] = "panicked"
          /\ taken' = [taken EXCEPT ![w] = <<>>]
          /\ unwinding' = unwinding \cup {w}
          /\ waiter' = [waiter EXCEPT ![w] = "mark"]
    /\ UNCHANGED <<spawner, task, handles, done, joined, pos>>

(* Slip: the guard is dropped where it is made. *)
XGuardAtOnce(w) ==
    /\ waiter[w] = "block"
    /\ waiter' = [waiter EXCEPT ![w] = "mark"]
    /\ UNCHANGED <<spawner, task, handles, done, joined, pos, taken, unwinding>>

(* All handles are done with: the guard is dropped. *)
BlockedOnAll(w) ==
    /\ waiter[w] = "block" /\ taken[w] = <<>>
    /\ waiter' = [waiter EXCEPT ![w] = "mark"]
    /\ UNCHANGED <<spawner, task, handles, done, joined, pos, taken, unwinding>>

(* DoneGuard::drop marks the set ...                                        *)
Mark(w) ==
    /\ waiter[w] = "mark"
    /\ done' = [done EXCEPT ![SetAt(w)] = TRUE]
    /\ waiter' = [waiter EXCEPT ![w] = "notify"]
    /\ UNCHANGED <<spawner, task, handles, joined, pos, taken, unwinding>>

(* The waiters asleep on s, woken. *)
Woken(s) ==
    [w \in Waiters |->
        IF waiter[w] = "asleep" /\ SetAt(w) = s THEN "check" ELSE waiter[w]]

(* Slip: the others are woken after the loop, which a panic leaves early.   *)
XNotifyAfterLoop(w) ==
    /\ waiter[w] = "notify"
    /\ \/ /\ w \in unwinding
          /\ waiter' = [waiter EXCEPT ![w] = "panicked"]
          /\ UNCHANGED pos
       \/ /\ w \notin unwinding
          /\ pos' = [pos EXCEPT ![w] = @ + 1]
          /\ waiter' = [Woken(SetAt(w)) EXCEPT ![w] = NextFor(w)]
    /\ UNCHANGED <<spawner, task, handles, done, joined, taken, unwinding>>

(* ... and wakes the others; the waiter goes on, or unwinds.                *)
NotifyAll(w) ==
    /\ waiter[w] = "notify"
    /\ \/ /\ w \in unwinding
          /\ waiter' = [Woken(SetAt(w)) EXCEPT ![w] = "panicked"]
          /\ UNCHANGED pos
       \/ /\ w \notin unwinding
          /\ pos' = [pos EXCEPT ![w] = @ + 1]
          /\ waiter' = [Woken(SetAt(w)) EXCEPT ![w] = NextFor(w)]
    /\ UNCHANGED <<spawner, task, handles, done, joined, taken, unwinding>>

------------------------------------------------------------------------------
SpawnStep ==
    \/ \E t \in Tasks, s \in Sets : Spawn(t, s)
    \/ \E t \in Tasks : Push(t)
    \/ \E s \in Sets : SpawnReturns(s)

WaiterStep(w) ==
    \/ Take(w)
    \/ Check(w)
    \/ BlockOn(w)
    \/ BlockedOnAll(w)
    \/ Mark(w)
    \/ NotifyAll(w)

Next ==
    \/ SpawnStep
    \/ \E t \in Tasks : TaskEnds(t)
    \/ \E w \in Waiters, c \in Completions : Wait(w, c)
    \/ \E w \in Waiters : WaiterStep(w)

Spec == Init /\ [][Next]_vars

(* Threads run, and tasks end, which is what a completion's holder counts   *)
(* on after cancelling them (ServiceLoop: CancelStops).                     *)
Fairness ==
    /\ \A t \in Tasks : WF_vars(TaskEnds(t))
    /\ \A w \in Waiters : WF_vars(WaiterStep(w))

FairSpec == Spec /\ Fairness

------------------------------------------------------------------------------
Ended(t) == task[t] \in {"ended", "panicked"}

(* A set counts as complete only once all of its tasks have ended, or one   *)
(* of them has panicked (runtime.rs:50-53, 70-79, 108-111).                 *)
DoneMeansEnded ==
    \A s \in Sets :
        done[s] => \/ \A t \in TasksOf(s) : Ended(t)
                   \/ \E t \in TasksOf(s) : task[t] = "panicked"

(* A panic is not swallowed: a set that completes with a panicked task has  *)
(* unwound into a waiter, and into one only (runtime.rs:57-58, 100-101).    *)
PanicsPropagate ==
    \A s \in Sets :
        LET Blamed == {w \in unwinding : SetAt(w) = s}
        IN  /\ done[s] /\ Blamed = {} => \A t \in TasksOf(s) : task[t] = "ended"
            /\ \A v, w \in Blamed : v = w

(* Every wait ends, however many waiters share the sets, in whatever order  *)
(* (runtime.rs:59-84).                                                      *)
WaitsEnd ==
    \A w \in Waiters :
        waiter[w] = "take" ~> waiter[w] \in {"returned", "panicked"}
==============================================================================

----------------------------- MODULE ServiceLoop -----------------------------
(* One service at run time: its loop, its handles, its command queue, the   *)
(* state lock, and the shutdown of all of them.  The loop is the code       *)
(* rillet-macros generates (handlers.rs, generate_spawn_impl); the callers  *)
(* run the generated handle methods.                                        *)
(*                                                                          *)
(* The service's data is abstracted to what its users can tell apart:       *)
(* whether a turn's effects are in the published view yet, and what became  *)
(* of each operation.  OpsCell models the cell of deferred operations step  *)
(* by step; here it is what it promises: a set of parked operations,        *)
(* claimed, expired, displaced or closed.                                   *)
(*                                                                          *)
(* An operation is sent once, for each call makes one of its own; a plain   *)
(* command may be sent over and over, for as long as there are callers.     *)
EXTENDS Integers, Sequences, FiniteSets

CONSTANTS
    Handles,             \* handles a run can hold
    Plain,               \* commands, without an operation
    Immediate, Deferred, \* operations, by the kind of their handler
    Events, Watches,     \* input sources, by kind
    Capacity,            \* of the command queue
    None,                \* no command, source or handle
    Awaited,             \* somebody holds the service's TaskCompletion
    MayPanic             \* a handler, or view(), may panic

Ops == Immediate \cup Deferred
Commands == Plain \cup Ops
Sources == Events \cup Watches
HasCommands == Commands # {}

ASSUME ServiceAssumption ==
    /\ Plain \cap Ops = {}
    /\ Immediate \cap Deferred = {}
    /\ Events \cap Watches = {}
    /\ None \notin Handles \cup Commands \cup Sources \cup {"loop"}
    /\ Commands \cap (Handles \cup Sources) = {}
    /\ Handles \cap Sources = {}
    /\ Handles # {} /\ "loop" \notin Handles
    /\ IsFiniteSet(Handles)
    /\ Capacity \in Nat \ {0}
    /\ Awaited \in BOOLEAN
    /\ MayPanic \in BOOLEAN

VARIABLES
    handles,    \* the live handles: each holds a command sender
    sent,       \* commands some caller has tried to send
    queue,      \* commands accepted and not yet received
    rxOpen,     \* the loop still holds the receiver
    counting,   \* per handle: the command sent and not yet counted
    st,         \* state of each command's operation
    executed,   \* commands whose execution has begun
    holder,     \* holder of the state's write lock
    turn,       \* where the holder is in its turn
    poisoned,   \* a holder panicked
    parked,     \* deferred operations in the cell
    claimed,    \* operations whose conclusion is queued
    unseen,     \* operations claimed since the view was last published
    closed,     \* the cell is closed
    loop,       \* where the loop is
    hand,       \* the command or source the loop is serving
    cmdOpen,    \* the loop's flags: command channel open ...
    open,       \* ... and event sources open
    draining,   \* the loop is past its select
    inbox,      \* sources with an unread event or view
    ended,      \* event sources that have closed
    observed,   \* some subscriber or view watcher remains
    cancelled,
    expirer,    \* the task expiring deferred operations
    depth       \* command metrics: those enqueued less those processed

channel == <<sent, queue, rxOpen>>
lock == <<holder, turn, poisoned>>
cell == <<parked, claimed, unseen, closed>>
flags == <<cmdOpen, open, draining>>
env == <<inbox, ended, observed, cancelled>>
metrics == <<depth>>

vars == <<handles, sent, queue, rxOpen, counting, st, executed, holder, turn,
          poisoned, parked, claimed, unseen, closed, loop, hand, cmdOpen, open,
          draining, inbox, ended, observed, cancelled, expirer, depth>>

Terminal == {"Done", "TimedOut", "Lost"}
LoopPc == {"select", "lock", "turn", "count", "drain", "exitcheck", "close",
           "return", "ended", "dead"}

InQueue == {queue[i] : i \in DOMAIN queue}

(* Resolvers dropped: pending operations conclude as Lost. *)
Dropped(S) ==
    [o \in Ops |-> IF o \in S /\ st[o] = "Pending" THEN "Lost" ELSE st[o]]

TypeOK ==
    /\ handles \in SUBSET Handles
    /\ sent \in SUBSET Commands
    /\ queue \in Seq(Commands) /\ Len(queue) <= Capacity
    /\ rxOpen \in BOOLEAN
    /\ counting \in [Handles -> Commands \cup {None}]
    /\ st \in [Ops -> {"Unborn", "Pending"} \cup Terminal]
    /\ executed \in SUBSET Commands
    /\ holder \in Handles \cup {"loop", None}
    /\ turn \in {"none", "handler", "publish", "flush"}
    /\ poisoned \in BOOLEAN
    /\ parked \in SUBSET Deferred
    /\ claimed \in SUBSET Ops
    /\ unseen \in SUBSET Ops
    /\ closed \in BOOLEAN
    /\ loop \in LoopPc
    /\ hand \in Commands \cup Sources \cup {None}
    /\ cmdOpen \in BOOLEAN
    /\ open \in SUBSET Sources
    /\ draining \in BOOLEAN
    /\ inbox \in SUBSET Sources
    /\ ended \in SUBSET Events
    /\ observed \in BOOLEAN
    /\ cancelled \in BOOLEAN
    /\ expirer \in {"running", "stopped"}
    /\ depth \in Int

(* Just spawned, with one handle. *)
Init ==
    /\ \E h \in Handles : handles = {h}
    /\ sent = {}
    /\ queue = <<>>
    /\ rxOpen = TRUE
    /\ counting = [h \in Handles |-> None]
    /\ st = [o \in Ops |-> "Unborn"]
    /\ executed = {}
    /\ holder = None
    /\ turn = "none"
    /\ poisoned = FALSE
    /\ parked = {}
    /\ claimed = {}
    /\ unseen = {}
    /\ closed = FALSE
    /\ loop = "select"
    /\ hand = None
    /\ cmdOpen = TRUE
    /\ open = Sources
    /\ draining = FALSE
    /\ inbox = {}
    /\ ended = {}
    /\ observed \in BOOLEAN
    /\ cancelled = FALSE
    /\ expirer = IF Deferred = {} THEN "stopped" ELSE "running"
    /\ depth = 0

------------------------------------------------------------------------------
(* Callers. *)

(* The operation of c, if it has one, once its resolver exists (s) or has   *)
(* been dropped again.                                                      *)
Born(c, s) == IF c \in Ops THEN [st EXCEPT ![c] = s] ELSE st

(* An operation is called once. *)
MaySend(h, c) ==
    /\ h \in handles /\ counting[h] = None
    /\ c \in Ops => c \notin sent

(* A generated handle method, up to send_command's answer: the command is   *)
(* delivered ...                                                            *)
SendAccepted(h, c) ==
    /\ MaySend(h, c)
    /\ rxOpen /\ Len(queue) < Capacity
    /\ sent' = sent \cup {c}
    /\ queue' = Append(queue, c)
    /\ st' = Born(c, "Pending")
    /\ counting' = [counting EXCEPT ![h] = c]
    /\ UNCHANGED <<handles, rxOpen, executed, lock, cell, loop, hand, flags, env,
                   expirer, metrics>>

(* ... or dropped: the service is gone, or the queue is full and the caller *)
(* panics.                                                                  *)
SendDropped(h, c) ==
    /\ MaySend(h, c)
    /\ ~rxOpen \/ Len(queue) = Capacity
    /\ sent' = sent \cup {c}
    /\ st' = Born(c, "Lost")
    /\ UNCHANGED <<handles, queue, rxOpen, counting, executed, lock, cell, loop,
                   hand, flags, env, expirer, metrics>>

(* inc_enqueued, after a delivered send. *)
Count(h) ==
    /\ counting[h] # None
    /\ counting' = [counting EXCEPT ![h] = None]
    /\ depth' = depth + 1
    /\ UNCHANGED <<handles, channel, st, executed, lock, cell, loop, hand, flags,
                   env, expirer>>

Clone(h) ==
    /\ handles # {} /\ h \notin handles
    /\ handles' = handles \cup {h}
    /\ UNCHANGED <<channel, counting, st, executed, lock, cell, loop, hand,
                   flags, env, expirer, metrics>>

DropHandle(h) ==
    /\ h \in handles /\ counting[h] = None /\ holder # h
    /\ handles' = handles \ {h}
    /\ UNCHANGED <<channel, counting, st, executed, lock, cell, loop, hand,
                   flags, env, expirer, metrics>>

(* A direct_mut method takes the write lock on the caller's thread. *)
DirectMut(h) ==
    /\ h \in handles /\ counting[h] = None
    /\ holder = None /\ ~poisoned
    /\ holder' = h
    /\ turn' = "handler"
    /\ UNCHANGED <<handles, channel, counting, st, executed, poisoned, cell,
                   loop, hand, flags, env, expirer, metrics>>

(* What the last sender, gone, leaves in a queue nobody receives from. *)
DropQueue ==
    /\ handles = {} /\ ~rxOpen /\ queue # <<>>
    /\ queue' = <<>>
    /\ st' = Dropped(InQueue)
    /\ UNCHANGED <<handles, sent, rxOpen, counting, executed, lock, cell, loop,
                   hand, flags, env, expirer, metrics>>

(* What the last reference to the cell, gone, leaves in it. *)
DropCell ==
    /\ handles = {} /\ ~rxOpen /\ expirer = "stopped"
    /\ parked \cup claimed # {}
    /\ parked' = {}
    /\ claimed' = {}
    /\ st' = Dropped(parked \cup claimed)
    /\ UNCHANGED <<handles, channel, counting, executed, lock, unseen, closed,
                   loop, hand, flags, env, expirer, metrics>>

------------------------------------------------------------------------------
(* The world around: cancellation, upstream sources, observers. *)

EnvStep ==
    /\ \/ ~cancelled /\ cancelled' = TRUE /\ UNCHANGED <<inbox, ended, observed>>
       \/ \E s \in Sources \ (inbox \cup ended) :
             inbox' = inbox \cup {s} /\ UNCHANGED <<cancelled, ended, observed>>
       \/ \E s \in Events \ ended :
             ended' = ended \cup {s} /\ UNCHANGED <<cancelled, inbox, observed>>
       \/ /\ observed' = ~observed
          /\ observed' => handles # {}  \* observers come from handles
          /\ UNCHANGED <<cancelled, inbox, ended>>
    /\ UNCHANGED <<handles, channel, counting, st, executed, lock, cell, loop,
                   hand, flags, expirer, metrics>>

------------------------------------------------------------------------------
(* A turn under the write lock, whoever holds it. *)

(* succeed_ or fail_ on a parked operation. *)
Claim(o) ==
    /\ turn = "handler" /\ o \in parked
    /\ parked' = parked \ {o}
    /\ claimed' = claimed \cup {o}
    /\ unseen' = unseen \cup {o}
    /\ UNCHANGED <<handles, channel, counting, st, executed, lock, closed, loop,
                   hand, flags, env, expirer, metrics>>

(* The operation an immediate handler is about to conclude. *)
Immediately ==
    IF holder = "loop" /\ hand \in Immediate THEN {hand} ELSE {}

(* Slip: conclusions applied before the view is published. *)
XFlushFirst ==
    /\ turn = "handler"
    /\ turn' = "flush"
    /\ claimed' = claimed \cup Immediately
    /\ unseen' = unseen \cup Immediately
    /\ UNCHANGED <<handles, channel, counting, st, executed, holder, poisoned,
                   parked, closed, loop, hand, flags, env, expirer, metrics>>

HandlerReturns ==
    /\ turn = "handler"
    /\ turn' = "publish"
    /\ claimed' = claimed \cup Immediately
    /\ unseen' = unseen \cup Immediately
    /\ UNCHANGED <<handles, channel, counting, st, executed, holder, poisoned,
                   parked, closed, loop, hand, flags, env, expirer, metrics>>

(* __rillet_publish_view. *)
Publish ==
    /\ turn = "publish"
    /\ turn' = "flush"
    /\ unseen' = {}
    /\ UNCHANGED <<handles, channel, counting, st, executed, holder, poisoned,
                   parked, claimed, closed, loop, hand, flags, env, expirer,
                   metrics>>

(* flush_conclusions and the release of the lock.  A source has been served *)
(* then; a command is still to be counted.                                  *)
Flush ==
    /\ turn = "flush"
    /\ st' = [o \in Ops |-> IF o \in claimed THEN "Done" ELSE st[o]]
    /\ claimed' = {}
    /\ turn' = "none"
    /\ holder' = None
    /\ IF holder # "loop" THEN UNCHANGED <<loop, hand>>
       ELSE IF hand \in Commands THEN loop' = "count" /\ UNCHANGED hand
       ELSE loop' = "exitcheck" /\ hand' = None
    /\ UNCHANGED <<handles, channel, counting, executed, poisoned, parked,
                   unseen, closed, flags, env, expirer, metrics>>

(* The loop unwinds: what it had in hand and its end of the queue are gone. *)
LoopDies ==
    /\ loop' = "dead"
    /\ hand' = None
    /\ rxOpen' = FALSE

(* A handler, or the service's own view(), panics: the lock is poisoned as  *)
(* its guard is dropped, and a resolver still in the handler's hands goes.  *)
Panic ==
    /\ MayPanic /\ turn \in {"handler", "publish"}
    /\ poisoned' = TRUE
    /\ holder' = None
    /\ turn' = "none"
    /\ st' = IF turn = "handler" THEN Dropped(Immediately) ELSE st
    /\ IF holder = "loop" THEN LoopDies ELSE UNCHANGED <<loop, hand, rxOpen>>
    /\ UNCHANGED <<handles, sent, queue, counting, executed, cell, flags, env,
                   expirer, metrics>>

------------------------------------------------------------------------------
(* The loop. *)

(* Slip: cancellation breaks without draining. *)
XCancelBreaks ==
    /\ loop = "select" /\ cancelled
    /\ loop' = IF HasCommands THEN "close" ELSE "return"
    /\ draining' = TRUE
    /\ UNCHANGED <<handles, channel, counting, st, executed, lock, cell, hand,
                   cmdOpen, open, env, expirer, metrics>>

(* Slip: the cell is closed before the drain. *)
XCloseFirst ==
    /\ loop = "select" /\ cancelled
    /\ loop' = IF HasCommands THEN "drain" ELSE "return"
    /\ draining' = TRUE
    /\ closed' = TRUE /\ parked' = {} /\ st' = Dropped(parked)
    /\ UNCHANGED <<handles, channel, counting, executed, lock, claimed, unseen,
                   hand, cmdOpen, open, env, expirer, metrics>>

(* The arms of select!, each ready under its own condition.  Cancellation   *)
(* first: a service with commands goes on to drain them.                    *)
SelectCancel ==
    /\ loop = "select" /\ cancelled
    /\ loop' = IF HasCommands THEN "drain" ELSE "return"
    /\ draining' = TRUE
    /\ UNCHANGED <<handles, channel, counting, st, executed, lock, cell, hand,
                   cmdOpen, open, env, expirer, metrics>>

Receive ==
    /\ queue # <<>>
    /\ hand' = Head(queue)
    /\ queue' = Tail(queue)
    /\ loop' = "lock"
    /\ UNCHANGED <<handles, sent, rxOpen, counting, st, executed, lock, cell,
                   flags, env, expirer, metrics>>

SelectCommand == loop = "select" /\ cmdOpen /\ Receive

(* recv on a queue that is empty and has lost its last sender. *)
SelectCommandsClosed ==
    /\ loop = "select" /\ cmdOpen
    /\ queue = <<>> /\ handles = {}
    /\ cmdOpen' = FALSE
    /\ loop' = "exitcheck"
    /\ UNCHANGED <<handles, channel, counting, st, executed, lock, cell, hand,
                   open, draining, env, expirer, metrics>>

SelectSource(s) ==
    /\ loop = "select" /\ s \in open /\ s \in inbox
    /\ inbox' = inbox \ {s}
    /\ hand' = s
    /\ loop' = "lock"
    /\ UNCHANGED <<handles, channel, counting, st, executed, lock, cell, flags,
                   ended, observed, cancelled, expirer, metrics>>

(* Slip: no exit check when a source closes. *)
XSourceClosedGoesOn(s) ==
    /\ loop = "select" /\ s \in open /\ s \in ended /\ s \notin inbox
    /\ open' = open \ {s}
    /\ UNCHANGED <<handles, channel, counting, st, executed, lock, cell, loop,
                   hand, cmdOpen, draining, env, expirer, metrics>>

SelectSourceClosed(s) ==
    /\ loop = "select" /\ s \in open /\ s \in ended /\ s \notin inbox
    /\ open' = open \ {s}
    /\ loop' = "exitcheck"
    /\ UNCHANGED <<handles, channel, counting, st, executed, lock, cell, hand,
                   cmdOpen, draining, env, expirer, metrics>>

(* The write lock is had; a command starts to execute.  A deferred one      *)
(* parks its operation first, displacing any (D) parked under its key.      *)
BeginTurn(D) ==
    /\ loop = "lock" /\ holder = None /\ ~poisoned
    /\ holder' = "loop"
    /\ turn' = "handler"
    /\ loop' = "turn"
    /\ executed' = IF hand \in Commands THEN executed \cup {hand} ELSE executed
    /\ IF hand \in Deferred
       THEN IF closed THEN st' = Dropped({hand}) /\ UNCHANGED parked
            ELSE st' = Dropped(D) /\ parked' = (parked \ D) \cup {hand}
       ELSE D = {} /\ UNCHANGED <<st, parked>>
    /\ UNCHANGED <<handles, channel, counting, poisoned, claimed, unseen, closed,
                   hand, flags, env, expirer, metrics>>

(* An expect on the poisoned lock, at any of the loop's three uses of it.   *)
FindPoisoned ==
    /\ poisoned
    /\ \/ loop \in {"lock", "close"}
       \/ loop = "exitcheck" /\ ~cmdOpen /\ open # {}
    /\ LoopDies
    /\ st' = Dropped({hand})
    /\ UNCHANGED <<handles, sent, queue, counting, executed, lock, cell, flags,
                   env, expirer, metrics>>

(* Slip: drained commands are not counted. *)
XDrainUncounted ==
    /\ loop = "count"
    /\ depth' = IF draining THEN depth ELSE depth - 1
    /\ hand' = None
    /\ loop' = IF draining THEN "drain" ELSE "select"
    /\ UNCHANGED <<handles, channel, counting, st, executed, lock, cell, flags,
                   env, expirer>>

(* inc_processed. *)
CountProcessed ==
    /\ loop = "count"
    /\ depth' = depth - 1
    /\ hand' = None
    /\ loop' = IF draining THEN "drain" ELSE "select"
    /\ UNCHANGED <<handles, channel, counting, st, executed, lock, cell, flags,
                   env, expirer>>

(* try_recv, until the queue is empty. *)
DrainNext == loop = "drain" /\ Receive

Break == loop' = IF HasCommands THEN "close" ELSE "return"

(* Slip: the drain falls through to the select again. *)
XDrainNoBreak ==
    /\ loop = "drain" /\ queue = <<>>
    /\ loop' = "select"
    /\ UNCHANGED <<handles, channel, counting, st, executed, lock, cell, hand,
                   flags, env, expirer, metrics>>

DrainEnd ==
    /\ loop = "drain" /\ queue = <<>>
    /\ Break
    /\ UNCHANGED <<handles, channel, counting, st, executed, lock, cell, hand,
                   flags, env, expirer, metrics>>

(* Slip: the check ignores the command channel. *)
XExitIgnoresCommands ==
    /\ loop = "exitcheck"
    /\ \/ open = {} /\ Break
       \/ /\ open # {} /\ holder = None /\ ~poisoned
          /\ IF observed THEN loop' = "select" ELSE Break
    /\ UNCHANGED <<handles, channel, counting, st, executed, lock, cell, hand,
                   flags, env, expirer, metrics>>

(* Whether anything can still reach the service.  The observers are looked  *)
(* up under the read lock, and only while some input source is open.        *)
ExitCheck ==
    /\ loop = "exitcheck"
    /\ \/ cmdOpen /\ loop' = "select"
       \/ ~cmdOpen /\ open = {} /\ Break
       \/ /\ ~cmdOpen /\ open # {} /\ holder = None /\ ~poisoned
          /\ IF observed THEN loop' = "select" ELSE Break
    /\ UNCHANGED <<handles, channel, counting, st, executed, lock, cell, hand,
                   flags, env, expirer, metrics>>

(* Slip: parked operations are forgotten, their resolvers with them. *)
XCloseForgets ==
    /\ loop = "close" /\ holder = None /\ ~poisoned
    /\ closed' = TRUE
    /\ parked' = {}
    /\ loop' = "return"
    /\ UNCHANGED <<handles, channel, counting, st, executed, lock, claimed,
                   unseen, hand, flags, env, expirer, metrics>>

(* OpsCell::close, under the read lock: parked operations are lost. *)
Close ==
    /\ loop = "close" /\ holder = None /\ ~poisoned
    /\ closed' = TRUE
    /\ parked' = {}
    /\ st' = Dropped(parked)
    /\ loop' = "return"
    /\ UNCHANGED <<handles, channel, counting, executed, lock, claimed, unseen,
                   hand, flags, env, expirer, metrics>>

(* The loop's task ends and drops its end of the queue. *)
Return ==
    /\ loop = "return"
    /\ loop' = "ended"
    /\ rxOpen' = FALSE
    /\ UNCHANGED <<handles, sent, queue, counting, st, executed, lock, cell,
                   hand, flags, env, expirer, metrics>>

------------------------------------------------------------------------------
(* The expirer, as far as the loop and the callers can tell. *)

Expire(o) ==
    /\ expirer = "running" /\ o \in parked
    /\ parked' = parked \ {o}
    /\ st' = [st EXCEPT ![o] = "TimedOut"]
    /\ UNCHANGED <<handles, channel, counting, executed, lock, claimed, unseen,
                   closed, loop, hand, flags, env, expirer, metrics>>

ExpirerStops ==
    /\ expirer = "running" /\ cancelled
    /\ expirer' = "stopped"
    /\ UNCHANGED <<handles, channel, counting, st, executed, lock, cell, loop,
                   hand, flags, env, metrics>>

(* The TaskSet goes with its last holder - handles, the loop's state, a     *)
(* TaskCompletion - and the expirer's handle, dropped with it, cancels it.  *)
ExpirerAborted ==
    /\ expirer = "running" /\ handles = {} /\ ~rxOpen /\ ~Awaited
    /\ expirer' = "stopped"
    /\ UNCHANGED <<handles, channel, counting, st, executed, lock, cell, loop,
                   hand, flags, env, metrics>>

------------------------------------------------------------------------------
CallerStep ==
    \/ \E h \in Handles, c \in Commands : SendAccepted(h, c) \/ SendDropped(h, c)
    \/ \E h \in Handles : Count(h) \/ Clone(h) \/ DropHandle(h) \/ DirectMut(h)

DropStep == DropQueue \/ DropCell

TurnStep ==
    \/ \E o \in Deferred : Claim(o)
    \/ HandlerReturns
    \/ Publish
    \/ Flush
    \/ Panic

LoopStep ==
    \/ SelectCancel
    \/ SelectCommand
    \/ SelectCommandsClosed
    \/ \E s \in Sources : SelectSource(s) \/ SelectSourceClosed(s)
    \/ \E D \in {{}} \cup {{o} : o \in parked} : BeginTurn(D)
    \/ FindPoisoned
    \/ CountProcessed
    \/ DrainNext
    \/ DrainEnd
    \/ ExitCheck
    \/ Close
    \/ Return

ExpirerStep ==
    \/ ExpirerStops
    \/ ExpirerAborted
    \/ \E o \in Deferred : Expire(o)

Next ==
    CallerStep \/ DropStep \/ EnvStep \/ TurnStep \/ LoopStep \/ ExpirerStep

Spec == Init /\ [][Next]_vars

(* The loop's task is polled whenever it can run, gets the lock it waits    *)
(* for however often callers take it in between, and select! picks among    *)
(* ready arms at random, so no arm that keeps being ready is passed over    *)
(* for ever.  Handlers return.  A caller that has sent goes on to count,    *)
(* a cancelled expirer returns, and what nobody refers to is dropped.       *)
Fairness ==
    /\ SF_vars(LoopStep)
    /\ SF_vars(SelectCancel)
    /\ SF_vars(SelectCommand)
    /\ SF_vars(SelectCommandsClosed)
    /\ \A s \in Sources : SF_vars(SelectSource(s)) /\ SF_vars(SelectSourceClosed(s))
    /\ WF_vars(HandlerReturns)
    /\ WF_vars(Publish \/ Flush)
    /\ \A h \in Handles : WF_vars(Count(h))
    /\ WF_vars(ExpirerStops \/ ExpirerAborted)
    /\ WF_vars(DropStep)

FairSpec == Spec /\ Fairness

------------------------------------------------------------------------------
(* Safety. *)

Stopped == loop \in {"ended", "dead"}

(* Every event source has closed, and there is no watch, which never does.  *)
SourcesClosed == Watches = {} /\ ended = Events

(* "A service runs until it is cancelled or until nothing can reach it":    *)
(* short of a panic, a loop that winds down has been cancelled, or has lost *)
(* every handle and either every source or every observer (lib.rs:9-11).    *)
StopsForCause ==
    loop \in {"drain", "close", "return", "ended"} =>
        cancelled \/ (handles = {} /\ (SourcesClosed \/ ~observed))

(* An operation seen concluded is one whose effects the published view      *)
(* shows (tests/ops.rs:329; handlers.rs:994-1002).                          *)
ConcludedShown == \A o \in Ops : st[o] = "Done" => o \notin unseen

(* A pending operation is held by a queued command, by the loop, or by the  *)
(* cell, until its handles are gone: none is forgotten by a turn, a drain   *)
(* or a panic (op.rs:134-138).                                              *)
OpsAccounted ==
    \A o \in Ops :
        st[o] = "Pending" <=>
            \/ o \in InQueue \cup parked \cup claimed
            \/ o = hand /\ loop = "lock"
            \/ o \in Immediately /\ turn = "handler"

(* While the loop receives, what is enqueued and not processed is what is   *)
(* queued or in the loop's hands, give or take the sends still to be        *)
(* counted: once callers are quiet the depth is exact (metrics.rs:3-5,      *)
(* handlers.rs:611-617, 996-1018).                                          *)
DepthConserved ==
    rxOpen =>
        depth + Cardinality({h \in Handles : counting[h] # None})
            = Len(queue) + (IF hand \in Commands THEN 1 ELSE 0)

(* No operation reaches a closed cell: the loop inserts, and the loop       *)
(* closes, last (op.rs:246-248, handlers.rs:1014-1018, 1072-1076).          *)
NoLateInsert == closed => loop \notin {"lock", "turn"}

------------------------------------------------------------------------------
(* Liveness. *)

(* Cancellation takes the loop past its select, and stops it once callers   *)
(* cease to send: the drain goes on for as long as try_recv finds a command *)
(* (lib.rs:9, service.rs:838-841, handlers.rs:1014-1018, 1054-1056).        *)
CancelStops ==
    /\ cancelled ~> (draining \/ Stopped)
    /\ <>[][\A h \in Handles, c \in Commands : ~SendAccepted(h, c)]_vars
          => (cancelled ~> Stopped)

(* A service that nothing can reach, its sources closed, stops              *)
(* (lib.rs:9-11).                                                           *)
UnreachableStops == (handles = {} /\ SourcesClosed) ~> Stopped

(* A command delivered before the loop has drained its queue is executed    *)
(* (runtime.rs:10-14, handlers.rs:1013-1018).                               *)
DeliveredIsExecuted ==
    \A c \in Commands :
        (c \in InQueue /\ loop \notin {"close", "return", "ended", "dead"})
            ~> (c \in executed \/ loop = "dead")

(* "An operation can never hang: once the service is gone, the dropped      *)
(* command concludes it as Lost" (examples/08_ops.rs).                      *)
OpsNeverHang ==
    \A o \in Ops : (Stopped /\ st[o] = "Pending") ~> st[o] \in Terminal

(* A service that has stopped completes: all of its tasks end, and a        *)
(* TaskCompletion::wait that somebody blocks in returns (runtime.rs:98).    *)
StopCompletes == Stopped ~> expirer = "stopped"
==============================================================================

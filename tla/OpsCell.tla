------------------------------- MODULE OpsCell -------------------------------
(* The deferred operations of one service: op.rs, OpsCell and expire_loop.  *)
(*                                                                          *)
(* Three parties share the cell.                                            *)
(*  - The WRITER is whoever holds the service's state write lock: the       *)
(*    service loop executing a command or an event, or a caller inside a    *)
(*    direct_mut method.  A turn parks at most one operation (insert),      *)
(*    claims parked ones (succeed, fail), and ends by applying the queued   *)
(*    conclusions (flush_conclusions).  At shutdown the loop closes the     *)
(*    cell under the read lock, which excludes every writer.                *)
(*  - The EXPIRER is the task running expire_loop.  It takes no state lock: *)
(*    only the registries' own mutexes stand between it and the writer.     *)
(*  - CALLERS hold Ops, and may claim parked operations from a direct       *)
(*    method, under the read lock.                                          *)
(*                                                                          *)
(* Granularity: each critical section of a mutex (registries, entries,      *)
(* conclusions) is a step.  Looking a registry up in the map is merged into *)
(* the entries section that follows it: a registry, once made, is never     *)
(* removed, so nothing can tell when the lookup happened.  Claiming (take)  *)
(* and queueing a conclusion are one step: both happen under the state      *)
(* lock, which keeps flush_conclusions out from between them.               *)
EXTENDS Naturals

CONSTANTS
    Ops, NoOp,            \* operations, and the absence of one
    Methods, Keys,        \* op methods (one registry each) and their keys
    NoDeadline, MaxTime,  \* no deadline; the bound on the clock
    MayPanic,             \* a handler may panic
    MayClaimInDirect      \* a direct method may call succeed_/fail_

ASSUME OpsCellAssumption ==
    /\ NoOp \notin Ops
    /\ NoDeadline \notin Nat
    /\ MaxTime \in Nat
    /\ MayPanic \in BOOLEAN
    /\ MayClaimInDirect \in BOOLEAN

VARIABLES
    st, dl, now,  \* see OpLifecycle
    sent,         \* operations whose resolver is inside a queued command
    cur,          \* the operation whose command the writer is executing
    byKey,        \* Entries::by_key of every registry
    deadlines,    \* Entries::deadlines of every registry
    queued,       \* CellInner::conclusions: the outcome queued per operation
    closed,       \* CellInner::closed
    wpc,          \* where the writer is
    undrained,    \* registries close() has yet to drain
    registries,   \* holder of the registries mutex
    cancelled,    \* the service's cancellation flag
    epc,          \* where the expirer is
    notified,     \* the expirer's listener has been notified
    unread,       \* registries the expirer has yet to visit
    best,         \* earliest deadline found: what its timer is set to
    sweepNow,     \* the time expire() was called with
    due           \* overdue operations removed and not yet failed

opVars == <<st, dl>>
entries == <<byKey, deadlines>>
writer == <<wpc, cur>>
closing == <<closed, undrained>>
expirer == <<epc, unread, best, sweepNow, due>>

vars == <<st, dl, now, sent, cur, byKey, deadlines, queued, closed, wpc,
          undrained, registries, cancelled, epc, notified, unread, best,
          sweepNow, due>>

(* The lifecycle of its operations, which this module implements: what a    *)
(* caller sees of the cell is the outcome, the deadline and the clock.      *)
L == INSTANCE OpLifecycle WITH
        Ops <- Ops, NoDeadline <- NoDeadline, MaxTime <- MaxTime,
        st <- st, dl <- dl, now <- now

Slots == Methods \X Keys
MethodOf(s) == s[1]

WriterPc == {"idle", "insert", "notify", "handler", "flush",
             "closing", "draining", "dead", "gone"}
ExpirerPc == {"listen", "check", "scan", "wait", "recheck",
              "expire", "sweep", "stopped"}

(* Whether some registry parks o. *)
IsParked(o) == \E s \in Slots : byKey[s] = o

(* Whether a conclusion of o waits to be applied. *)
IsQueued(o) == queued[o] # "none"

(* The state lock admits a reader. *)
ReadLockFree == wpc \in {"idle", "closing", "draining"}

(* No later deadline than t; NoDeadline is later than all. *)
NotAfter(d, t) == d # NoDeadline /\ d <= t
IsEarliest(d, S) == d \in S /\ \A t \in S \ {NoDeadline} : NotAfter(d, t)

(* Resolvers dropped: a pending operation concludes as Lost. *)
Dropped(S) ==
    [o \in Ops |-> IF o \in S /\ st[o] = "Pending" THEN "Lost" ELSE st[o]]

TypeOK ==
    /\ L!TypeOK
    /\ sent \in SUBSET Ops
    /\ cur \in Ops \cup {NoOp}
    /\ byKey \in [Slots -> Ops \cup {NoOp}]
    /\ deadlines \in SUBSET (L!Time \X Slots)
    /\ queued \in [Ops -> {"none", "Done", "Failed"}]
    /\ closed \in BOOLEAN
    /\ wpc \in WriterPc
    /\ undrained \in SUBSET Methods
    /\ registries \in {"free", "expirer", "closer"}
    /\ cancelled \in BOOLEAN
    /\ epc \in ExpirerPc
    /\ notified \in BOOLEAN
    /\ unread \in SUBSET Methods
    /\ best \in L!Deadline
    /\ sweepNow \in L!Time
    /\ due \in SUBSET Ops

Init ==
    /\ L!Init
    /\ sent = {}
    /\ cur = NoOp
    /\ byKey = [s \in Slots |-> NoOp]
    /\ deadlines = {}
    /\ queued = [o \in Ops |-> "none"]
    /\ closed = FALSE
    /\ wpc = "idle"
    /\ undrained = {}
    /\ registries = "free"
    /\ cancelled = FALSE
    /\ epc = "listen"
    /\ notified = FALSE
    /\ unread = {}
    /\ best = NoDeadline
    /\ sweepNow = 0
    /\ due = {}

------------------------------------------------------------------------------
(* Callers. *)

(* The generated op method: the pair is born and its command enqueued. *)
Start(o, d) ==
    /\ wpc # "gone"
    /\ L!Begin(o, d)
    /\ sent' = sent \cup {o}
    /\ UNCHANGED <<cur, entries, queued, closing, wpc, registries, cancelled,
                   notified, expirer>>

(* The command is refused by a closed queue, or dropped with the queue. *)
DropSent(o) ==
    /\ o \in sent
    /\ sent' = sent \ {o}
    /\ st' = Dropped({o})
    /\ UNCHANGED <<dl, now, cur, entries, queued, closing, wpc, registries,
                   cancelled, notified, expirer>>

Cancel ==
    /\ ~cancelled
    /\ cancelled' = TRUE
    /\ UNCHANGED <<opVars, now, sent, writer, entries, queued, closing,
                   registries, notified, expirer>>

Tick ==
    /\ L!Tick
    /\ UNCHANGED <<sent, writer, entries, queued, closing, registries,
                   cancelled, notified, expirer>>

------------------------------------------------------------------------------
(* The writer. *)

(* What Entries::deadlines holds on behalf of o parked under s. *)
Index(o, s) == IF o = NoOp \/ dl[o] = NoDeadline THEN {} ELSE {<<dl[o], s>>}

(* Slip: Entries::remove forgets the index. *)
XRemoveKeepsIndex(S) ==
    /\ byKey' = [s \in Slots |-> IF s \in S THEN NoOp ELSE byKey[s]]
    /\ UNCHANGED deadlines

(* Slip: the entry is read where it should be removed. *)
XRemoveKeepsEntry(S) == UNCHANGED entries

(* Entries::remove: entries and their deadlines leave together. *)
Remove(S) ==
    /\ byKey' = [s \in Slots |-> IF s \in S THEN NoOp ELSE byKey[s]]
    /\ deadlines' = deadlines \ UNION {Index(byKey[s], s) : s \in S}

(* The write lock is taken for an event handler or a direct_mut method. *)
BeginTurn ==
    /\ wpc = "idle"
    /\ wpc' = "handler"
    /\ UNCHANGED <<opVars, now, sent, cur, entries, queued, closing,
                   registries, cancelled, notified, expirer>>

(* The command of an immediate operation, which has no deadline, or of a   *)
(* deferred one.                                                           *)
BeginOp(o) ==
    /\ wpc = "idle"
    /\ o \in sent
    /\ sent' = sent \ {o}
    /\ cur' = o
    /\ \/ wpc' = "handler" /\ dl[o] = NoDeadline
       \/ wpc' = "insert"
    /\ UNCHANGED <<opVars, now, entries, queued, closing, registries,
                   cancelled, notified, expirer>>

(* Slip: insert without the closed check. *)
XInsertUnchecked(s) ==
    /\ wpc = "insert"
    /\ byKey' = [byKey EXCEPT ![s] = cur]
    /\ deadlines' = (deadlines \ Index(byKey[s], s)) \cup Index(cur, s)
    /\ st' = Dropped({byKey[s]})
    /\ cur' = NoOp
    /\ wpc' = IF dl[cur] = NoDeadline THEN "handler" ELSE "notify"
    /\ UNCHANGED <<dl, now, sent, queued, closing, registries, cancelled,
                   notified, expirer>>

(* OpsCell::insert, past the closed check, and Registry::insert: whatever  *)
(* the key held is displaced, then the entry and its deadline go in.       *)
Insert(s) ==
    /\ wpc = "insert" /\ ~closed
    /\ byKey' = [byKey EXCEPT ![s] = cur]
    /\ deadlines' = (deadlines \ Index(byKey[s], s)) \cup Index(cur, s)
    /\ st' = Dropped({byKey[s]})
    /\ cur' = NoOp
    /\ wpc' = IF dl[cur] = NoDeadline THEN "handler" ELSE "notify"
    /\ UNCHANGED <<dl, now, sent, queued, closing, registries, cancelled,
                   notified, expirer>>

(* OpsCell::insert on a closed cell: the resolver is dropped on return. *)
InsertClosed ==
    /\ wpc = "insert" /\ closed
    /\ st' = Dropped({cur})
    /\ cur' = NoOp
    /\ wpc' = "handler"
    /\ UNCHANGED <<dl, now, sent, entries, queued, closing, registries,
                   cancelled, notified, expirer>>

(* Slip: the wake reaches an expirer only once it is asleep. *)
XNotifySleeping ==
    /\ wpc = "notify"
    /\ notified' = (epc = "wait")
    /\ wpc' = "handler"
    /\ UNCHANGED <<opVars, now, sent, cur, entries, queued, closing,
                   registries, cancelled, expirer>>

(* The wake that follows an insert with a deadline: it reaches the expirer *)
(* only while that has a listener.                                         *)
Notify ==
    /\ wpc = "notify"
    /\ notified' = (epc \in {"check", "scan", "wait"})
    /\ wpc' = "handler"
    /\ UNCHANGED <<opVars, now, sent, cur, entries, queued, closing,
                   registries, cancelled, expirer>>

(* OpsCell::succeed and OpsCell::fail on the operation parked under s. *)
Claim(s, outcome) ==
    /\ byKey[s] # NoOp
    /\ Remove({s})
    /\ queued' = [queued EXCEPT ![byKey[s]] = outcome]
    /\ UNCHANGED <<opVars, now, sent, writer, closing, registries, cancelled,
                   notified, expirer>>

ClaimInHandler(s, outcome) ==
    /\ wpc = "handler"
    /\ Claim(s, outcome)

ClaimInDirect(s, outcome) ==
    /\ MayClaimInDirect
    /\ ReadLockFree
    /\ Claim(s, outcome)

(* An immediate operation's handler returns its Result. *)
ImmediateOutcome(outcome) ==
    /\ wpc = "handler" /\ cur # NoOp
    /\ queued' = [queued EXCEPT ![cur] = outcome]
    /\ cur' = NoOp
    /\ wpc' = "flush"
    /\ UNCHANGED <<opVars, now, sent, entries, closing, registries, cancelled,
                   notified, expirer>>

HandlerReturns ==
    /\ wpc = "handler" /\ cur = NoOp
    /\ wpc' = "flush"
    /\ UNCHANGED <<opVars, now, sent, cur, entries, queued, closing,
                   registries, cancelled, notified, expirer>>

(* A handler unwinds: its command is dropped with the resolver in it, the  *)
(* state lock is poisoned, and no turn, read or close follows.             *)
Panic ==
    /\ MayPanic
    /\ wpc = "handler"
    /\ st' = Dropped({cur})
    /\ cur' = NoOp
    /\ wpc' = "dead"
    /\ UNCHANGED <<dl, now, sent, entries, queued, closing, registries,
                   cancelled, notified, expirer>>

(* flush_conclusions, one conclusion at a time. *)
FlushOne(o) ==
    /\ wpc = "flush" /\ queued[o] # "none"
    /\ st' = [st EXCEPT ![o] = queued[o]]
    /\ queued' = [queued EXCEPT ![o] = "none"]
    /\ UNCHANGED <<dl, now, sent, writer, entries, closing, registries,
                   cancelled, notified, expirer>>

EndTurn ==
    /\ wpc = "flush" /\ \A o \in Ops : queued[o] = "none"
    /\ wpc' = "idle"
    /\ UNCHANGED <<opVars, now, sent, cur, entries, queued, closing,
                   registries, cancelled, notified, expirer>>

------------------------------------------------------------------------------
(* Shutdown.  The loop holds the read lock from CloseFlag to CloseEnd. *)

CloseFlag ==
    /\ wpc = "idle" /\ ~closed
    /\ closed' = TRUE
    /\ wpc' = "closing"
    /\ UNCHANGED <<opVars, now, sent, cur, entries, queued, undrained,
                   registries, cancelled, notified, expirer>>

CloseLock ==
    /\ wpc = "closing" /\ registries = "free"
    /\ registries' = "closer"
    /\ undrained' = Methods
    /\ wpc' = "draining"
    /\ UNCHANGED <<opVars, now, sent, cur, entries, queued, closed, cancelled,
                   notified, expirer>>

(* Registry::drain: every entry of m is dropped. *)
Drain(m) ==
    LET S == {s \in Slots : MethodOf(s) = m}
    IN  /\ m \in undrained
        /\ undrained' = undrained \ {m}
        /\ Remove(S)
        /\ st' = Dropped({byKey[s] : s \in S})
        /\ UNCHANGED <<dl, now, sent, writer, queued, closed, registries,
                       cancelled, notified, expirer>>

CloseEnd ==
    /\ wpc = "draining" /\ undrained = {}
    /\ registries' = "free"
    /\ wpc' = "idle"
    /\ UNCHANGED <<opVars, now, sent, cur, entries, queued, closing, cancelled,
                   notified, expirer>>

(* The last reference to the cell goes: the loop has ended, the expirer has *)
(* returned and no handle is left, so the command queue goes too.  Every    *)
(* resolver still held anywhere is dropped.                                 *)
Discard ==
    /\ wpc = "dead" \/ (wpc = "idle" /\ closed)
    /\ epc = "stopped"
    /\ wpc' = "gone"
    /\ st' = Dropped(Ops)
    /\ sent' = {}
    /\ byKey' = [s \in Slots |-> NoOp]
    /\ deadlines' = {}
    /\ queued' = [o \in Ops |-> "none"]
    /\ UNCHANGED <<dl, now, cur, closing, registries, cancelled, notified,
                   expirer>>

------------------------------------------------------------------------------
(* The expirer. *)

(* A fresh listener: notifications up to here have not reached it. *)
Listen ==
    /\ epc = "listen"
    /\ epc' = "check"
    /\ UNCHANGED <<opVars, now, sent, writer, entries, queued, closing,
                   registries, cancelled, notified, unread, best, sweepNow, due>>

(* is_cancelled, after listening and again after waking.  The mutex for    *)
(* next_deadline, the first poll of the select, is taken on the way.       *)
Check ==
    /\ epc = "check"
    /\ \/ /\ cancelled
          /\ epc' = "stopped"
          /\ notified' = FALSE
          /\ UNCHANGED <<registries, unread>>
       \/ /\ ~cancelled /\ registries = "free"
          /\ epc' = "scan"
          /\ registries' = "expirer"
          /\ unread' = Methods
          /\ UNCHANGED notified
    /\ UNCHANGED <<opVars, now, sent, writer, entries, queued, closing,
                   cancelled, best, sweepNow, due>>

(* The deadlines in the registry of m. *)
DeadlinesOf(m) == {d[1] : d \in {e \in deadlines : MethodOf(e[2]) = m}}

(* next_deadline of one registry. *)
Scan(m) ==
    /\ epc = "scan" /\ m \in unread
    /\ unread' = unread \ {m}
    /\ \E d \in L!Deadline :
          /\ IsEarliest(d, {best} \cup DeadlinesOf(m))
          /\ best' = d
    /\ UNCHANGED <<opVars, now, sent, writer, entries, queued, closing,
                   registries, cancelled, notified, epc, sweepNow, due>>

ScanEnd ==
    /\ epc = "scan" /\ unread = {}
    /\ registries' = "free"
    /\ epc' = "wait"
    /\ UNCHANGED <<opVars, now, sent, writer, entries, queued, closing,
                   cancelled, notified, unread, best, sweepNow, due>>

(* Slip: the select leaves the listener out. *)
XWakeByTimer ==
    /\ epc = "wait"
    /\ cancelled \/ NotAfter(best, now)
    /\ epc' = "recheck"
    /\ notified' = FALSE
    /\ best' = NoDeadline
    /\ UNCHANGED <<opVars, now, sent, writer, entries, queued, closing,
                   registries, cancelled, unread, sweepNow, due>>

(* The select: cancelled, or the timer, or the listener.  Timer and        *)
(* listener are dropped as it ends.                                        *)
Wake ==
    /\ epc = "wait"
    /\ cancelled \/ notified \/ NotAfter(best, now)
    /\ epc' = "recheck"
    /\ notified' = FALSE
    /\ best' = NoDeadline
    /\ UNCHANGED <<opVars, now, sent, writer, entries, queued, closing,
                   registries, cancelled, unread, sweepNow, due>>

(* is_cancelled again, and the argument of expire is read. *)
Recheck ==
    /\ epc = "recheck"
    /\ epc' = IF cancelled THEN "stopped" ELSE "expire"
    /\ sweepNow' = IF cancelled THEN 0 ELSE now
    /\ UNCHANGED <<opVars, now, sent, writer, entries, queued, closing,
                   registries, cancelled, notified, unread, best, due>>

ExpireLock ==
    /\ epc = "expire" /\ registries = "free"
    /\ registries' = "expirer"
    /\ unread' = Methods
    /\ epc' = "sweep"
    /\ UNCHANGED <<opVars, now, sent, writer, entries, queued, closing,
                   cancelled, notified, best, sweepNow, due>>

(* Slip: an off-by-one in the comparison with now. *)
XOverdue(t) == t <= sweepNow + 1

Overdue(t) == t <= sweepNow

(* Registry::expire, under the entries mutex: the overdue entries leave.   *)
Sweep(m) ==
    LET S == {s \in Slots : MethodOf(s) = m
                              /\ \E d \in deadlines : d[2] = s /\ Overdue(d[1])}
    IN  /\ epc = "sweep" /\ m \in unread /\ due = {}
        /\ unread' = unread \ {m}
        /\ Remove(S)
        /\ due' = {byKey[s] : s \in S} \ {NoOp}
        /\ UNCHANGED <<opVars, now, sent, writer, queued, closing, registries,
                       cancelled, notified, epc, best, sweepNow>>

(* Slip: overdue entries dropped, not failed. *)
XFailDueDrops(o) ==
    /\ o \in due
    /\ due' = due \ {o}
    /\ st' = Dropped({o})
    /\ UNCHANGED <<dl, now, sent, writer, entries, queued, closing, registries,
                   cancelled, notified, epc, unread, best, sweepNow>>

(* ... and fail after the mutex is released. *)
FailDue(o) ==
    /\ o \in due
    /\ due' = due \ {o}
    /\ st' = [st EXCEPT ![o] = "TimedOut"]
    /\ UNCHANGED <<dl, now, sent, writer, entries, queued, closing, registries,
                   cancelled, notified, epc, unread, best, sweepNow>>

SweepEnd ==
    /\ epc = "sweep" /\ unread = {} /\ due = {}
    /\ registries' = "free"
    /\ epc' = "listen"
    /\ sweepNow' = 0
    /\ UNCHANGED <<opVars, now, sent, writer, entries, queued, closing,
                   cancelled, notified, unread, best, due>>

------------------------------------------------------------------------------
CallerStep ==
    \/ \E o \in Ops, d \in L!Deadline : Start(o, d)
    \/ \E o \in Ops : DropSent(o)
    \/ \E s \in Slots, outcome \in {"Done", "Failed"} : ClaimInDirect(s, outcome)
    \/ Cancel
    \/ Tick
    \/ Discard

(* What the writer does of itself once its turn, or the closing, has begun. *)
TurnStep ==
    \/ \E s \in Slots : Insert(s)
    \/ InsertClosed
    \/ Notify
    \/ \E outcome \in {"Done", "Failed"} : ImmediateOutcome(outcome)
    \/ HandlerReturns
    \/ \E o \in Ops : FlushOne(o)
    \/ EndTurn
    \/ CloseLock
    \/ \E m \in Methods : Drain(m)
    \/ CloseEnd

WriterStep ==
    \/ BeginTurn
    \/ \E o \in Ops : BeginOp(o)
    \/ \E s \in Slots, outcome \in {"Done", "Failed"} : ClaimInHandler(s, outcome)
    \/ Panic
    \/ CloseFlag
    \/ TurnStep

ExpirerStep ==
    \/ Listen
    \/ Check
    \/ \E m \in Methods : Scan(m)
    \/ ScanEnd
    \/ Wake
    \/ Recheck
    \/ ExpireLock
    \/ \E m \in Methods : Sweep(m)
    \/ \E o \in Ops : FailDue(o)
    \/ SweepEnd

Next == CallerStep \/ WriterStep \/ ExpirerStep

Spec == Init /\ [][Next]_vars

(* The executor polls the expirer whenever it can run; a turn that has     *)
(* begun goes on until it ends (or panics); time passes; and a cancelled   *)
(* loop gets the read lock it closes under, however often callers take the *)
(* lock in between.                                                        *)
Fairness ==
    /\ WF_vars(ExpirerStep)
    /\ WF_vars(TurnStep)
    /\ WF_vars(Tick)
    /\ SF_vars(cancelled /\ CloseFlag)

FairSpec == Spec /\ Fairness

------------------------------------------------------------------------------
(* Safety. *)

(* A pending operation's resolver is in exactly one place (in a queued     *)
(* command, with the writer, parked under one key, queued with an outcome, *)
(* or collected as overdue) and a concluded one's in none: no race between *)
(* succeed, expire, displacement, close and drop leaves an operation that  *)
(* nobody can conclude or that two parties will conclude (op.rs:134-138).  *)
HeldIsPending ==
    \A o \in Ops :
        st[o] = "Pending" <=>
            o \in sent \/ cur = o \/ IsParked(o) \/ IsQueued(o) \/ o \in due

HeldOnce ==
    \A o \in Ops :
        /\ o \in sent =>
              cur # o /\ ~IsParked(o) /\ ~IsQueued(o) /\ o \notin due
        /\ cur = o => ~IsParked(o) /\ ~IsQueued(o) /\ o \notin due
        /\ IsParked(o) => ~IsQueued(o) /\ o \notin due
        /\ IsQueued(o) => o \notin due
        /\ \A s1, s2 \in Slots : byKey[s1] = o /\ byKey[s2] = o => s1 = s2

OneResolver == HeldIsPending /\ HeldOnce

(* The deadline index of a registry lists exactly the parked operations    *)
(* that have one.  A stale index entry would make Registry::expire's       *)
(* while-let loop spin for ever, a missing one would never expire          *)
(* (op.rs:464-490, 514-527).                                               *)
IndexConsistent ==
    \A s \in Slots, t \in L!Time :
        <<t, s>> \in deadlines <=> byKey[s] # NoOp /\ dl[byKey[s]] = t

(* While the expirer sleeps un-notified, its timer is no later than any    *)
(* parked deadline, unless the writer is about to notify it: no insert can *)
(* slip between listening, reading the deadlines and sleeping              *)
(* (op.rs:250-254, 405-424).                                               *)
NoLostWakeup ==
    epc = "wait" /\ ~notified /\ wpc # "notify" =>
        \A d \in deadlines : NotAfter(best, d[1])

(* Once close has drained its registries nothing is parked, then or later  *)
(* (op.rs:370-382, 246-248).                                               *)
ClosedIsEmpty ==
    closed /\ wpc \notin {"closing", "draining"} =>
        \A s \in Slots : byKey[s] = NoOp

(* A conclusion queued by succeed or fail is the one its operation gets:   *)
(* expiry, displacement and close can no longer reach it.  Only the end of *)
(* the cell itself can lose it (op.rs:259-291).                            *)
ClaimWins ==
    [][\A o \in Ops : IsQueued(o) =>
          st'[o] \in {st[o], queued[o]} \/ wpc' = "gone"]_vars

(* A parked operation, or one the expirer has taken to time out, is lost    *)
(* only when another takes its key or its cell closes or ends              *)
(* (op.rs:166-172, 233-235, 370-382, 464-471).                             *)
LostForCause ==
    [][\A o \in Ops :
          (IsParked(o) \/ o \in due) /\ st[o] # "Lost" /\ st'[o] = "Lost" =>
              \/ closed \/ wpc' = "gone"
              \/ \E s \in Slots : byKey[s] = o /\ byKey'[s] \notin {o, NoOp}]_vars

(* The cell implements the lifecycle its callers see: conclusions are      *)
(* final, and a timeout is never early.                                    *)
Lifecycle == L!Spec

------------------------------------------------------------------------------
(* Liveness. *)

(* "An operation registered with a deadline and not concluded in time      *)
(* fails with the op's declared timeout reason" (op.rs:8-9): a parked      *)
(* operation with a deadline concludes, one way or another.                *)
DeadlineConcludes ==
    \A o \in Ops :
        (IsParked(o) /\ dl[o] # NoDeadline) ~> st[o] \in L!Terminal
==============================================================================

----------------------------- MODULE EventChannel -----------------------------
(* A service's events: event.rs, Emitter and EventReceiver, with the methods *)
(* service.rs generates over them, the lock they run under, and the loop     *)
(* that stops once nobody listens any more.  The service is a relay without  *)
(* a view: some source of its own stays open, so that, short of              *)
(* cancellation, only its observers keep it going when its handles are gone. *)
(*                                                                           *)
(* Events are told apart by who emitted them in which turn.  The channels    *)
(* are async_broadcast's, of which the code uses this much: a broadcast      *)
(* reaches every active receiver or, when one of them has Capacity events    *)
(* waiting, none; a receiver starts empty; a channel closes with its last    *)
(* sender, or with its last receiver, an inactive one counting as one.       *)
EXTENDS Naturals, Sequences, FiniteSets, FiniteSetsExt

CONSTANTS
    N,          \* number of event types the service declares
    Subs,       \* subscriptions that can be made
    Handles,
    Capacity,   \* of each channel
    MaxTurns,   \* bound on the turns taken
    MaxEvents,  \* bound on the events emitted
    None

Types == 1 .. N

ASSUME EventAssumption ==
    /\ N \in Nat
    /\ IsFiniteSet(Handles) /\ IsFiniteSet(Subs) /\ "loop" \notin Handles
    /\ Capacity \in Nat \ {0} /\ MaxTurns \in Nat /\ MaxEvents \in Nat
    /\ None \notin Types /\ None \notin Handles \cup {"loop"}

VARIABLES
    handles,    \* the live ones
    writer,     \* who holds the write lock: the loop or a direct_mut call
    readers,    \* handles inside a direct method or emit_<event>
    poisoned,
    turn,       \* number of the last turn begun, under either lock
    turnOf,     \* the one each emitting party is in
    loop,       \* where the loop is
    cmdOpen,    \* it has not found the command channel closed yet
    tally,      \* the counters its exit check has read, and their sum
    cancelled,
    shut,       \* channels that have closed
    log,        \* per type, the events emitted
    published,  \* published_counts
    counting,   \* per party, the type of an event emitted and not yet counted
    sub,        \* per subscription: alive, its type, events emitted before it
    unread, got \* what it has waiting, and what it has taken

vars == <<handles, writer, readers, poisoned, turn, turnOf, loop, cmdOpen,
          tally, cancelled, shut, log, published, counting, sub, unread, got>>
lock == <<writer, readers, poisoned, turn, turnOf>>
service == <<loop, cmdOpen, tally, cancelled>>
emitter == <<shut, log, published, counting>>
subscriptions == <<sub, unread, got>>

Parties == Handles \cup {"loop"}
Event == [turn : Nat, exclusive : BOOLEAN]

NoSub == [is |-> "none", type |-> None, since |-> 0]
Active(t) == {s \in Subs : sub[s].is = "live" /\ sub[s].type = t}

TypeOK ==
    /\ handles \subseteq Handles
    /\ writer \in Parties \cup {None} /\ readers \subseteq handles
    /\ poisoned \in BOOLEAN
    /\ turn \in Nat /\ turnOf \in [Parties -> Nat]
    /\ loop \in {"select", "turn", "check", "stopped", "cancelled", "dead"}
    /\ cmdOpen \in BOOLEAN
    /\ tally \in [next : Nat, sum : Nat]
    /\ cancelled \in BOOLEAN
    /\ shut \subseteq Types
    /\ log \in [Types -> Seq(Event)]
    /\ published \in [Types -> Nat]
    /\ counting \in [Parties -> Types \cup {None}]
    /\ sub \in [Subs -> [is : {"none", "live", "ended", "dropped"},
                         type : Types \cup {None}, since : Nat]]
    /\ unread \in [Subs -> Seq(Event)] /\ got \in [Subs -> Seq(Event)]
    /\ writer # None => readers = {}

NoTally == [next |-> 1, sum |-> 0]

Init ==
    /\ \E h \in Handles : handles = {h}
    /\ writer = None /\ readers = {} /\ poisoned = FALSE
    /\ turn = 0 /\ turnOf = [p \in Parties |-> 0]
    /\ loop = "select" /\ cmdOpen = TRUE /\ tally = NoTally /\ cancelled = FALSE
    /\ shut = {}
    /\ log = [t \in Types |-> <<>>]
    /\ published = [t \in Types |-> 0]
    /\ counting = [p \in Parties |-> None]
    /\ sub = [s \in Subs |-> NoSub]
    /\ unread = [s \in Subs |-> <<>>] /\ got = [s \in Subs |-> <<>>]

-------------------------------------------------------------------------------
(* Turns.  The write lock waits for the readers, and they for it; a poisoned *)
(* lock panics whoever takes it, which here ends the call.                   *)
Inside(p) == writer = p \/ p \in readers

NewTurn(p) ==
    /\ turn < MaxTurns
    /\ turn' = turn + 1
    /\ turnOf' = [turnOf EXCEPT ![p] = turn + 1]

(* A direct_mut call, on the caller's thread. *)
DirectMut(h) ==
    /\ h \in handles /\ writer = None /\ readers = {} /\ ~poisoned
    /\ writer' = h
    /\ NewTurn(h)
    /\ UNCHANGED <<handles, readers, poisoned, service, emitter, subscriptions>>

(* A direct call, or the handle's own emit_<event>: the read lock. *)
Direct(h) ==
    /\ h \in handles \ readers /\ writer = None /\ ~poisoned
    /\ readers' = readers \cup {h}
    /\ NewTurn(h)
    /\ UNCHANGED <<handles, writer, poisoned, service, emitter, subscriptions>>

(* The loop serves a command, an event or a view; select! may pick these     *)
(* arms over a cancellation, and the drain that follows one serves the       *)
(* commands left.                                                            *)
LoopTurn ==
    /\ loop = "select"
    /\ writer = None /\ readers = {} /\ ~poisoned
    /\ writer' = "loop"
    /\ NewTurn("loop")
    /\ loop' = "turn"
    /\ UNCHANGED <<handles, readers, poisoned, cmdOpen, tally, cancelled,
                   emitter, subscriptions>>

Leave(p) ==
    /\ writer' = IF writer = p THEN None ELSE writer
    /\ readers' = readers \ {p}
    /\ turnOf' = [turnOf EXCEPT ![p] = 0]

(* The call, or the turn, is over.  Once no command can come the loop looks  *)
(* whether to go on.                                                         *)
EndTurn(p) ==
    /\ Inside(p) /\ counting[p] = None
    /\ Leave(p)
    /\ loop' = IF p # "loop" THEN loop ELSE IF cmdOpen THEN "select" ELSE "check"
    /\ UNCHANGED <<handles, poisoned, turn, cmdOpen, tally, cancelled, emitter,
                   subscriptions>>

-------------------------------------------------------------------------------
(* Emitting. *)

(* Slip: nothing keeps a channel without subscribers open. *)
XKeeper == "none"

(* The receiver each channel keeps: deactivated, so that it counts for the   *)
(* channel's life and not for its capacity.                                  *)
Keeper == "inactive"

(* Slip: a queue counts as full one event early. *)
XFull(t) == \E s \in Active(t) : Len(unread[s]) >= Capacity - 1

Full(t) == \E s \in Active(t) : Len(unread[s]) = Capacity

(* Emitter::emit: the event is broadcast, unless nobody is there to have it, *)
(* or the channel is closed ...                                              *)
Emit(p, t) ==
    /\ Inside(p) /\ counting[p] = None
    /\ ~Full(t)
    /\ MapThenSumSet(LAMBDA u : Len(log[u]), Types) < MaxEvents
    /\ LET e == [turn |-> turnOf[p], exclusive |-> writer = p]
       IN  /\ log' = [log EXCEPT ![t] = Append(@, e)]
           /\ unread' = [s \in Subs |-> IF s \in Active(t) /\ t \notin shut
                                        THEN Append(unread[s], e) ELSE unread[s]]
    /\ counting' = [counting EXCEPT ![p] = t]
    /\ UNCHANGED <<handles, lock, service, shut, published, sub, got>>

(* ... and counted. *)
CountPublished(p) ==
    /\ counting[p] # None
    /\ published' = [published EXCEPT ![counting[p]] = @ + 1]
    /\ counting' = [counting EXCEPT ![p] = None]
    /\ UNCHANGED <<handles, lock, service, shut, log, subscriptions>>

(* A queue is full: the emit panics, which unwinds the turn it is part of.   *)
(* A writer's guard poisons the lock, a reader's does not.                   *)
Overflow(p, t) ==
    /\ Inside(p) /\ counting[p] = None
    /\ Full(t) /\ t \notin shut
    /\ Leave(p)
    /\ poisoned' = (poisoned \/ writer = p)
    /\ loop' = IF p = "loop" THEN "dead" ELSE loop
    /\ UNCHANGED <<handles, turn, cmdOpen, tally, cancelled, emitter,
                   subscriptions>>

-------------------------------------------------------------------------------
(* Subscribers. *)

NewSub(s, t) ==
    /\ sub[s].is = "none"
    /\ sub' = [sub EXCEPT ![s] = [is |-> "live", type |-> t, since |-> Len(log[t])]]
    /\ UNCHANGED <<handles, lock, service, emitter, unread, got>>

(* Slip: a subscription that takes no lock. *)
XSubscribe(h, s, t) ==
    /\ h \in handles /\ ~poisoned
    /\ NewSub(s, t)

(* on_<event> of a handle, under the read lock. *)
Subscribe(h, s, t) ==
    /\ h \in handles /\ writer = None /\ ~poisoned
    /\ NewSub(s, t)

(* next, recv and try_recv take the oldest event waiting. *)
Take(s) ==
    /\ sub[s].is = "live" /\ unread[s] # <<>>
    /\ got' = [got EXCEPT ![s] = Append(@, Head(unread[s]))]
    /\ unread' = [unread EXCEPT ![s] = Tail(@)]
    /\ UNCHANGED <<handles, lock, service, emitter, sub>>

(* next and recv return None once the channel has closed and is empty. *)
End(s) ==
    /\ sub[s].is = "live" /\ sub[s].type \in shut /\ unread[s] = <<>>
    /\ sub' = [sub EXCEPT ![s].is = "ended"]
    /\ UNCHANGED <<handles, lock, service, emitter, unread, got>>

(* The receiver is dropped, with what it has not taken. *)
DropReceiver(s) ==
    /\ sub[s].is = "live"
    /\ sub' = [sub EXCEPT ![s].is = "dropped"]
    /\ unread' = [unread EXCEPT ![s] = <<>>]
    /\ got' = [got EXCEPT ![s] = <<>>]
    /\ shut' = IF Keeper = "none" /\ Active(sub[s].type) = {s}
               THEN shut \cup {sub[s].type} ELSE shut
    /\ UNCHANGED <<handles, lock, service, log, published, counting>>

-------------------------------------------------------------------------------
(* The end of the service. *)

Clone(h) ==
    /\ handles # {}
    /\ handles' = handles \cup {h}
    /\ UNCHANGED <<lock, service, emitter, subscriptions>>

DropHandle(h) ==
    /\ h \in handles /\ ~Inside(h)
    /\ handles' = handles \ {h}
    /\ UNCHANGED <<lock, service, emitter, subscriptions>>

Cancel ==
    /\ ~cancelled
    /\ cancelled' = TRUE
    /\ UNCHANGED <<handles, lock, loop, cmdOpen, tally, emitter, subscriptions>>

(* The cancel arm, and the end of its drain. *)
LoopCancelled ==
    /\ loop = "select" /\ cancelled
    /\ loop' = "cancelled"
    /\ UNCHANGED <<handles, lock, cmdOpen, tally, cancelled, emitter, subscriptions>>

(* Slip: observers are looked for while handles can still make them. *)
XCommandsClosed ==
    /\ loop = "select" /\ cmdOpen
    /\ cmdOpen' = FALSE
    /\ loop' = "check"
    /\ UNCHANGED <<handles, lock, tally, cancelled, emitter, subscriptions>>

(* The command channel is found closed, once. *)
CommandsClosed ==
    /\ loop = "select" /\ cmdOpen /\ handles = {}
    /\ cmdOpen' = FALSE
    /\ loop' = "check"
    /\ UNCHANGED <<handles, lock, tally, cancelled, emitter, subscriptions>>

(* __rillet_has_observers: total_subscribers reads the subscriber counters   *)
(* one after the other, while subscribers come and go ...                    *)
ReadCounter ==
    /\ loop = "check" /\ ~poisoned /\ writer = None
    /\ tally.next \in Types
    /\ tally' = [next |-> tally.next + 1,
                 sum |-> tally.sum + Cardinality(Active(tally.next))]
    /\ UNCHANGED <<handles, lock, loop, cmdOpen, cancelled, emitter, subscriptions>>

(* ... and the loop stops if they add up to none. *)
ExitCheck ==
    /\ loop = "check" /\ tally.next \notin Types
    /\ loop' = IF tally.sum = 0 THEN "stopped" ELSE "select"
    /\ tally' = NoTally
    /\ UNCHANGED <<handles, lock, cmdOpen, cancelled, emitter, subscriptions>>

(* A lock poisoned by a direct_mut call panics the loop, when next it takes  *)
(* it: to serve an input, or for the exit check.                             *)
FindPoisoned ==
    /\ poisoned /\ loop \in {"select", "check"}
    /\ loop' = "dead"
    /\ UNCHANGED <<handles, lock, cmdOpen, tally, cancelled, emitter, subscriptions>>

Stopped == loop \in {"stopped", "cancelled", "dead"}

(* Slip: a sender outlives the service. *)
XDropState ==
    /\ handles = {} /\ Stopped /\ shut # Types \ {1}
    /\ shut' = Types \ {1}
    /\ UNCHANGED <<handles, lock, service, log, published, counting, subscriptions>>

(* The state goes with the last handle and the loop, its emitter with it.    *)
DropState ==
    /\ handles = {} /\ Stopped /\ shut # Types
    /\ shut' = Types
    /\ UNCHANGED <<handles, lock, service, log, published, counting, subscriptions>>

LoopStep ==
    \/ LoopTurn \/ LoopCancelled \/ FindPoisoned
    \/ CommandsClosed \/ ReadCounter \/ ExitCheck

HandleStep(h) ==
    \/ DirectMut(h) \/ Direct(h) \/ Clone(h) \/ DropHandle(h)
    \/ \E s \in Subs, t \in Types : Subscribe(h, s, t)

Receive(s) == Take(s) \/ End(s)

Next ==
    \/ LoopStep
    \/ \E h \in Handles : HandleStep(h)
    \/ \E p \in Parties :
          \/ EndTurn(p) \/ CountPublished(p)
          \/ \E t \in Types : Emit(p, t) \/ Overflow(p, t)
    \/ \E s \in Subs : Receive(s) \/ DropReceiver(s)
    \/ Cancel
    \/ DropState

Spec == Init /\ [][Next]_vars

(* A turn begun ends, in a return or a panic; the loop is polled, and a      *)
(* cancellation is not passed over for ever, the ready arms of a select!     *)
(* being tried in random order; and a receiver somebody waits on is polled.  *)
Fairness ==
    /\ \A p \in Parties : WF_vars(EndTurn(p)) /\ WF_vars(CountPublished(p))
    /\ SF_vars(LoopCancelled) /\ WF_vars(CommandsClosed)
    /\ WF_vars(ReadCounter) /\ WF_vars(ExitCheck)
    /\ WF_vars(FindPoisoned)
    /\ WF_vars(DropState)
    /\ \A s \in Subs : WF_vars(Receive(s))

FairSpec == Spec /\ Fairness

-------------------------------------------------------------------------------
(* A subscriber has, taken or waiting, exactly what was emitted since it     *)
(* subscribed, in that order, whoever emitted and however many subscribers   *)
(* came and went before; and the count of the published agrees, but for the  *)
(* events about to be counted (event.rs:86-107, 161-180).                    *)
ReceivesAll ==
    \A s \in Subs : sub[s].is \in {"live", "ended"} =>
        LET t == sub[s].type
            received == got[s] \o unread[s]
        IN  /\ received = SubSeq(log[t], sub[s].since + 1, Len(log[t]))
            /\ sub[s].since + Len(received)
                  = published[t] + Cardinality({p \in Parties : counting[p] = t})

(* A subscription never begins in the middle of a turn that holds the write  *)
(* lock: of the events such a turn emits it gets all or none                 *)
(* (service.rs:411-432).                                                     *)
TurnsWhole ==
    \A s \in Subs : sub[s].is # "none" =>
        LET l == log[sub[s].type]
            n == sub[s].since
        IN  n \in 1 .. Len(l)-1 /\ l[n].exclusive => l[n].turn # l[n+1].turn

(* An emit panics only over a queue that holds Capacity events, and the      *)
(* state is poisoned only by a panic of a writer: no number of events        *)
(* emitted before a subscription, or to subscribers since gone, fills a      *)
(* channel (event.rs:93-101, 176-180).                                       *)
OverflowForCause ==
    [][\A p \in Parties :
          Inside(p) /\ ~Inside(p)' /\ (poisoned' # poisoned \/ loop' = "dead")
              => /\ writer = p
                 /\ \E s \in Subs : /\ sub[s].is = "live"
                                    /\ Len(got[s]) + Capacity
                                          = Len(log[sub[s].type]) - sub[s].since]_vars

(* A loop that finds no subscriber, reading one counter after the other, is  *)
(* right: nobody listens on any channel, then or later                       *)
(* (handlers.rs:906-914, event.rs:136-141).                                  *)
StopsUnobserved == loop = "stopped" => \A s \in Subs : sub[s].is # "live"

(* Once a cancelled service has lost its handles every subscriber's wait     *)
(* ends, after it has taken what was emitted (event.rs:30-42).               *)
SubscribersEnd ==
    (cancelled /\ handles = {}) ~> (\A s \in Subs : sub[s].is # "live")

===============================================================================

------------------------- MODULE EventChannel_proofs -------------------------
(* What is proved of EventChannel: its types, that subscribers receive all   *)
(* there is to receive, that no turn is split, that an emit panics only over *)
(* a full queue, and that the loop never stops over somebody who listens.    *)
EXTENDS EventChannel, FiniteSetTheorems, SequenceTheorems, TLAPS

USE EventAssumption DEF Types

-------------------------------------------------------------------------------
(* Types. *)

LEMMA InitTyped == Init => TypeOK
  <1> SUFFICES ASSUME Init PROVE TypeOK
    OBVIOUS
  <1>1. poisoned \in BOOLEAN /\ cancelled \in BOOLEAN /\ cmdOpen \in BOOLEAN
    BY Zenon DEF Init
  <1>2. /\ log \in [Types -> Seq(Event)]
        /\ unread \in [Subs -> Seq(Event)] /\ got \in [Subs -> Seq(Event)]
    BY EmptySeq DEF Init
  <1>3. sub \in [Subs -> [is : {"none", "live", "ended", "dropped"},
                         type : Types \cup {None}, since : Nat]]
    BY DEF Init, NoSub
  <1> QED  BY <1>1, <1>2, <1>3 DEF Init, TypeOK, Parties, NoTally

USE DEF lock, service, emitter, subscriptions

LEMMA TurnTyped ==
  ASSUME TypeOK, NEW p \in Parties,
         (p \in Handles /\ (DirectMut(p) \/ Direct(p))) \/ LoopTurn
  PROVE  TypeOK'
  <1>1. poisoned' \in BOOLEAN /\ cancelled' \in BOOLEAN /\ cmdOpen' \in BOOLEAN
    BY Zenon DEF TypeOK, DirectMut, Direct, LoopTurn
  <1>2. turn' \in Nat /\ turnOf' \in [Parties -> Nat]
    <2>1. turn' = turn + 1 /\ \E q \in Parties : turnOf' = [turnOf EXCEPT ![q] = turn + 1]
      BY DEF DirectMut, Direct, LoopTurn, NewTurn, Parties
    <2> QED  BY <2>1 DEF TypeOK
  <1>3. /\ writer' \in Parties \cup {None} /\ readers' \subseteq handles'
        /\ writer' # None => readers' = {}
    BY DEF TypeOK, DirectMut, Direct, LoopTurn, Parties
  <1> QED  BY <1>1, <1>2, <1>3 DEF TypeOK, DirectMut, Direct, LoopTurn

LEMMA EndTurnTyped == ASSUME TypeOK, NEW p \in Parties, EndTurn(p) PROVE TypeOK'
  <1>1. poisoned' \in BOOLEAN /\ cancelled' \in BOOLEAN /\ cmdOpen' \in BOOLEAN
    BY Zenon DEF TypeOK, EndTurn
  <1>2. loop' \in {"select", "turn", "check", "stopped", "cancelled", "dead"}
    BY DEF TypeOK, EndTurn
  <1> QED  BY <1>1, <1>2 DEF TypeOK, EndTurn, Leave, Parties

LEMMA EmitTyped ==
  ASSUME TypeOK, NEW p \in Parties, NEW t \in Types, Emit(p, t) PROVE TypeOK'
  <1> DEFINE e == [turn |-> turnOf[p], exclusive |-> writer = p]
  <1>1. poisoned' \in BOOLEAN /\ cancelled' \in BOOLEAN /\ cmdOpen' \in BOOLEAN
    BY Zenon DEF TypeOK, Emit
  <1>2. e \in Event
    <2>1. turnOf[p] \in Nat
      BY DEF TypeOK
    <2>2. (writer = p) \in BOOLEAN
      BY Zenon
    <2> QED  BY <2>1, <2>2 DEF Event
  <1>3. log' \in [Types -> Seq(Event)]
    <2>1. Append(log[t], e) \in Seq(Event)
      BY <1>2, AppendProperties DEF TypeOK
    <2> QED  BY <2>1 DEF TypeOK, Emit
  <1>4. unread' \in [Subs -> Seq(Event)]
    <2>1. \A s \in Subs : unread[s] \in Seq(Event) /\ Append(unread[s], e) \in Seq(Event)
      BY <1>2, AppendProperties DEF TypeOK
    <2> QED  BY <2>1 DEF Emit
  <1>5. counting' \in [Parties -> Types \cup {None}]
    BY DEF TypeOK, Emit
  <1> QED  BY <1>1, <1>3, <1>4, <1>5 DEF TypeOK, Emit

LEMMA OverflowTyped ==
  ASSUME TypeOK, NEW p \in Parties, NEW t \in Types, Overflow(p, t) PROVE TypeOK'
  <1>1. poisoned' \in BOOLEAN /\ cancelled' \in BOOLEAN /\ cmdOpen' \in BOOLEAN
    BY Zenon DEF TypeOK, Overflow
  <1>2. loop' \in {"select", "turn", "check", "stopped", "cancelled", "dead"}
    BY DEF TypeOK, Overflow
  <1> QED  BY <1>1, <1>2 DEF TypeOK, Overflow, Leave, Parties

SubType == [is : {"none", "live", "ended", "dropped"},
            type : Types \cup {None}, since : Nat]

LEMMA SubscribeTyped ==
  ASSUME TypeOK, NEW h \in Handles, NEW s \in Subs, NEW t \in Types, Subscribe(h, s, t)
  PROVE  TypeOK'
  <1>1. poisoned' \in BOOLEAN /\ cancelled' \in BOOLEAN /\ cmdOpen' \in BOOLEAN
    BY Zenon DEF TypeOK, Subscribe, NewSub
  <1>2. Len(log[t]) \in Nat
    BY LenProperties DEF TypeOK
  <1>3. [is |-> "live", type |-> t, since |-> Len(log[t])] \in SubType
    BY <1>2 DEF SubType
  <1>4. sub' \in [Subs -> SubType]
    BY <1>3 DEF TypeOK, Subscribe, NewSub, SubType
  <1> QED  BY <1>1, <1>4 DEF TypeOK, Subscribe, NewSub, SubType

LEMMA ReceiverTyped ==
  ASSUME TypeOK, NEW s \in Subs, Receive(s) \/ DropReceiver(s) PROVE TypeOK'
  <1> USE DEF Receive
  <1>1. poisoned' \in BOOLEAN /\ cancelled' \in BOOLEAN /\ cmdOpen' \in BOOLEAN
    BY Zenon DEF TypeOK, Take, End, DropReceiver
  <1>2. sub' \in [Subs -> SubType]
    <2>1. sub[s] \in SubType
      BY DEF TypeOK, SubType
    <2>2. /\ [sub[s] EXCEPT !.is = "ended"] \in SubType
          /\ [sub[s] EXCEPT !.is = "dropped"] \in SubType
      BY <2>1 DEF SubType
    <2>3. \/ sub' = sub
          \/ sub' = [sub EXCEPT ![s] = [sub[s] EXCEPT !.is = "ended"]]
          \/ sub' = [sub EXCEPT ![s] = [sub[s] EXCEPT !.is = "dropped"]]
      BY DEF Take, End, DropReceiver
    <2> QED  BY <2>2, <2>3 DEF TypeOK, SubType
  <1>3. unread' \in [Subs -> Seq(Event)] /\ got' \in [Subs -> Seq(Event)]
    <2>1. CASE End(s)
      BY <2>1 DEF TypeOK, End
    <2>2. CASE Take(s)
      <3>1. /\ unread[s] \in Seq(Event) /\ got[s] \in Seq(Event)
            /\ unread[s] # <<>>
        BY <2>2 DEF TypeOK, Take
      <3>2. Head(unread[s]) \in Event /\ Tail(unread[s]) \in Seq(Event)
        BY <3>1, HeadTailProperties
      <3>3. Append(got[s], Head(unread[s])) \in Seq(Event)
        BY <3>1, <3>2, AppendProperties
      <3> QED  BY <2>2, <3>2, <3>3 DEF TypeOK, Take
    <2>3. CASE DropReceiver(s)
      BY <2>3, EmptySeq DEF TypeOK, DropReceiver
    <2> QED  BY <2>1, <2>2, <2>3
  <1>4. shut' \subseteq Types
    BY DEF TypeOK, Take, End, DropReceiver, Keeper
  <1> QED
    BY <1>1, <1>2, <1>3, <1>4 DEF TypeOK, SubType, Take, End, DropReceiver

LEMMA CountTyped ==
  ASSUME TypeOK, NEW p \in Parties, CountPublished(p) PROVE TypeOK'
  <1>1. poisoned' \in BOOLEAN /\ cancelled' \in BOOLEAN /\ cmdOpen' \in BOOLEAN
    BY Zenon DEF TypeOK, CountPublished
  <1>2. published' \in [Types -> Nat]
    BY DEF TypeOK, CountPublished
  <1> QED  BY <1>1, <1>2 DEF TypeOK, CountPublished

LEMMA HandlesTyped ==
  ASSUME TypeOK, NEW h \in Handles, Clone(h) \/ DropHandle(h) PROVE TypeOK'
  <1>1. poisoned' \in BOOLEAN /\ cancelled' \in BOOLEAN /\ cmdOpen' \in BOOLEAN
    BY Zenon DEF TypeOK, Clone, DropHandle
  <1>2. handles' \subseteq Handles /\ readers' \subseteq handles'
    BY DEF TypeOK, Inside, Clone, DropHandle
  <1> QED  BY <1>1, <1>2 DEF TypeOK, Clone, DropHandle

LEMMA EndingTyped ==
  ASSUME TypeOK,
         \/ Cancel \/ LoopCancelled \/ CommandsClosed \/ ReadCounter \/ ExitCheck
         \/ FindPoisoned \/ DropState \/ UNCHANGED vars
  PROVE  TypeOK'
  <1> USE DEF Cancel, LoopCancelled, CommandsClosed, ReadCounter, ExitCheck,
              FindPoisoned, DropState, vars
  <1>1. poisoned' \in BOOLEAN /\ cancelled' \in BOOLEAN /\ cmdOpen' \in BOOLEAN
    BY Zenon DEF TypeOK
  <1>2. tally' \in [next : Nat, sum : Nat]
    <2>1. CASE ReadCounter
      <3>1. Active(tally.next) \subseteq Subs
        BY DEF Active
      <3>2. Cardinality(Active(tally.next)) \in Nat
        BY <3>1, FS_Subset, FS_CardinalityType
      <3> QED  BY <2>1, <3>2 DEF TypeOK
    <2>2. CASE ~ReadCounter
      BY <2>2 DEF TypeOK, NoTally
    <2> QED  BY <2>1, <2>2
  <1>3. loop' \in {"select", "turn", "check", "stopped", "cancelled", "dead"}
    BY DEF TypeOK
  <1> QED  BY <1>1, <1>2, <1>3 DEF TypeOK


LEMMA StepTyped == ASSUME TypeOK, [Next]_vars PROVE TypeOK'
  <1>0. Handles \subseteq Parties /\ "loop" \in Parties
    BY DEF Parties
  <1>1. ASSUME NEW h \in Handles, HandleStep(h) PROVE TypeOK'
    BY <1>0, <1>1, TurnTyped, SubscribeTyped, HandlesTyped DEF HandleStep
  <1>2. CASE LoopStep
    BY <1>0, <1>2, TurnTyped, EndingTyped DEF LoopStep
  <1>3. ASSUME NEW p \in Parties,
               \/ EndTurn(p) \/ CountPublished(p)
               \/ \E t \in Types : Emit(p, t) \/ Overflow(p, t)
        PROVE  TypeOK'
    BY <1>3, EndTurnTyped, CountTyped, EmitTyped, OverflowTyped
  <1>4. ASSUME NEW s \in Subs, Receive(s) \/ DropReceiver(s) PROVE TypeOK'
    BY <1>4, ReceiverTyped
  <1>5. CASE Cancel \/ DropState \/ UNCHANGED vars
    BY <1>5, EndingTyped
  <1> QED  BY <1>1, <1>2, <1>3, <1>4, <1>5 DEF Next

-------------------------------------------------------------------------------
(* Who may act: the flags of the loop, the lock, and the end of the service. *)

Control ==
    /\ writer \in Handles => writer \in handles
    /\ writer = "loop" <=> loop = "turn"
    /\ shut # {} => handles = {} /\ Stopped
    /\ ~cmdOpen => handles = {}
    /\ loop = "check" => ~cmdOpen
    /\ loop \in {"select", "turn"} => tally = NoTally

(* What the exit check has found out: with the handles gone, a channel found *)
(* without subscribers stays so.                                             *)
Observed ==
    /\ \A s \in Subs : sub[s].is \in {"live", "ended"} => sub[s].type \in Types
    /\ \A s \in Subs : sub[s].is = "ended" => sub[s].type \in shut
    /\ loop = "check" =>
          /\ tally.next >= 1
          /\ tally.sum = 0 =>
                \A s \in Subs : sub[s].is = "live" => sub[s].type >= tally.next
    /\ loop = "stopped" => handles = {} /\ \A s \in Subs : sub[s].is # "live"

LEMMA InitControl == Init => Control /\ Observed
  BY DEF Init, Control, Observed, NoSub, NoTally, Stopped

LEMMA NoOneInside == ASSUME TypeOK, Control, shut # {}, NEW p \in Parties PROVE ~Inside(p)
  BY DEF TypeOK, Control, Inside, Stopped, Parties

LEMMA StepControl == ASSUME TypeOK, Control, [Next]_vars PROVE Control'
  <1> USE DEF Control, Stopped
  <1>0. "loop" \notin readers /\ "loop" \notin Handles /\ None # "loop"
    BY DEF TypeOK
  <1>1. ASSUME NEW h \in Handles, DirectMut(h) \/ Direct(h) PROVE Control'
    BY <1>0, <1>1 DEF TypeOK, DirectMut, Direct
  <1>2. ASSUME NEW h \in Handles, Clone(h) \/ DropHandle(h) PROVE Control'
    BY <1>2 DEF TypeOK, Clone, DropHandle, Inside
  <1>3. ASSUME NEW h \in Handles, NEW s \in Subs, NEW t \in Types, Subscribe(h, s, t)
        PROVE  Control'
    BY <1>3 DEF Subscribe, NewSub
  <1>4. CASE LoopTurn
    BY <1>0, <1>4 DEF LoopTurn, TypeOK
  <1>5. CASE LoopCancelled \/ FindPoisoned \/ CommandsClosed \/ ReadCounter \/ ExitCheck
    BY <1>0, <1>5 DEF LoopCancelled, FindPoisoned, CommandsClosed, ReadCounter, ExitCheck
  <1>6. ASSUME NEW p \in Parties, EndTurn(p) PROVE Control'
    <2>1. shut = {}
      BY <1>6, NoOneInside DEF EndTurn
    <2>2. CASE p = "loop"
      <3>1. writer = "loop" /\ loop = "turn" /\ writer' = None
        BY <1>0, <1>6, <2>2 DEF EndTurn, Leave, Inside
      <3> QED  BY <1>0, <1>6, <2>1, <2>2, <3>1 DEF EndTurn, TypeOK
    <2>3. CASE p # "loop"
      <3>1. loop' = loop /\ writer' \in {writer, None} /\ (writer = "loop" => writer' = writer)
        BY <1>6, <2>3 DEF EndTurn, Leave
      <3> QED  BY <1>0, <1>6, <2>1, <3>1 DEF EndTurn, TypeOK
    <2> QED  BY <2>2, <2>3
  <1>7. ASSUME NEW p \in Parties, NEW t \in Types, Emit(p, t) PROVE Control'
    BY <1>7 DEF Emit
  <1>8. ASSUME NEW p \in Parties, NEW t \in Types, Overflow(p, t) PROVE Control'
    BY <1>0, <1>8 DEF Overflow, Leave, Inside, TypeOK, Parties
  <1>9. ASSUME NEW s \in Subs, Receive(s) \/ DropReceiver(s) PROVE Control'
    BY <1>9 DEF Receive, Take, End, DropReceiver, Keeper
  <1>10. CASE Cancel \/ DropState \/ UNCHANGED vars
    BY <1>10 DEF Cancel, DropState, vars
  <1>11. ASSUME NEW p \in Parties, CountPublished(p) PROVE Control'
    BY <1>11 DEF CountPublished
  <1> QED  BY <1>1, <1>2, <1>3, <1>4, <1>5, <1>6, <1>7, <1>8, <1>9, <1>10, <1>11
           DEF Next, HandleStep, LoopStep

LEMMA StepObserved ==
  ASSUME TypeOK, Control, Observed, [Next]_vars PROVE Observed'
  <1>0. \A t \in Types : t >= 1 /\ t \in Nat
    OBVIOUS
  <1>1. ASSUME NEW h \in Handles, NEW s \in Subs, NEW t \in Types, Subscribe(h, s, t)
        PROVE  Observed'
    <2>1. loop # "check" /\ loop # "stopped"
      BY <1>1 DEF Subscribe, Control, Observed
    <2>2. sub' = [sub EXCEPT ![s] = [is |-> "live", type |-> t, since |-> Len(log[t])]]
      BY <1>1 DEF Subscribe, NewSub
    <2>3. \A r \in Subs : r # s => sub'[r] = sub[r]
      BY <2>2 DEF TypeOK
    <2>4. sub'[s].is = "live" /\ sub'[s].type = t
      BY <2>2 DEF TypeOK
    <2>5. UNCHANGED <<handles, service, shut>>
      BY <1>1 DEF Subscribe, NewSub
    <2> QED  BY <2>1, <2>3, <2>4, <2>5 DEF Observed
  <1>2. ASSUME NEW s \in Subs, Receive(s) \/ DropReceiver(s) PROVE Observed'
    <2>1. \A r \in Subs :
            /\ sub'[r].type = sub[r].type
            /\ sub'[r].is = "live" => sub[r].is = "live"
            /\ sub'[r].is = "ended" =>
                  \/ sub[r].is = "ended"
                  \/ sub[r].is = "live" /\ sub[r].type \in shut
      <3>0. sub[s] \in SubType
        BY DEF TypeOK, SubType
      <3>1. CASE Take(s)
        BY <3>1 DEF Take
      <3>2. CASE End(s)
        <4>1. sub[s].is = "live" /\ sub[s].type \in shut
          BY <3>2 DEF End
        <4>2. sub'[s].is = "ended" /\ sub'[s].type = sub[s].type
          BY <3>0, <3>2 DEF End, SubType, TypeOK
        <4>3. \A r \in Subs : r # s => sub'[r] = sub[r]
          BY <3>2 DEF End, TypeOK
        <4> QED  BY <4>1, <4>2, <4>3
      <3>3. CASE DropReceiver(s)
        <4>1. sub'[s].is = "dropped" /\ sub'[s].type = sub[s].type
          BY <3>0, <3>3 DEF DropReceiver, SubType, TypeOK
        <4>2. \A r \in Subs : r # s => sub'[r] = sub[r]
          BY <3>3 DEF DropReceiver, TypeOK
        <4> QED  BY <4>1, <4>2
      <3> QED  BY <1>2, <3>1, <3>2, <3>3 DEF Receive
    <2>2. shut' = shut /\ UNCHANGED <<handles, service>>
      BY <1>2 DEF Receive, Take, End, DropReceiver, Keeper
    <2>3. ASSUME NEW r \in Subs
          PROVE  /\ sub'[r].is \in {"live", "ended"} => sub'[r].type \in Types
                 /\ sub'[r].is = "ended" => sub'[r].type \in shut'
      <3>1. /\ sub[r].is \in {"live", "ended"} => sub[r].type \in Types
            /\ sub[r].is = "ended" => sub[r].type \in shut
        BY DEF Observed
      <3> QED  BY <2>1, <2>2, <3>1
    <2>4. ASSUME loop' = "check"
          PROVE  /\ tally'.next >= 1
                 /\ tally'.sum = 0 =>
                      \A r \in Subs : sub'[r].is = "live" => sub'[r].type >= tally'.next
      <3>1. /\ tally' = tally
            /\ tally.next >= 1
            /\ tally.sum = 0 =>
                  \A r \in Subs : sub[r].is = "live" => sub[r].type >= tally.next
        BY <2>2, <2>4 DEF Observed
      <3> QED  BY <2>1, <3>1
    <2>5. ASSUME loop' = "stopped"
          PROVE  handles' = {} /\ \A r \in Subs : sub'[r].is # "live"
      <3>1. handles' = handles /\ handles = {} /\ \A r \in Subs : sub[r].is # "live"
        BY <2>2, <2>5 DEF Observed
      <3> QED  BY <2>1, <3>1
    <2> QED  BY <2>3, <2>4, <2>5 DEF Observed
  <1>3. CASE ReadCounter
    <2> DEFINE t == tally.next
               A == Active(t)
    <2>1. /\ t \in Types /\ t >= 1 /\ loop = "check" /\ loop' = "check"
          /\ tally' = [next |-> t + 1, sum |-> tally.sum + Cardinality(A)]
          /\ UNCHANGED <<handles, shut, sub>>
      BY <1>3 DEF ReadCounter
    <2>2. IsFiniteSet(A) /\ Cardinality(A) \in Nat /\ (Cardinality(A) = 0 <=> A = {})
      <3>1. A \subseteq Subs
        BY DEF Active
      <3> QED  BY <3>1, FS_Subset, FS_CardinalityType, FS_EmptySet
    <2>3. tally.sum \in Nat
      BY DEF TypeOK
    <2>4. ASSUME tally'.sum = 0, NEW s \in Subs, sub[s].is = "live"
          PROVE  sub[s].type >= t + 1
      <3>1. Cardinality(A) = 0 /\ tally.sum = 0
        BY <2>1, <2>2, <2>3, <2>4
      <3>2. A = {}
        BY <2>2, <3>1
      <3>3. sub[s].type # t /\ sub[s].type >= t /\ sub[s].type \in Types
        BY <2>1, <2>4, <3>1, <3>2 DEF Active, Observed
      <3> QED  BY <2>1, <3>3
    <2>5. tally'.next = t + 1 /\ t + 1 >= 1
      BY <2>1
    <2> QED  BY <2>1, <2>4, <2>5 DEF Observed
  <1>4. CASE ExitCheck
    <2>1. loop' = "stopped" => \A s \in Subs : sub[s].is # "live"
      BY <1>4, <1>0 DEF ExitCheck, Observed, TypeOK
    <2>2. handles = {} /\ loop' # "check"
      BY <1>4 DEF ExitCheck, Control
    <2> QED  BY <1>4, <2>1, <2>2 DEF ExitCheck, Observed
  <1>5. CASE CommandsClosed
    <2>1. tally = NoTally
      BY <1>5 DEF CommandsClosed, Control
    <2>2. tally'.next = 1 /\ tally'.sum = 0
      BY <1>5, <2>1 DEF CommandsClosed, NoTally
    <2> QED  BY <1>0, <1>5, <2>2 DEF CommandsClosed, Observed
  <1>6. ASSUME NEW p \in Parties, EndTurn(p) PROVE Observed'
    <2>1. loop' = "check" => loop = "check" \/ tally = NoTally
      <3>1. p = "loop" => loop = "turn"
        BY <1>6 DEF EndTurn, Inside, Control, TypeOK
      <3> QED  BY <1>6, <3>1 DEF EndTurn, Control
    <2>2. CASE loop = "check"
      BY <1>6, <2>2 DEF EndTurn, Observed, Inside, Control, TypeOK
    <2>3. CASE loop # "check" /\ tally = NoTally
      <3>1. tally'.next = 1 /\ tally'.sum = 0
        BY <1>6, <2>3 DEF EndTurn, NoTally
      <3>2. loop' # "stopped" \/ loop = "stopped"
        BY <1>6 DEF EndTurn
      <3> QED  BY <1>0, <1>6, <3>1, <3>2 DEF EndTurn, Observed
    <2>4. CASE loop # "check" /\ loop' # "check"
      BY <1>6, <2>4 DEF EndTurn, Observed
    <2> QED  BY <2>1, <2>2, <2>3, <2>4
  <1>7. ASSUME NEW p \in Parties, NEW t \in Types, Emit(p, t) \/ Overflow(p, t)
        PROVE  Observed'
    BY <1>7 DEF Emit, Overflow, Observed
  <1>8. ASSUME NEW p \in Parties, CountPublished(p) PROVE Observed'
    BY <1>8 DEF CountPublished, Observed
  <1>9. ASSUME NEW h \in Handles, DirectMut(h) \/ Direct(h) \/ DropHandle(h) \/ Clone(h)
        PROVE  Observed'
    BY <1>9 DEF DirectMut, Direct, DropHandle, Clone, Observed
  <1>10. CASE LoopTurn \/ LoopCancelled \/ FindPoisoned \/ Cancel \/ UNCHANGED vars
    BY <1>10 DEF LoopTurn, LoopCancelled, FindPoisoned, Cancel, vars, Observed
  <1>11. CASE DropState
    BY <1>11 DEF DropState, Observed
  <1> QED  BY <1>1, <1>2, <1>3, <1>4, <1>5, <1>6, <1>7, <1>8, <1>9, <1>10, <1>11
           DEF Next, HandleStep, LoopStep

(* A loop that stops for want of subscribers has none, whatever channels it  *)
(* counted first (handlers.rs:906-914, event.rs:136-141).                    *)
THEOREM StopsRightly == Spec => []StopsUnobserved
  <1>1. Init => TypeOK /\ Control /\ Observed
    BY InitTyped, InitControl
  <1>2. TypeOK /\ Control /\ Observed /\ [Next]_vars => (TypeOK /\ Control /\ Observed)'
    BY StepTyped, StepControl, StepObserved
  <1>3. Observed => StopsUnobserved
    BY DEF Observed, StopsUnobserved
  <1> QED  BY <1>1, <1>2, <1>3, PTL DEF Spec

(* The state of the channels and the subscriptions stays well typed, and the *)
(* writer is alone (event.rs:58-80).                                         *)
THEOREM EventsTyped == Spec => []TypeOK
  <1> QED  BY InitTyped, StepTyped, PTL DEF Spec

-------------------------------------------------------------------------------
(* Turns are not split.  The turns inside are told apart by their numbers:   *)
(* no reader is in one that emitted as a writer.                             *)

Numbered == \A p \in Parties : turnOf[p] <= turn

NumberedEvents == \A t \in Types : \A i \in 1 .. Len(log[t]) : log[t][i].turn <= turn

ReadersApart ==
    \A t \in Types : \A i \in 1 .. Len(log[t]) : \A h \in readers :
        log[t][i].exclusive => log[t][i].turn # turnOf[h]

(* s did not begin within a turn, and will not turn out to have.             *)
BegunApart(s) ==
    LET l == log[sub[s].type]
        n == sub[s].since
    IN  /\ sub[s].type \in Types
        /\ n <= Len(l)
        /\ n \in 1 .. Len(l)-1 /\ l[n].exclusive => l[n].turn # l[n+1].turn
        /\ n \in 1 .. Len(l) /\ l[n].exclusive /\ writer # None
              => l[n].turn # turnOf[writer]

Apart ==
    /\ Numbered /\ NumberedEvents /\ ReadersApart
    /\ \A s \in Subs : sub[s].is # "none" => BegunApart(s)

LEMMA InitApart == Init => Apart
  BY DEF Init, Apart, Numbered, NumberedEvents, ReadersApart, NoSub

(* A turn begun has a number no event has yet.                               *)
LEMMA TurnApart ==
  ASSUME TypeOK, Apart, NEW p \in Parties,
         (p \in Handles /\ (DirectMut(p) \/ Direct(p))) \/ (p = "loop" /\ LoopTurn)
  PROVE  Apart'
  <1>1. /\ turn' = turn + 1 /\ turnOf' = [turnOf EXCEPT ![p] = turn + 1]
        /\ UNCHANGED <<log, sub>>
    BY DEF DirectMut, Direct, LoopTurn, NewTurn
  <1>2. turn \in Nat /\ turnOf \in [Parties -> Nat]
    BY DEF TypeOK
  <1>3. \A t \in Types : \A i \in 1 .. Len(log[t]) :
            log[t][i].turn <= turn /\ log[t][i].turn \in Nat
    <2> SUFFICES ASSUME NEW t \in Types, NEW i \in 1 .. Len(log[t])
                 PROVE  log[t][i].turn <= turn /\ log[t][i].turn \in Nat
      OBVIOUS
    <2>1. log[t] \in Seq(Event)
      BY DEF TypeOK
    <2>2. log[t][i] \in Event
      BY <2>1, ElementOfSeq
    <2> QED  BY <2>2 DEF Apart, NumberedEvents, Event
  <1>4. Numbered'
    BY <1>1, <1>2 DEF Apart, Numbered
  <1>5. NumberedEvents'
    BY <1>1, <1>2, <1>3 DEF NumberedEvents
  <1>6. readers' \subseteq readers \cup {p} /\ readers \subseteq Parties
    BY DEF DirectMut, Direct, LoopTurn, TypeOK, Parties
  <1>7. ReadersApart'
    <2> SUFFICES ASSUME NEW t \in Types, NEW i \in 1 .. Len(log[t]), NEW h \in readers',
                        log[t][i].exclusive
                 PROVE  log[t][i].turn # turnOf'[h]
      BY <1>1 DEF ReadersApart
    <2>1. CASE h = p
      BY <1>1, <1>2, <1>3, <2>1
    <2>2. CASE h # p
      BY <1>1, <1>2, <1>6, <2>2 DEF Apart, ReadersApart
    <2> QED  BY <2>1, <2>2
  <1>8. writer' \in {None, p}
    BY DEF DirectMut, Direct, LoopTurn
  <1>9. ASSUME NEW s \in Subs, sub[s].is # "none" PROVE BegunApart(s)'
    <2>1. BegunApart(s)
      BY <1>9 DEF Apart
    <2>2. /\ sub[s].type \in Types
          /\ sub[s].since \in 1 .. Len(log[sub[s].type])
                => log[sub[s].type][sub[s].since].turn # turn + 1
      BY <1>2, <1>3, <2>1 DEF BegunApart
    <2>3. writer' # None => turnOf'[writer'] = turn + 1
      BY <1>1, <1>2, <1>8
    <2> QED  BY <1>1, <2>1, <2>2, <2>3 DEF BegunApart
  <1> QED  BY <1>1, <1>4, <1>5, <1>7, <1>9 DEF Apart

LEMMA LeaveApart ==
  ASSUME TypeOK, Apart, NEW p \in Parties, Leave(p), UNCHANGED <<turn, log, sub>>
  PROVE  Apart'
  <1>1. turn \in Nat /\ turnOf \in [Parties -> Nat] /\ readers \subseteq Parties
    BY DEF TypeOK, Parties
  <1>2. Numbered'
    BY <1>1 DEF Apart, Numbered, Leave
  <1>3. ReadersApart'
    BY <1>1 DEF Apart, ReadersApart, Leave
  <1>4. writer' # None => writer' = writer /\ turnOf'[writer'] = turnOf[writer]
    BY DEF TypeOK, Leave
  <1>5. ASSUME NEW s \in Subs, sub[s].is # "none" PROVE BegunApart(s)'
    BY <1>4, <1>5 DEF Apart, BegunApart
  <1> QED  BY <1>2, <1>3, <1>5 DEF Apart, NumberedEvents

LEMMA EmitApart ==
  ASSUME TypeOK, Apart, NEW p \in Parties, NEW t \in Types, Emit(p, t) PROVE Apart'
  <1> DEFINE e == [turn |-> turnOf[p], exclusive |-> writer = p]
             l == log[t]
  <1>1. /\ log' = [log EXCEPT ![t] = Append(l, e)]
        /\ UNCHANGED <<sub, turn, turnOf, writer, readers>>
        /\ Inside(p)
    BY DEF Emit
  <1>2. e.turn = turnOf[p] /\ (e.exclusive => writer = p)
    OBVIOUS
  <1>3. e \in Event
    <2>1. turnOf[p] \in Nat
      BY DEF TypeOK
    <2>2. (writer = p) \in BOOLEAN
      BY Zenon
    <2> QED  BY <2>1, <2>2 DEF Event
  <1>4. log \in [Types -> Seq(Event)] /\ l \in Seq(Event)
    BY DEF TypeOK
  <1> HIDE DEF e
  <1>5. /\ Len(log'[t]) = Len(l) + 1 /\ Len(l) \in Nat
        /\ \A i \in 1 .. Len(l) : log'[t][i] = l[i]
        /\ log'[t][Len(l) + 1] = e
        /\ \A u \in Types : u # t => log'[u] = log[u]
    BY <1>1, <1>3, <1>4, AppendProperties, LenProperties
  <1>6. p # None /\ (writer = p => readers = {}) /\ readers \subseteq Parties
    BY DEF TypeOK, Parties
  <1>7. NumberedEvents'
    BY <1>1, <1>2, <1>5 DEF Apart, Numbered, NumberedEvents
  <1>8. ReadersApart'
    BY <1>1, <1>2, <1>5, <1>6 DEF Apart, ReadersApart
  <1>9. ASSUME NEW s \in Subs, sub[s].is # "none" PROVE BegunApart(s)'
    <2> DEFINE n == sub[s].since
    <2>1. BegunApart(s) /\ n \in Nat
      BY <1>9 DEF Apart, TypeOK
    <2>2. CASE sub[s].type # t
      BY <1>1, <1>5, <2>1, <2>2 DEF BegunApart
    <2>3. CASE sub[s].type = t
      <3>1. /\ n <= Len(l)
            /\ n \in 1 .. Len(l)-1 /\ l[n].exclusive => l[n].turn # l[n+1].turn
            /\ n \in 1 .. Len(l) /\ l[n].exclusive /\ writer # None
                  => l[n].turn # turnOf[writer]
        BY <2>1, <2>3 DEF BegunApart
      <3>2. n \in 1 .. Len(l) /\ l[n].exclusive => l[n].turn # turnOf[p]
        BY <1>1, <1>6, <3>1 DEF Inside, Apart, ReadersApart
      <3>3. n \in 1 .. Len(l) => log'[t][n] = l[n]
        BY <1>5
      <3>4. n \in 1 .. Len(l) /\ l[n].exclusive => l[n].turn # log'[t][n+1].turn
        <4>1. CASE n = Len(l)
          BY <1>2, <1>5, <3>2, <4>1
        <4>2. CASE n < Len(l)
          <5>1. n \in 1 .. Len(l) => n+1 \in 1 .. Len(l) /\ n \in 1 .. Len(l)-1
            BY <1>5, <2>1, <4>2
          <5>2. n \in 1 .. Len(l) => log'[t][n+1] = l[n+1]
            BY <1>5, <5>1
          <5> QED  BY <3>1, <5>1, <5>2
        <4> QED  BY <1>5, <2>1, <3>1, <4>1, <4>2
      <3> QED  BY <1>1, <1>5, <2>1, <2>3, <3>1, <3>3, <3>4 DEF BegunApart
    <2> QED  BY <2>2, <2>3
  <1> QED  BY <1>1, <1>7, <1>8, <1>9 DEF Apart, Numbered

LEMMA SubscribeApart ==
  ASSUME TypeOK, Apart, NEW h \in Handles, NEW s \in Subs, NEW t \in Types,
         Subscribe(h, s, t)
  PROVE  Apart'
  <1>1. /\ UNCHANGED <<turn, turnOf, writer, readers, log>> /\ writer = None
        /\ sub' = [sub EXCEPT ![s] = [is |-> "live", type |-> t, since |-> Len(log[t])]]
    BY DEF Subscribe, NewSub
  <1>2. Len(log[t]) \in Nat
    BY LenProperties DEF TypeOK
  <1>3. ASSUME NEW r \in Subs, sub'[r].is # "none" PROVE BegunApart(r)'
    <2>1. CASE r = s
      <3>1. sub'[r].type = t /\ sub'[r].since = Len(log[t])
        BY <1>1, <2>1 DEF TypeOK
      <3> QED  BY <1>1, <1>2, <3>1 DEF BegunApart
    <2>2. CASE r # s
      <3>1. sub'[r] = sub[r]
        BY <1>1, <2>2 DEF TypeOK
      <3> QED  BY <1>1, <1>3, <3>1 DEF Apart, BegunApart
    <2> QED  BY <2>1, <2>2
  <1> QED  BY <1>1, <1>3 DEF Apart, Numbered, NumberedEvents, ReadersApart

LEMMA ElseApart ==
  ASSUME Apart, UNCHANGED <<turn, turnOf, writer, log>>, readers' \subseteq readers,
         \A s \in Subs : /\ sub'[s].type = sub[s].type
                         /\ sub'[s].since = sub[s].since
                         /\ sub'[s].is # "none" => sub[s].is # "none"
  PROVE  Apart'
  BY DEF Apart, Numbered, NumberedEvents, ReadersApart, BegunApart

LEMMA StepApart == ASSUME TypeOK, Apart, [Next]_vars PROVE Apart'
  <1>0. Handles \subseteq Parties /\ "loop" \in Parties
    BY DEF Parties
  <1>1. ASSUME NEW h \in Handles, DirectMut(h) \/ Direct(h) PROVE Apart'
    <2>1. h \in Parties
      BY <1>0
    <2> QED  BY <1>1, <2>1, TurnApart
  <1>2. CASE LoopTurn
    BY <1>0, <1>2, TurnApart
  <1>3. ASSUME NEW p \in Parties, EndTurn(p) PROVE Apart'
    BY <1>3, LeaveApart DEF EndTurn
  <1>4. ASSUME NEW p \in Parties, NEW t \in Types, Overflow(p, t) PROVE Apart'
    BY <1>4, LeaveApart DEF Overflow
  <1>5. ASSUME NEW p \in Parties, NEW t \in Types, Emit(p, t) PROVE Apart'
    BY <1>5, EmitApart
  <1>6. ASSUME NEW h \in Handles, NEW s \in Subs, NEW t \in Types, Subscribe(h, s, t)
        PROVE  Apart'
    BY <1>6, SubscribeApart
  <1>7. ASSUME NEW s \in Subs, Receive(s) \/ DropReceiver(s) PROVE Apart'
    <2>1. \A r \in Subs : /\ sub'[r].type = sub[r].type
                          /\ sub'[r].since = sub[r].since
                          /\ sub'[r].is # "none" => sub[r].is # "none"
      <3>1. sub[s] \in SubType
        BY DEF TypeOK, SubType
      <3>2. \A r \in Subs : r # s => sub'[r] = sub[r]
        BY <1>7 DEF Receive, Take, End, DropReceiver, TypeOK
      <3>3. /\ sub'[s].type = sub[s].type /\ sub'[s].since = sub[s].since
            /\ sub[s].is = "live"
        BY <1>7, <3>1 DEF Receive, Take, End, DropReceiver, TypeOK, SubType
      <3> QED  BY <3>2, <3>3
    <2>2. UNCHANGED <<turn, turnOf, writer, log, readers>>
      BY <1>7 DEF Receive, Take, End, DropReceiver
    <2> QED  BY <2>1, <2>2, ElseApart
  <1>8. ASSUME NEW p \in Parties, CountPublished(p) PROVE Apart'
    BY <1>8, ElseApart DEF CountPublished
  <1>9. ASSUME NEW h \in Handles, Clone(h) \/ DropHandle(h) PROVE Apart'
    BY <1>9, ElseApart DEF Clone, DropHandle
  <1>10. CASE LoopCancelled \/ FindPoisoned \/ CommandsClosed \/ ReadCounter \/ ExitCheck
    BY <1>10, ElseApart DEF LoopCancelled, FindPoisoned, CommandsClosed, ReadCounter,
                            ExitCheck
  <1>11. CASE Cancel \/ DropState \/ UNCHANGED vars
    BY <1>11, ElseApart DEF Cancel, DropState, vars
  <1> QED  BY <1>1, <1>2, <1>3, <1>4, <1>5, <1>6, <1>7, <1>8, <1>9, <1>10, <1>11
           DEF Next, HandleStep, LoopStep

(* A subscription gets all or none of the events of a turn under the write   *)
(* lock, whoever else emits meanwhile (service.rs:411-432).                  *)
THEOREM TurnsNotSplit == Spec => []TurnsWhole
  <1>1. Init => TypeOK /\ Apart
    BY InitTyped, InitApart
  <1>2. TypeOK /\ Apart /\ [Next]_vars => (TypeOK /\ Apart)'
    BY StepTyped, StepApart
  <1>3. Apart => TurnsWhole
    BY DEF Apart, BegunApart, TurnsWhole
  <1> QED  BY <1>1, <1>2, <1>3, PTL DEF Spec

-------------------------------------------------------------------------------
(* Subscribers receive everything.                                           *)

(* What s has and what it has waiting, position by position.                 *)
Stream(s) ==
    LET l == log[sub[s].type]
        n == sub[s].since
        g == got[s]
        u == unread[s]
    IN  /\ sub[s].type \in Types
        /\ n <= Len(l)
        /\ Len(g) + Len(u) = Len(l) - n
        /\ \A i \in 1 .. Len(g) : g[i] = l[n + i]
        /\ \A i \in 1 .. Len(u) : u[i] = l[n + Len(g) + i]

Streams ==
    \A s \in Subs :
        /\ sub[s].is \in {"live", "ended"} => Stream(s)
        /\ sub[s].is = "none" => got[s] = <<>> /\ unread[s] = <<>>

About(t) == {p \in Parties : counting[p] = t}

Counted == \A t \in Types : Len(log[t]) = published[t] + Cardinality(About(t))

LEMMA InitStreams == Init => Streams /\ Counted
  <1> SUFFICES ASSUME Init PROVE Streams /\ Counted
    OBVIOUS
  <1>1. \A t \in Types : About(t) = {}
    BY DEF Init, About
  <1>2. ASSUME NEW t \in Types PROVE Len(log[t]) = published[t] + Cardinality(About(t))
    <2>1. Cardinality(About(t)) = 0
      BY <1>1, FS_EmptySet
    <2>2. Len(log[t]) = 0 /\ published[t] = 0
      BY DEF Init
    <2> QED  BY <2>1, <2>2
  <1> QED  BY <1>2 DEF Init, Streams, Counted, NoSub

LEMMA PartiesFinite == \A t \in Types : IsFiniteSet(About(t)) /\ Cardinality(About(t)) \in Nat
  <1>1. IsFiniteSet(Parties)
    BY FS_AddElement DEF Parties
  <1>2. \A t \in Types : About(t) \subseteq Parties
    BY DEF About
  <1> QED  BY <1>1, <1>2, FS_Subset, FS_CardinalityType

(* Where what is taken and what is waiting lie in the log.                   *)
LEMMA Positions ==
  ASSUME NEW n \in Nat, NEW g \in Nat, NEW u \in Nat, NEW k \in Nat, g + u = k - n
  PROVE  /\ \A i \in 1 .. g : n + i \in 1 .. k
         /\ \A i \in 1 .. u : n + g + i \in 1 .. k
         /\ n + g + (u + 1) = k + 1
         /\ g + (u + 1) = (k + 1) - n
         /\ n <= k + 1
  OBVIOUS

LEMMA EmitStreams ==
  ASSUME TypeOK, Control, Observed, Streams, Counted,
         NEW p \in Parties, NEW t \in Types, Emit(p, t)
  PROVE  Streams' /\ Counted'
  <1> DEFINE e == [turn |-> turnOf[p], exclusive |-> writer = p]
             l == log[t]
  <1>1. /\ log' = [log EXCEPT ![t] = Append(l, e)]
        /\ UNCHANGED <<sub, got, published>>
        /\ \A s \in Subs : unread'[s] = IF s \in Active(t) /\ t \notin shut
                                        THEN Append(unread[s], e) ELSE unread[s]
        /\ counting[p] = None /\ counting' = [counting EXCEPT ![p] = t]
    BY DEF Emit
  <1>2. shut = {}
    BY NoOneInside DEF Emit
  <1>3. e \in Event
    <2>1. turnOf[p] \in Nat
      BY DEF TypeOK
    <2>2. (writer = p) \in BOOLEAN
      BY Zenon
    <2> QED  BY <2>1, <2>2 DEF Event
  <1>4. log \in [Types -> Seq(Event)] /\ l \in Seq(Event)
    BY DEF TypeOK
  <1> HIDE DEF e
  <1>5. /\ Len(log'[t]) = Len(l) + 1 /\ Len(l) \in Nat
        /\ \A i \in 1 .. Len(l) : log'[t][i] = l[i]
        /\ log'[t][Len(l) + 1] = e
        /\ \A u \in Types : u # t => log'[u] = log[u]
    BY <1>1, <1>3, <1>4, AppendProperties, LenProperties
  <1>6. ASSUME NEW s \in Subs, sub[s].is \in {"live", "ended"} PROVE Stream(s)'
    <2> DEFINE n == sub[s].since
    <2>1. Stream(s) /\ n \in Nat /\ sub[s].is = "live"
      BY <1>2, <1>6 DEF Streams, TypeOK, Observed
    <2>2. got[s] \in Seq(Event) /\ unread[s] \in Seq(Event)
      BY DEF TypeOK
    <2>3. Len(got[s]) \in Nat /\ Len(unread[s]) \in Nat
      BY <2>2, LenProperties
    <2>4. CASE sub[s].type # t
      <3>1. unread'[s] = unread[s] /\ log'[sub[s].type] = log[sub[s].type]
        BY <1>1, <1>5, <2>1, <2>4 DEF Stream, Active
      <3> QED  BY <1>1, <2>1, <3>1 DEF Stream
    <2>5. CASE sub[s].type = t
      <3>1. unread'[s] = Append(unread[s], e)
        BY <1>1, <1>2, <2>1, <2>5 DEF Active
      <3>2. /\ Len(unread'[s]) = Len(unread[s]) + 1
            /\ \A i \in 1 .. Len(unread[s]) : unread'[s][i] = unread[s][i]
            /\ unread'[s][Len(unread[s]) + 1] = e
        BY <1>3, <2>2, <3>1, AppendProperties
      <3>3. /\ n <= Len(l)
            /\ Len(got[s]) + Len(unread[s]) = Len(l) - n
            /\ \A i \in 1 .. Len(got[s]) : got[s][i] = l[n + i]
            /\ \A i \in 1 .. Len(unread[s]) : unread[s][i] = l[n + Len(got[s]) + i]
        BY <2>1, <2>5 DEF Stream
      <3> DEFINE g == Len(got[s])
                 u == Len(unread[s])
                 k == Len(l)
      <3>a. n \in Nat /\ g \in Nat /\ u \in Nat /\ k \in Nat /\ g + u = k - n
        BY <1>5, <2>1, <2>3, <3>3
      <3>b. /\ \A i \in 1 .. g : n + i \in 1 .. k
            /\ \A i \in 1 .. u : n + g + i \in 1 .. k
            /\ n + g + (u + 1) = k + 1
            /\ g + (u + 1) = (k + 1) - n
            /\ n <= k + 1
        <4> HIDE DEF n, g, u, k
        <4> QED  BY <3>a, Positions
      <3>4. \A i \in 1 .. g : got[s][i] = log'[t][n + i]
        BY <1>5, <3>3, <3>b
      <3>5. \A i \in 1 .. Len(unread'[s]) : unread'[s][i] = log'[t][n + g + i]
        <4> SUFFICES ASSUME NEW i \in 1 .. Len(unread'[s])
                     PROVE  unread'[s][i] = log'[t][n + g + i]
          OBVIOUS
        <4>1. CASE i = u + 1
          BY <1>5, <3>2, <3>b, <4>1
        <4>2. CASE i # u + 1
          <5>1. i \in 1 .. u
            BY <3>2, <3>a, <4>2
          <5> QED  BY <1>5, <3>2, <3>3, <3>b, <5>1
        <4> QED  BY <4>1, <4>2
      <3>6. g + Len(unread'[s]) = Len(log'[t]) - n /\ n <= Len(log'[t])
        BY <1>5, <3>2, <3>b
      <3> QED  BY <1>1, <2>5, <3>4, <3>5, <3>6 DEF Stream
    <2> QED  BY <2>4, <2>5
  <1>7. ASSUME NEW s \in Subs, sub[s].is = "none" PROVE got'[s] = <<>> /\ unread'[s] = <<>>
    BY <1>1, <1>7 DEF Streams, Active
  <1>8. Streams'
    BY <1>1, <1>6, <1>7 DEF Streams
  <1>9. Counted'
    <2>1. p \notin About(t) /\ t # None
      BY <1>1 DEF About
    <2>2. About(t)' = About(t) \cup {p} /\ \A u \in Types : u # t => About(u)' = About(u)
      BY <1>1, <2>1 DEF About, TypeOK
    <2>3. Cardinality(About(t)') = Cardinality(About(t)) + 1
      BY <2>1, <2>2, PartiesFinite, FS_AddElement
    <2>4. published[t] \in Nat /\ Cardinality(About(t)) \in Nat
      BY PartiesFinite DEF TypeOK
    <2>5. ASSUME NEW u \in Types PROVE Len(log'[u]) = published'[u] + Cardinality(About(u)')
      <3>1. Len(log[u]) = published[u] + Cardinality(About(u)) /\ published' = published
        BY <1>1 DEF Counted
      <3>2. CASE u = t
        <4>1. Len(log'[t]) = published[t] + Cardinality(About(t)) + 1
          BY <1>5, <3>1, <3>2
        <4> QED  BY <2>3, <2>4, <3>1, <3>2, <4>1
      <3>3. CASE u # t
        BY <1>5, <2>2, <3>1, <3>3
      <3> QED  BY <3>2, <3>3
    <2> QED  BY <2>5 DEF Counted
  <1> QED  BY <1>8, <1>9

LEMMA TakeStreams ==
  ASSUME TypeOK, Streams, NEW s \in Subs, Take(s) PROVE Streams'
  <1> DEFINE g == got[s]
             u == unread[s]
  <1>1. /\ g \in Seq(Event) /\ u \in Seq(Event) /\ u # <<>>
        /\ got' = [got EXCEPT ![s] = Append(g, Head(u))]
        /\ unread' = [unread EXCEPT ![s] = Tail(u)]
        /\ UNCHANGED <<sub, log>> /\ Stream(s)
    BY DEF TypeOK, Take, Streams
  <1>2. /\ Head(u) \in Event /\ Head(u) = u[1]
        /\ Len(Tail(u)) = Len(u) - 1
        /\ \A i \in 1 .. Len(Tail(u)) : Tail(u)[i] = u[i+1]
    BY <1>1, HeadTailProperties
  <1>3. /\ Len(Append(g, Head(u))) = Len(g) + 1
        /\ \A i \in 1 .. Len(g) : Append(g, Head(u))[i] = g[i]
        /\ Append(g, Head(u))[Len(g) + 1] = u[1]
    BY <1>1, <1>2, AppendProperties
  <1>4. got'[s] = Append(g, Head(u)) /\ unread'[s] = Tail(u)
    BY <1>1 DEF TypeOK
  <1>5. \A r \in Subs : r # s => got'[r] = got[r] /\ unread'[r] = unread[r]
    BY <1>1 DEF TypeOK
  <1>6. /\ Len(g) \in Nat /\ Len(u) \in Nat /\ Len(u) >= 1
        /\ sub[s].since \in Nat
    BY <1>1, LenProperties, EmptySeq DEF TypeOK
  <1> DEFINE l == log[sub[s].type]
             n == sub[s].since
  <1>7. /\ sub[s].type \in Types /\ n <= Len(l)
        /\ Len(g) + Len(u) = Len(l) - n
        /\ \A i \in 1 .. Len(g) : g[i] = l[n + i]
        /\ \A i \in 1 .. Len(u) : u[i] = l[n + Len(g) + i]
    BY <1>1 DEF Stream
  <1>8. Len(got'[s]) = Len(g) + 1 /\ Len(unread'[s]) = Len(u) - 1
    BY <1>2, <1>3, <1>4
  <1>9. \A i \in 1 .. Len(got'[s]) : got'[s][i] = l[n + i]
    <2> SUFFICES ASSUME NEW i \in 1 .. Len(g) + 1 PROVE got'[s][i] = l[n + i]
      BY <1>8
    <2>1. CASE i = Len(g) + 1
      <3>1. 1 \in 1 .. Len(u) /\ n + Len(g) + 1 = n + i
        BY <1>6, <2>1
      <3> QED  BY <1>3, <1>4, <1>7, <2>1, <3>1
    <2>2. CASE i # Len(g) + 1
      <3>1. i \in 1 .. Len(g)
        BY <1>6, <2>2
      <3> QED  BY <1>3, <1>4, <1>7, <3>1
    <2> QED  BY <2>1, <2>2
  <1>10. \A i \in 1 .. Len(unread'[s]) : unread'[s][i] = l[n + Len(got'[s]) + i]
    <2> SUFFICES ASSUME NEW i \in 1 .. Len(u) - 1
                 PROVE  unread'[s][i] = l[n + (Len(g) + 1) + i]
      BY <1>8
    <2>1. i + 1 \in 1 .. Len(u) /\ n + Len(g) + (i + 1) = n + (Len(g) + 1) + i
      BY <1>6
    <2>2. unread'[s][i] = u[i + 1]
      BY <1>2, <1>4, <1>6
    <2> QED  BY <1>7, <2>1, <2>2
  <1>11. Len(got'[s]) + Len(unread'[s]) = Len(l) - n
    <2> DEFINE a == Len(g)
               b == Len(u)
               c == Len(l)
    <2>1. a \in Nat /\ b \in Nat /\ c \in Nat
      BY <1>6, <1>7, LenProperties DEF TypeOK
    <2>2. n \in Nat /\ a + b = c - n
      BY <1>6, <1>7
    <2>3. Len(got'[s]) = a + 1 /\ Len(unread'[s]) = b - 1
      BY <1>8
    <2> HIDE DEF a, b, c, n
    <2>4. (a + 1) + (b - 1) = c - n
      BY <2>1, <2>2
    <2> QED  BY <2>3, <2>4 DEF c
  <1>12. Stream(s)'
    BY <1>1, <1>7, <1>9, <1>10, <1>11 DEF Stream
  <1>13. sub[s].is = "live"
    BY DEF Take
  <1>14. ASSUME NEW r \in Subs, r # s, Stream(r) PROVE Stream(r)'
    BY <1>1, <1>5, <1>14 DEF Stream
  <1> QED  BY <1>1, <1>5, <1>12, <1>13, <1>14 DEF Streams

LEMMA SubscribeStreams ==
  ASSUME TypeOK, Streams, NEW h \in Handles, NEW s \in Subs, NEW t \in Types,
         Subscribe(h, s, t)
  PROVE  Streams'
  <1>1. /\ UNCHANGED <<log, unread, got>> /\ sub[s].is = "none"
        /\ sub' = [sub EXCEPT ![s] = [is |-> "live", type |-> t, since |-> Len(log[t])]]
    BY DEF Subscribe, NewSub
  <1>2. Len(log[t]) \in Nat
    BY LenProperties DEF TypeOK
  <1>3. sub'[s].is = "live" /\ sub'[s].type = t /\ sub'[s].since = Len(log[t])
    BY <1>1 DEF TypeOK
  <1>4. got[s] = <<>> /\ unread[s] = <<>>
    BY <1>1 DEF Streams
  <1>5. Stream(s)'
    BY <1>1, <1>2, <1>3, <1>4 DEF Stream
  <1>6. \A r \in Subs : r # s => sub'[r] = sub[r]
    BY <1>1 DEF TypeOK
  <1>7. ASSUME NEW r \in Subs, r # s, Stream(r) PROVE Stream(r)'
    BY <1>1, <1>6, <1>7 DEF Stream
  <1> QED  BY <1>1, <1>3, <1>5, <1>6, <1>7 DEF Streams

LEMMA LeaveStreams ==
  ASSUME TypeOK, Streams, NEW s \in Subs, End(s) \/ DropReceiver(s) PROVE Streams'
  <1>1. \A r \in Subs : r # s => sub'[r] = sub[r] /\ got'[r] = got[r] /\ unread'[r] = unread[r]
    BY DEF TypeOK, End, DropReceiver
  <1>2. log' = log
    BY DEF End, DropReceiver
  <1>3. sub[s] \in SubType
    BY DEF TypeOK, SubType
  <1>4. CASE End(s)
    <2>1. /\ sub'[s].is = "ended" /\ sub'[s].type = sub[s].type
          /\ sub'[s].since = sub[s].since /\ got'[s] = got[s] /\ unread'[s] = unread[s]
          /\ sub[s].is = "live"
      BY <1>3, <1>4 DEF End, TypeOK, SubType
    <2>2. \A r \in Subs : Stream(r) => Stream(r)'
      <3>1. \A r \in Subs : /\ sub'[r].type = sub[r].type /\ sub'[r].since = sub[r].since
                           /\ got'[r] = got[r] /\ unread'[r] = unread[r]
        BY <1>1, <2>1
      <3> QED  BY <1>2, <3>1 DEF Stream
    <2> QED  BY <1>1, <2>1, <2>2 DEF Streams
  <1>5. CASE DropReceiver(s)
    <2>1. sub'[s].is = "dropped"
      BY <1>3, <1>5 DEF DropReceiver, TypeOK
    <2>2. \A r \in Subs : r # s /\ Stream(r) => Stream(r)'
      BY <1>1, <1>2 DEF Stream
    <2> QED  BY <1>1, <2>1, <2>2 DEF Streams
  <1> QED  BY <1>4, <1>5

LEMMA CountCounted ==
  ASSUME TypeOK, Counted, NEW p \in Parties, NEW t \in Types, counting[p] = t,
         CountPublished(p)
  PROVE  Counted'
  <1>1. /\ log' = log /\ t # None
        /\ published' = [published EXCEPT ![t] = @ + 1]
        /\ counting' = [counting EXCEPT ![p] = None]
    BY DEF CountPublished, TypeOK
  <1>2. /\ p \in About(t) /\ About(t)' = About(t) \ {p}
        /\ \A u \in Types : u # t => About(u)' = About(u)
    BY <1>1 DEF About, TypeOK
  <1>3. Cardinality(About(t)') = Cardinality(About(t)) - 1
    BY <1>1, <1>2, PartiesFinite, FS_RemoveElement
  <1>4. published \in [Types -> Nat] /\ Cardinality(About(t)) \in Nat
    BY <1>1, PartiesFinite DEF TypeOK
  <1>5. ASSUME NEW u \in Types PROVE Len(log'[u]) = published'[u] + Cardinality(About(u)')
    <2>1. Len(log'[u]) = published[u] + Cardinality(About(u))
      BY <1>1 DEF Counted
    <2>2. CASE u = t
      BY <1>1, <1>3, <1>4, <2>1, <2>2
    <2>3. CASE u # t
      <3>1. published'[u] = published[u]
        BY <1>1, <1>4, <2>3
      <3> QED  BY <1>2, <2>1, <2>3, <3>1
    <2> QED  BY <2>2, <2>3
  <1> QED  BY <1>5 DEF Counted

LEMMA StepStreams ==
  ASSUME TypeOK, Control, Observed, Streams, Counted, [Next]_vars
  PROVE  Streams' /\ Counted'
  <1>s. UNCHANGED <<sub, unread, got, log>> => Streams'
    <2> SUFFICES ASSUME UNCHANGED <<sub, unread, got, log>> PROVE Streams'
      OBVIOUS
    <2>1. \A s \in Subs : Stream(s) => Stream(s)'
      BY DEF Stream
    <2> QED  BY <2>1 DEF Streams
  <1>c. UNCHANGED <<log, published, counting>> => Counted'
    BY DEF Counted, About
  <1>1. ASSUME NEW h \in Handles,
               DirectMut(h) \/ Direct(h) \/ Clone(h) \/ DropHandle(h)
        PROVE  Streams' /\ Counted'
    BY <1>s, <1>c, <1>1 DEF DirectMut, Direct, Clone, DropHandle
  <1>2. ASSUME NEW h \in Handles, NEW s \in Subs, NEW t \in Types, Subscribe(h, s, t)
        PROVE  Streams' /\ Counted'
    BY <1>c, <1>2, SubscribeStreams DEF Subscribe, NewSub
  <1>3. CASE LoopStep
    BY <1>s, <1>c, <1>3 DEF LoopStep, LoopTurn, LoopCancelled, FindPoisoned,
                            CommandsClosed, ReadCounter, ExitCheck
  <1>4. ASSUME NEW p \in Parties, EndTurn(p) PROVE Streams' /\ Counted'
    BY <1>s, <1>c, <1>4 DEF EndTurn
  <1>5. ASSUME NEW p \in Parties, NEW t \in Types, Overflow(p, t) PROVE Streams' /\ Counted'
    BY <1>s, <1>c, <1>5 DEF Overflow
  <1>6. ASSUME NEW p \in Parties, NEW t \in Types, Emit(p, t) PROVE Streams' /\ Counted'
    BY <1>6, EmitStreams
  <1>7. ASSUME NEW p \in Parties, CountPublished(p) PROVE Streams' /\ Counted'
    <2>1. PICK t \in Types : counting[p] = t
      BY <1>7 DEF CountPublished, TypeOK
    <2>2. Counted'
      BY <1>7, <2>1, CountCounted
    <2> QED  BY <1>s, <1>7, <2>2 DEF CountPublished
  <1>8. ASSUME NEW s \in Subs, Receive(s) \/ DropReceiver(s) PROVE Streams' /\ Counted'
    <2>1. Streams'
      BY <1>8, TakeStreams, LeaveStreams DEF Receive
    <2>2. UNCHANGED <<log, published, counting>>
      BY <1>8 DEF Receive, Take, End, DropReceiver
    <2> QED  BY <1>c, <2>1, <2>2
  <1>9. CASE Cancel \/ DropState \/ UNCHANGED vars
    BY <1>s, <1>c, <1>9 DEF Cancel, DropState, vars
  <1> QED  BY <1>1, <1>2, <1>3, <1>4, <1>5, <1>6, <1>7, <1>8, <1>9
           DEF Next, HandleStep

(* The position by position account is the stream itself.                    *)
LEMMA StreamsReceive ==
  ASSUME TypeOK, Streams, Counted PROVE ReceivesAll
  <1> SUFFICES ASSUME NEW s \in Subs, sub[s].is \in {"live", "ended"}
               PROVE  LET t == sub[s].type
                          received == got[s] \o unread[s]
                      IN  /\ received = SubSeq(log[t], sub[s].since + 1, Len(log[t]))
                          /\ sub[s].since + Len(received)
                               = published[t]
                                 + Cardinality({p \in Parties : counting[p] = t})
    BY DEF ReceivesAll
  <1> DEFINE t == sub[s].type
             g == got[s]
             u == unread[s]
             l == log[t]
             n == sub[s].since
             rest == SubSeq(l, n + 1, Len(l))
  <1>1. /\ t \in Types /\ n <= Len(l)
        /\ Len(g) + Len(u) = Len(l) - n
        /\ \A i \in 1 .. Len(g) : g[i] = l[n + i]
        /\ \A i \in 1 .. Len(u) : u[i] = l[n + Len(g) + i]
    BY DEF Streams, Stream
  <1>2. /\ g \in Seq(Event) /\ u \in Seq(Event) /\ l \in Seq(Event) /\ n \in Nat
        /\ Len(g) \in Nat /\ Len(u) \in Nat /\ Len(l) \in Nat
    BY <1>1, LenProperties DEF TypeOK
  <1> HIDE DEF t, g, u, l, n
  <1>3. /\ g \o u \in Seq(Event)
        /\ Len(g \o u) = Len(g) + Len(u)
        /\ \A i \in 1 .. Len(g) + Len(u) :
              (g \o u)[i] = IF i <= Len(g) THEN g[i] ELSE u[i - Len(g)]
    BY <1>2, ConcatProperties
  <1>4. \A i \in n+1 .. Len(l) : l[i] \in Event
    <2> SUFFICES ASSUME NEW i \in n+1 .. Len(l) PROVE l[i] \in Event
      OBVIOUS
    <2>1. i \in 1 .. Len(l)
      BY <1>2
    <2> QED  BY <1>2, <2>1, ElementOfSeq
  <1>5. /\ rest \in Seq(Event)
        /\ Len(rest) = Len(l) - n
        /\ \A i \in 1 .. Len(l) - n : rest[i] = l[n + i]
    <2>1. n + 1 \in Int /\ Len(l) \in Int
      BY <1>2
    <2>2. /\ rest \in Seq(Event)
          /\ Len(rest) = IF n + 1 <= Len(l) THEN Len(l) - (n + 1) + 1 ELSE 0
          /\ \A i \in 1 .. Len(l) - (n + 1) + 1 : rest[i] = l[n + 1 + i - 1]
      BY <1>4, <2>1, SubSeqProperties
    <2> HIDE DEF rest
    <2> QED  BY <1>1, <1>2, <2>2
  <1> HIDE DEF rest
  <1>6. \A i \in 1 .. Len(g \o u) : (g \o u)[i] = rest[i]
    <2> SUFFICES ASSUME NEW i \in 1 .. Len(g) + Len(u) PROVE (g \o u)[i] = l[n + i]
      BY <1>1, <1>3, <1>5
    <2>1. CASE i <= Len(g)
      BY <1>1, <1>2, <1>3, <2>1
    <2>2. CASE ~(i <= Len(g))
      <3>1. i - Len(g) \in 1 .. Len(u) /\ n + Len(g) + (i - Len(g)) = n + i
        BY <1>2, <2>2
      <3> QED  BY <1>1, <1>3, <2>2, <3>1
    <2> QED  BY <2>1, <2>2
  <1>7. Len(g \o u) = Len(rest)
    BY <1>1, <1>3, <1>5
  <1>8. g \o u = rest
    BY <1>3, <1>5, <1>6, <1>7, SeqEqual
  <1>9. n + Len(g \o u) = Len(l)
    BY <1>1, <1>2, <1>3
  <1>10. Len(l) = published[t] + Cardinality(About(t))
    BY <1>1 DEF Counted, l
  <1> QED  BY <1>8, <1>9, <1>10 DEF About, rest, t, g, u, l, n

(* A subscriber has, taken or waiting, exactly what has been emitted since   *)
(* it subscribed, in order, for any number of channels, subscribers and      *)
(* emitting parties; and the published counts agree (event.rs:86-107).       *)
THEOREM EventsDelivered == Spec => []ReceivesAll
  <1> DEFINE I == TypeOK /\ Control /\ Observed /\ Streams /\ Counted
  <1>1. Init => I
    BY InitTyped, InitControl, InitStreams
  <1>2. I /\ [Next]_vars => I'
    BY StepTyped, StepControl, StepObserved, StepStreams
  <1>3. I => ReceivesAll
    BY StreamsReceive
  <1> QED  BY <1>1, <1>2, <1>3, PTL DEF Spec

-------------------------------------------------------------------------------
(* A panic has a cause: a queue as full as it gets.                          *)

(* Whoever the lock is poisoned for, nobody is inside any more.              *)
Quiet ==
    /\ loop = "dead" => poisoned
    /\ poisoned => writer = None /\ readers = {}

LEMMA InitQuiet == Init => Quiet
  BY Zenon DEF Init, Quiet

LEMMA OverflowQuiet ==
  ASSUME TypeOK, Control, Quiet, NEW p \in Parties, NEW t \in Types, Overflow(p, t)
  PROVE  /\ Quiet' /\ ~poisoned
         /\ writer # p => poisoned' = poisoned /\ loop' # "dead"
  <1>1. /\ Inside(p) /\ Leave(p)
        /\ poisoned' = (poisoned \/ writer = p)
        /\ loop' = IF p = "loop" THEN "dead" ELSE loop
    BY Zenon DEF Overflow
  <1>2. p # None
    BY DEF Parties
  <1>3. ~poisoned /\ loop # "dead" /\ poisoned \in BOOLEAN
    BY Zenon, <1>1, <1>2 DEF Quiet, Inside, TypeOK
  <1>4. "loop" \notin readers /\ "loop" # None
    BY DEF TypeOK
  <1>5. CASE writer = p
    <2>1. readers = {} /\ writer' = None /\ readers' = {}
      BY <1>1, <1>2, <1>5 DEF TypeOK, Leave
    <2>2. poisoned'
      BY Zenon, <1>1, <1>5
    <2> QED  BY Zenon, <1>3, <1>5, <2>1, <2>2 DEF Quiet
  <1>6. CASE writer # p
    <2>1. p # "loop"
      BY <1>1, <1>4, <1>6 DEF Inside
    <2>2. loop' = loop
      BY <1>1, <2>1
    <2>3. poisoned' = poisoned
      BY Zenon, <1>1, <1>3, <1>6
    <2> QED  BY Zenon, <1>3, <2>2, <2>3 DEF Quiet
  <1> QED  BY Zenon, <1>5, <1>6

LEMMA EndTurnQuiet ==
  ASSUME TypeOK, Quiet, NEW p \in Parties, EndTurn(p)
  PROVE  Quiet' /\ poisoned' = poisoned /\ loop' # "dead"
  <1>1. Inside(p) /\ Leave(p) /\ poisoned' = poisoned
    BY Zenon DEF EndTurn
  <1>2. p # None
    BY DEF Parties
  <1>3. ~poisoned /\ loop # "dead"
    BY Zenon, <1>1, <1>2 DEF Quiet, Inside
  <1>4. loop' # "dead"
    BY <1>3 DEF EndTurn
  <1> QED  BY Zenon, <1>1, <1>3, <1>4 DEF Quiet

(* Every other step leaves no party, poisons nothing and kills the loop only *)
(* over a poisoned lock.                                                     *)
Calm ==
    /\ poisoned' = poisoned
    /\ loop' = "dead" => loop = "dead" \/ poisoned
    /\ poisoned => writer' = writer /\ readers' = readers
    /\ writer' = writer \/ writer = None
    /\ readers \subseteq readers'

LEMMA ElseCalm ==
  ASSUME TypeOK, [Next]_vars,
         ~\E p \in Parties : EndTurn(p) \/ \E t \in Types : Overflow(p, t)
  PROVE  Calm
  <1>1. ASSUME NEW h \in Handles, DirectMut(h) \/ Direct(h) PROVE Calm
    <2>1. ~poisoned /\ poisoned' = poisoned
      BY Zenon, <1>1 DEF DirectMut, Direct
    <2>2. loop' = loop /\ (writer' = writer \/ writer = None) /\ readers \subseteq readers'
      BY <1>1 DEF DirectMut, Direct
    <2> QED  BY Zenon, <2>1, <2>2 DEF Calm
  <1>2. CASE LoopTurn
    <2>1. ~poisoned /\ poisoned' = poisoned
      BY Zenon, <1>2 DEF LoopTurn
    <2>2. loop' = "turn" /\ writer = None /\ readers \subseteq readers'
      BY <1>2 DEF LoopTurn
    <2> QED  BY Zenon, <2>1, <2>2 DEF Calm
  <1>3. ASSUME UNCHANGED <<writer, readers, poisoned>>,
               loop' = "dead" => loop = "dead" \/ poisoned
        PROVE  Calm
    BY Zenon, <1>3 DEF Calm
  <1>4. ASSUME NEW h \in Handles, Clone(h) \/ DropHandle(h) PROVE Calm
    BY <1>3, <1>4 DEF Clone, DropHandle
  <1>5. ASSUME NEW h \in Handles, NEW s \in Subs, NEW t \in Types, Subscribe(h, s, t)
        PROVE  Calm
    BY <1>3, <1>5 DEF Subscribe, NewSub
  <1>6. CASE LoopCancelled \/ FindPoisoned \/ CommandsClosed \/ ReadCounter \/ ExitCheck
    BY <1>3, <1>6 DEF LoopCancelled, FindPoisoned, CommandsClosed, ReadCounter, ExitCheck
  <1>7. ASSUME NEW p \in Parties, NEW t \in Types, Emit(p, t) PROVE Calm
    BY <1>3, <1>7 DEF Emit
  <1>8. ASSUME NEW p \in Parties, CountPublished(p) PROVE Calm
    BY <1>3, <1>8 DEF CountPublished
  <1>9. ASSUME NEW s \in Subs, Receive(s) \/ DropReceiver(s) PROVE Calm
    BY <1>3, <1>9 DEF Receive, Take, End, DropReceiver
  <1>10. CASE Cancel \/ DropState \/ UNCHANGED vars
    BY <1>3, <1>10 DEF Cancel, DropState, vars
  <1> QED  BY <1>1, <1>2, <1>4, <1>5, <1>6, <1>7, <1>8, <1>9, <1>10
           DEF Next, HandleStep, LoopStep

LEMMA StepQuiet == ASSUME TypeOK, Control, Quiet, [Next]_vars PROVE Quiet'
  <1>1. ASSUME NEW p \in Parties, EndTurn(p) PROVE Quiet'
    BY <1>1, EndTurnQuiet
  <1>2. ASSUME NEW p \in Parties, NEW t \in Types, Overflow(p, t) PROVE Quiet'
    BY <1>2, OverflowQuiet
  <1>3. CASE ~\E p \in Parties : EndTurn(p) \/ \E t \in Types : Overflow(p, t)
    <2>1. Calm
      BY <1>3, ElseCalm
    <2> QED  BY Zenon, <2>1 DEF Calm, Quiet
  <1> QED  BY Zenon, <1>1, <1>2, <1>3

FullStep ==
    \A p \in Parties :
        Inside(p) /\ ~Inside(p)' /\ (poisoned' # poisoned \/ loop' = "dead")
            => /\ writer = p
               /\ \E s \in Subs : /\ sub[s].is = "live"
                                  /\ Len(got[s]) + Capacity
                                        = Len(log[sub[s].type]) - sub[s].since

LEMMA StepFull ==
  ASSUME TypeOK, Control, Streams, Quiet, [Next]_vars PROVE FullStep
  <1> SUFFICES ASSUME NEW p \in Parties, Inside(p), ~Inside(p)',
                      poisoned' # poisoned \/ loop' = "dead"
               PROVE  /\ writer = p
                      /\ \E s \in Subs :
                            /\ sub[s].is = "live"
                            /\ Len(got[s]) + Capacity
                                  = Len(log[sub[s].type]) - sub[s].since
    BY Zenon DEF FullStep
  <1>0. p # None
    BY DEF Parties
  <1>1. ASSUME NEW q \in Parties, EndTurn(q) PROVE FALSE
    BY Zenon, <1>1, EndTurnQuiet
  <1>2. CASE ~\E q \in Parties : EndTurn(q) \/ \E t \in Types : Overflow(q, t)
    <2>1. Calm
      BY <1>2, ElseCalm
    <2>2. Inside(p)'
      BY <1>0, <2>1 DEF Calm, Inside
    <2> QED  BY <2>2
  <1>3. ASSUME NEW q \in Parties, NEW t \in Types, Overflow(q, t)
        PROVE  /\ writer = p
               /\ \E s \in Subs :
                     /\ sub[s].is = "live"
                     /\ Len(got[s]) + Capacity = Len(log[sub[s].type]) - sub[s].since
    <2>1. writer = q
      BY Zenon, <1>3, OverflowQuiet
    <2>2. Leave(q) /\ Full(t)
      BY <1>3 DEF Overflow
    <2>3. p = q
      BY <2>1, <2>2 DEF Leave, Inside, TypeOK
    <2>4. PICK s \in Subs : sub[s].is = "live" /\ Len(unread[s]) = Capacity
      BY <2>2 DEF Full, Active
    <2>5. Len(got[s]) + Len(unread[s]) = Len(log[sub[s].type]) - sub[s].since
      BY <2>4 DEF Streams, Stream
    <2> QED  BY <2>1, <2>3, <2>4, <2>5
  <1> QED  BY Zenon, <1>1, <1>2, <1>3

(* An emit panics only over a queue that holds as many events as the channel *)
(* takes, all of them emitted since the subscription and not taken, and only *)
(* such a panic of a writer poisons the state, for any capacity and number   *)
(* of channels and subscribers (event.rs:93-101, 176-180).                   *)
THEOREM PanicsForCause == Spec => OverflowForCause
  <1> DEFINE I == TypeOK /\ Control /\ Observed /\ Streams /\ Counted /\ Quiet
  <1>1. Init => I
    BY InitTyped, InitControl, InitStreams, InitQuiet
  <1>2. I /\ [Next]_vars => I'
    BY StepTyped, StepControl, StepObserved, StepStreams, StepQuiet
  <1>3. I /\ [Next]_vars => FullStep
    BY StepFull
  <1> QED  BY <1>1, <1>2, <1>3, PTL DEF Spec, OverflowForCause, FullStep

===============================================================================

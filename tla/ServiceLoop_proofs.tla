-------------------------- MODULE ServiceLoop_proofs --------------------------
(* Proofs about ServiceLoop, for any handles, commands, operations, sources *)
(* and capacity of the queue.                                               *)
EXTENDS ServiceLoop, FiniteSetTheorems, SequenceTheorems, TLAPS

(* The write lock is held exactly during a turn, by the loop exactly in its *)
(* own; and the loop has something in hand exactly while it serves it.      *)
LockInv ==
    /\ holder = None <=> turn = "none"
    /\ holder = "loop" <=> loop = "turn"
    /\ loop \in {"lock", "turn"} => hand \in Commands \cup Sources
    /\ loop = "count" => hand \in Commands
    /\ loop \notin {"lock", "turn", "count"} => hand = None

(* A drain follows a cancellation; the command channel closes with the last *)
(* handle, a source with its upstream.                                      *)
CauseInv ==
    /\ draining => cancelled
    /\ loop = "drain" => draining
    /\ ~cmdOpen => handles = {}
    /\ Sources \ open \subseteq ended

(* The cell is closed by the loop's last steps. *)
CloseInv == closed => loop \in {"return", "ended"}

(* The one in the loop's hands before and while its handler runs: a drawn   *)
(* command waiting for the lock, or an immediate one being handled.         *)
InHand ==
    IF loop = "lock" THEN {hand}
    ELSE IF turn = "handler" THEN Immediately ELSE {}

(* No operation is in the queue twice. *)
Distinct ==
    \A i, j \in DOMAIN queue : queue[i] \in Ops /\ queue[i] = queue[j] => i = j

(* Every operation is in one place at most, and was sent once. *)
PlaceInv ==
    /\ InQueue \cup parked \cup claimed \subseteq sent
    /\ hand \in Commands => hand \in sent
    /\ Distinct
    /\ hand \in Ops => hand \notin InQueue
    /\ InQueue \cap (parked \cup claimed) = {}
    /\ parked \cap claimed = {}
    /\ InHand \cap (parked \cup claimed) = {}

(* What the published view does not show yet is not concluded. *)
ViewInv ==
    /\ turn = "flush" => unseen = {}
    /\ ConcludedShown

IInv ==
    /\ TypeOK
    /\ LockInv
    /\ CauseInv
    /\ StopsForCause
    /\ CloseInv
    /\ PlaceInv
    /\ OpsAccounted
    /\ ViewInv
    /\ DepthConserved

------------------------------------------------------------------------------
(* What sending does to the queue (runtime.rs:19-45) ... *)
LEMMA AppendQueue ==
    ASSUME queue \in Seq(Commands), NEW c \in Commands,
           queue' = Append(queue, c)
    PROVE  /\ queue' \in Seq(Commands)
           /\ Len(queue') = Len(queue) + 1
           /\ InQueue' = InQueue \cup {c}
           /\ Distinct /\ (c \in Ops => c \notin InQueue) => Distinct'
<1>1. /\ DOMAIN queue' = 1 .. (Len(queue) + 1)
      /\ \A i \in 1 .. Len(queue) : queue'[i] = queue[i]
      /\ queue'[Len(queue) + 1] = c
  OBVIOUS
<1>2. InQueue' = InQueue \cup {c}
  BY DEF InQueue
<1>3. ASSUME Distinct, c \in Ops => c \notin InQueue, NEW i \in DOMAIN queue',
             NEW j \in DOMAIN queue', queue'[i] \in Ops, queue'[i] = queue'[j]
      PROVE  i = j
  BY <1>1, <1>3 DEF Distinct, InQueue
<1> QED
  BY <1>2, <1>3 DEF Distinct

(* ... what leaving it alone does ... *)
LEMMA QueueKept ==
    ASSUME UNCHANGED queue
    PROVE  InQueue' = InQueue /\ Distinct' = Distinct
  BY DEF InQueue, Distinct

(* ... its end with its last sender ... *)
LEMMA QueueDropped ==
    ASSUME queue' = <<>>
    PROVE  InQueue' = {} /\ Distinct'
  BY DEF InQueue, Distinct

(* ... and receiving (handlers.rs:1013-1018). *)
LEMMA TailQueue ==
    ASSUME queue \in Seq(Commands), queue # <<>>,
           queue' = Tail(queue)
    PROVE  /\ queue' \in Seq(Commands)
           /\ Head(queue) \in InQueue
           /\ Len(queue') = Len(queue) - 1
           /\ InQueue = InQueue' \cup {Head(queue)}
           /\ Distinct => /\ Distinct'
                          /\ Head(queue) \in Ops => Head(queue) \notin InQueue'
<1>1. Len(queue) \in Nat \ {0} /\ DOMAIN queue = 1 .. Len(queue)
  OBVIOUS
<1>2. /\ Len(queue') = Len(queue) - 1
      /\ DOMAIN queue' = 1 .. (Len(queue) - 1)
      /\ \A i \in DOMAIN queue' : queue'[i] = queue[i + 1]
      /\ queue' \in Seq(Commands)
      /\ Head(queue) = queue[1]
  BY <1>1
<1>3. \A i \in DOMAIN queue :
        i = 1 \/ (i - 1 \in DOMAIN queue' /\ queue'[i - 1] = queue[i])
  BY <1>1, <1>2
<1>4. Head(queue) \in InQueue
  BY <1>1, <1>2 DEF InQueue
<1>5. InQueue' = {queue'[i] : i \in DOMAIN queue'}
  BY DEF InQueue
<1>6. ASSUME NEW c \in InQueue PROVE c \in InQueue' \cup {Head(queue)}
  <2>1. PICK i \in DOMAIN queue : c = queue[i]
    BY <1>6 DEF InQueue
  <2> QED
    BY <2>1, <1>2, <1>3, <1>5
<1>7. ASSUME NEW c \in InQueue' PROVE c \in InQueue
  <2>1. PICK i \in DOMAIN queue' : c = queue'[i]
    BY <1>5, <1>7
  <2>2. i + 1 \in DOMAIN queue
    BY <1>1, <1>2
  <2> QED
    BY <2>1, <2>2, <1>2 DEF InQueue
<1>8. ASSUME Distinct
      PROVE  Distinct' /\ (Head(queue) \in Ops => Head(queue) \notin InQueue')
  <2>1. Distinct'
    <3>1. ASSUME NEW i \in DOMAIN queue', NEW j \in DOMAIN queue',
                 queue'[i] \in Ops, queue'[i] = queue'[j]
          PROVE  i = j
      BY <1>1, <1>2, <1>8, <3>1 DEF Distinct
    <3> QED  BY <3>1 DEF Distinct
  <2>2. Head(queue) \in Ops => \A i \in DOMAIN queue' : queue'[i] # Head(queue)
    BY <1>1, <1>2, <1>8 DEF Distinct
  <2> QED  BY <1>5, <2>1, <2>2
<1> QED
  BY <1>2, <1>4, <1>6, <1>7, <1>8

(* Dropping resolvers keeps the states well typed (op.rs:166-172). *)
LEMMA DroppedType ==
    ASSUME TypeOK, NEW S
    PROVE  Dropped(S) \in [Ops -> {"Unborn", "Pending"} \cup Terminal]
  BY DEF TypeOK, Dropped, Terminal

(* A service just spawned satisfies the invariant. *)
LEMMA InitInv == Init => IInv
<1> SUFFICES ASSUME Init PROVE IInv
  OBVIOUS
<1> USE ServiceAssumption DEF Init
<1>1. TypeOK
  <2>1. /\ st \in [Ops -> {"Unborn", "Pending"} \cup Terminal]
        /\ counting \in [Handles -> Commands \cup {None}]
        /\ handles \in SUBSET Handles
    OBVIOUS
  <2>2. queue \in Seq(Commands) /\ Len(queue) <= Capacity
    OBVIOUS
  <2>3. rxOpen \in BOOLEAN /\ poisoned \in BOOLEAN /\ closed \in BOOLEAN
        /\ cmdOpen \in BOOLEAN /\ draining \in BOOLEAN /\ observed \in BOOLEAN
        /\ cancelled \in BOOLEAN
    OBVIOUS
  <2>4. /\ expirer \in {"running", "stopped"} /\ loop \in LoopPc
        /\ turn \in {"none", "handler", "publish", "flush"}
        /\ holder \in Handles \cup {"loop", None}
        /\ hand \in Commands \cup Sources \cup {None}
    BY DEF LoopPc
  <2>5. /\ sent \in SUBSET Commands /\ executed \in SUBSET Commands
        /\ parked \in SUBSET Deferred /\ claimed \in SUBSET Ops
        /\ unseen \in SUBSET Ops /\ open \in SUBSET Sources
        /\ inbox \in SUBSET Sources /\ ended \in SUBSET Events
        /\ depth \in Int
    OBVIOUS
  <2> HIDE DEF Init
  <2> QED
    BY <2>1, <2>2, <2>3, <2>4, <2>5, Zenon DEF TypeOK
<1>2. LockInv /\ CauseInv /\ StopsForCause /\ CloseInv
  BY DEF LockInv, CauseInv, StopsForCause, CloseInv
<1>3. InQueue = {} /\ InHand = {} /\ Immediately = {}
  BY DEF InQueue, InHand, Immediately
<1>4. PlaceInv /\ OpsAccounted /\ ViewInv
  BY <1>3
  DEF PlaceInv, Distinct, OpsAccounted, ViewInv, ConcludedShown, Commands
<1>5. DepthConserved
  <2>1. {h \in Handles : counting[h] # None} = {}
    OBVIOUS
  <2>2. Cardinality({h \in Handles : counting[h] # None}) = 0
    BY <2>1, FS_EmptySet
  <2>3. Len(queue) = 0 /\ depth = 0 /\ hand \notin Commands
    OBVIOUS
  <2> HIDE DEF Init
  <2> QED
    BY <2>2, <2>3 DEF DepthConserved
<1> QED
  BY <1>1, <1>2, <1>4, <1>5 DEF IInv

(* Steps keep the service well typed. *)
LEMMA TypeNext == TypeOK /\ [Next]_vars => TypeOK'
<1> SUFFICES ASSUME TypeOK, [Next]_vars
             PROVE  TypeOK'
  OBVIOUS
<1> USE ServiceAssumption
    DEF TypeOK, LoopPc, channel, lock, cell, flags, env, metrics
<1>1. ASSUME NEW h \in Handles, NEW c \in Commands, SendAccepted(h, c)
      PROVE  TypeOK'
  BY <1>1, AppendQueue DEF SendAccepted, MaySend, Born, Terminal
<1>2. ASSUME NEW h \in Handles, NEW c \in Commands, SendDropped(h, c)
      PROVE  TypeOK'
  BY <1>2 DEF SendDropped, MaySend, Born, Terminal
<1>3. ASSUME NEW h \in Handles, Count(h) PROVE TypeOK'
  BY <1>3 DEF Count
<1>4. ASSUME NEW h \in Handles, Clone(h) PROVE TypeOK'
  BY <1>4 DEF Clone
<1>5. ASSUME NEW h \in Handles, DropHandle(h) PROVE TypeOK'
  BY <1>5 DEF DropHandle
<1>6. ASSUME NEW h \in Handles, DirectMut(h) PROVE TypeOK'
  BY <1>6 DEF DirectMut
<1>7. CASE DropQueue
  BY <1>7, DroppedType DEF DropQueue
<1>8. CASE DropCell
  BY <1>8, DroppedType DEF DropCell
<1>9. CASE EnvStep
  <2>1. cancelled' \in BOOLEAN /\ observed' \in BOOLEAN
    BY <1>9 DEF EnvStep
  <2>2. inbox' \in SUBSET Sources /\ ended' \in SUBSET Events
    BY <1>9 DEF EnvStep, Sources
  <2> QED  BY <1>9, <2>1, <2>2 DEF EnvStep
<1>10. ASSUME NEW o \in Deferred, Claim(o) PROVE TypeOK'
  BY <1>10 DEF Claim, Ops
<1>11. CASE HandlerReturns
  BY <1>11 DEF HandlerReturns, Immediately, Ops
<1>12. CASE Publish
  BY <1>12 DEF Publish
<1>13. CASE Flush
  BY <1>13 DEF Flush, Terminal
<1>14. CASE Panic
  <2>1. rxOpen' \in BOOLEAN /\ poisoned' \in BOOLEAN
    BY <1>14 DEF Panic, LoopDies
  <2>2. st' \in [Ops -> {"Unborn", "Pending"} \cup Terminal]
    BY <1>14, DroppedType DEF Panic
  <2>3. loop' \in LoopPc /\ hand' \in Commands \cup Sources \cup {None}
    BY <1>14 DEF Panic, LoopDies
  <2> QED  BY <1>14, <2>1, <2>2, <2>3 DEF Panic
<1>15. CASE SelectCancel
  BY <1>15 DEF SelectCancel
<1>16. CASE Receive
  BY <1>16, TailQueue DEF Receive
<1>17. CASE SelectCommandsClosed
  <2>1. cmdOpen' \in BOOLEAN
    BY <1>17, Zenon DEF SelectCommandsClosed
  <2> QED  BY <1>17, <2>1 DEF SelectCommandsClosed
<1>18. ASSUME NEW s \in Sources, SelectSource(s) PROVE TypeOK'
  BY <1>18 DEF SelectSource
<1>19. ASSUME NEW s \in Sources, SelectSourceClosed(s) PROVE TypeOK'
  BY <1>19 DEF SelectSourceClosed
<1>20. ASSUME NEW D \in SUBSET parked, BeginTurn(D) PROVE TypeOK'
  BY <1>20, DroppedType DEF BeginTurn
<1>21. CASE FindPoisoned
  BY <1>21, DroppedType DEF FindPoisoned, LoopDies
<1>22. CASE CountProcessed
  BY <1>22 DEF CountProcessed
<1>23. CASE DrainEnd
  BY <1>23 DEF DrainEnd, Break
<1>24. CASE ExitCheck
  BY <1>24 DEF ExitCheck, Break
<1>25. CASE Close
  BY <1>25, DroppedType DEF Close
<1>26. CASE Return
  <2>1. rxOpen' \in BOOLEAN
    BY <1>26, Zenon DEF Return
  <2> QED  BY <1>26, <2>1 DEF Return
<1>27. CASE ExpirerStops
  BY <1>27 DEF ExpirerStops
<1>28. CASE ExpirerAborted
  BY <1>28 DEF ExpirerAborted
<1>29. ASSUME NEW o \in Deferred, Expire(o) PROVE TypeOK'
  BY <1>29 DEF Expire, Terminal, Ops
<1>30. CASE UNCHANGED vars
  BY <1>30 DEF vars
<1> QED
  BY <1>1, <1>2, <1>3, <1>4, <1>5, <1>6, <1>7, <1>8, <1>9, <1>10, <1>11,
     <1>12, <1>13, <1>14, <1>15, <1>16, <1>17, <1>18, <1>19, <1>20, <1>21,
     <1>22, <1>23, <1>24, <1>25, <1>26, <1>27, <1>28, <1>29, <1>30
  DEF Next, CallerStep, DropStep, TurnStep, LoopStep, ExpirerStep,
      SelectCommand, DrainNext

(* Steps keep the lock with one holder, and the loop's hands in step.      *)
LEMMA LockNext == TypeOK /\ LockInv /\ [Next]_vars => LockInv'
<1> SUFFICES ASSUME TypeOK, LockInv, [Next]_vars
             PROVE  LockInv'
  OBVIOUS
<1> USE ServiceAssumption DEF TypeOK, LockInv, channel, lock, cell, flags,
        env, metrics
<1>1. ASSUME NEW h \in Handles, DirectMut(h) PROVE LockInv'
  BY <1>1 DEF DirectMut
<1>2. CASE HandlerReturns
  BY <1>2 DEF HandlerReturns
<1>3. CASE Publish
  BY <1>3 DEF Publish
<1>4. CASE Flush
  BY <1>4 DEF Flush
<1>5. CASE Panic
  BY <1>5 DEF Panic, LoopDies
<1>6. CASE SelectCancel
  BY <1>6 DEF SelectCancel
<1>7. CASE SelectCommand \/ DrainNext
  BY <1>7, TailQueue, HeadTailProperties DEF SelectCommand, DrainNext,
     Receive
<1>8. CASE SelectCommandsClosed
  BY <1>8 DEF SelectCommandsClosed
<1>9. ASSUME NEW s \in Sources, SelectSource(s) PROVE LockInv'
  BY <1>9 DEF SelectSource
<1>10. ASSUME NEW s \in Sources, SelectSourceClosed(s) PROVE LockInv'
  BY <1>10 DEF SelectSourceClosed
<1>11. ASSUME NEW D \in SUBSET parked, BeginTurn(D) PROVE LockInv'
  BY <1>11 DEF BeginTurn
<1>12. CASE FindPoisoned
  BY <1>12 DEF FindPoisoned, LoopDies
<1>13. CASE CountProcessed
  BY <1>13 DEF CountProcessed
<1>14. CASE DrainEnd
  BY <1>14 DEF DrainEnd, Break
<1>15. CASE ExitCheck
  BY <1>15 DEF ExitCheck, Break
<1>16. CASE Close
  BY <1>16 DEF Close
<1>17. CASE Return
  BY <1>17 DEF Return
<1>18. CASE \/ \E h \in Handles, c \in Commands : SendAccepted(h, c)
            \/ \E h \in Handles, c \in Commands : SendDropped(h, c)
            \/ \E h \in Handles : Count(h)
            \/ \E h \in Handles : Clone(h)
            \/ \E h \in Handles : DropHandle(h)
            \/ DropQueue
            \/ DropCell
            \/ EnvStep
            \/ \E o \in Deferred : Claim(o)
            \/ ExpirerStops
            \/ ExpirerAborted
            \/ \E o \in Deferred : Expire(o)
            \/ UNCHANGED vars
  BY <1>18 DEF MaySend, SendAccepted, SendDropped, Count, Clone, DropHandle,
     DropQueue, DropCell, EnvStep, Claim, ExpirerStops, ExpirerAborted,
     Expire, vars
<1> QED
  BY <1>1, <1>2, <1>3, <1>4, <1>5, <1>6, <1>7, <1>8, <1>9, <1>10, <1>11,
     <1>12, <1>13, <1>14, <1>15, <1>16, <1>17, <1>18
  DEF Next, CallerStep, DropStep, TurnStep, LoopStep, ExpirerStep

(* Steps keep what the loop knows of its handles and sources true.         *)
LEMMA CauseNext == TypeOK /\ CauseInv /\ [Next]_vars => CauseInv'
<1> SUFFICES ASSUME TypeOK, CauseInv, [Next]_vars
             PROVE  CauseInv'
  OBVIOUS
<1> USE ServiceAssumption DEF TypeOK, CauseInv, channel, lock, cell, flags,
        env, metrics
<1>1. CASE EnvStep
  BY <1>1 DEF EnvStep
<1>2. CASE Panic
  BY <1>2 DEF Panic, LoopDies
<1>3. CASE SelectCommand \/ DrainNext
  BY <1>3 DEF SelectCommand, DrainNext, Receive
<1>4. CASE SelectCommandsClosed
  BY <1>4 DEF SelectCommandsClosed
<1>5. ASSUME NEW s \in Sources, SelectSourceClosed(s) PROVE CauseInv'
  BY <1>5 DEF SelectSourceClosed
<1>6. CASE FindPoisoned
  BY <1>6 DEF FindPoisoned, LoopDies
<1>7. CASE CountProcessed
  BY <1>7 DEF CountProcessed
<1>8. CASE DrainEnd
  BY <1>8 DEF DrainEnd, Break
<1>9. CASE ExitCheck
  BY <1>9 DEF ExitCheck, Break
<1>10. CASE \/ \E h \in Handles, c \in Commands : SendAccepted(h, c)
            \/ \E h \in Handles, c \in Commands : SendDropped(h, c)
            \/ \E h \in Handles : Count(h)
            \/ \E h \in Handles : Clone(h)
            \/ \E h \in Handles : DropHandle(h)
            \/ \E h \in Handles : DirectMut(h)
            \/ DropQueue
            \/ DropCell
            \/ \E o \in Deferred : Claim(o)
            \/ HandlerReturns
            \/ Publish
            \/ Flush
            \/ SelectCancel
            \/ \E s \in Sources : SelectSource(s)
            \/ \E D \in SUBSET parked : BeginTurn(D)
            \/ Close
            \/ Return
            \/ ExpirerStops
            \/ ExpirerAborted
            \/ \E o \in Deferred : Expire(o)
            \/ UNCHANGED vars
  BY <1>10 DEF MaySend, SendAccepted, SendDropped, Count, Clone, DropHandle,
     DirectMut, DropQueue, DropCell, Claim, HandlerReturns, Publish, Flush,
     SelectCancel, SelectSource, BeginTurn, Close, Return, ExpirerStops,
     ExpirerAborted, Expire, vars
<1> QED
  BY <1>1, <1>2, <1>3, <1>4, <1>5, <1>6, <1>7, <1>8, <1>9, <1>10
  DEF Next, CallerStep, DropStep, TurnStep, LoopStep, ExpirerStep

(* No step winds the loop down without a cause (handlers.rs:1036-1070).    *)
LEMMA StopsNext ==
    TypeOK /\ CauseInv /\ StopsForCause /\ [Next]_vars => StopsForCause'
<1> SUFFICES ASSUME TypeOK, CauseInv, StopsForCause, [Next]_vars
             PROVE  StopsForCause'
  OBVIOUS
<1> USE ServiceAssumption DEF TypeOK, CauseInv, StopsForCause, SourcesClosed,
        Sources, channel, lock, cell, flags, env, metrics
<1>1. ASSUME NEW h \in Handles, Clone(h) PROVE StopsForCause'
  BY <1>1 DEF Clone
<1>2. ASSUME NEW h \in Handles, DropHandle(h) PROVE StopsForCause'
  BY <1>2 DEF DropHandle
<1>3. CASE EnvStep
  BY <1>3 DEF EnvStep
<1>4. CASE Flush
  BY <1>4 DEF Flush
<1>5. CASE Panic
  BY <1>5 DEF Panic, LoopDies
<1>6. CASE SelectCancel
  BY <1>6 DEF SelectCancel
<1>7. CASE SelectCommand \/ DrainNext
  BY <1>7 DEF SelectCommand, DrainNext, Receive
<1>8. CASE SelectCommandsClosed
  BY <1>8 DEF SelectCommandsClosed
<1>9. ASSUME NEW s \in Sources, SelectSourceClosed(s) PROVE StopsForCause'
  BY <1>9 DEF SelectSourceClosed
<1>10. CASE FindPoisoned
  BY <1>10 DEF FindPoisoned, LoopDies
<1>11. CASE CountProcessed
  BY <1>11 DEF CountProcessed
<1>12. CASE DrainEnd
  BY <1>12 DEF DrainEnd, Break
<1>13. CASE ExitCheck
  BY <1>13 DEF ExitCheck, Break
<1>14. CASE Close
  BY <1>14 DEF Close
<1>15. CASE Return
  BY <1>15 DEF Return
<1>16. CASE \/ \E h \in Handles, c \in Commands : SendAccepted(h, c)
            \/ \E h \in Handles, c \in Commands : SendDropped(h, c)
            \/ \E h \in Handles : Count(h)
            \/ \E h \in Handles : DirectMut(h)
            \/ DropQueue
            \/ DropCell
            \/ \E o \in Deferred : Claim(o)
            \/ HandlerReturns
            \/ Publish
            \/ \E s \in Sources : SelectSource(s)
            \/ \E D \in SUBSET parked : BeginTurn(D)
            \/ ExpirerStops
            \/ ExpirerAborted
            \/ \E o \in Deferred : Expire(o)
            \/ UNCHANGED vars
  BY <1>16 DEF MaySend, SendAccepted, SendDropped, Count, DirectMut, DropQueue,
     DropCell, Claim, HandlerReturns, Publish, SelectSource, BeginTurn,
     ExpirerStops, ExpirerAborted, Expire, vars
<1> QED
  BY <1>1, <1>2, <1>3, <1>4, <1>5, <1>6, <1>7, <1>8, <1>9, <1>10, <1>11,
     <1>12, <1>13, <1>14, <1>15, <1>16
  DEF Next, CallerStep, DropStep, TurnStep, LoopStep, ExpirerStep

(* The loop closes the cell last (handlers.rs:1072-1076).                  *)
LEMMA CloseNext == TypeOK /\ LockInv /\ CloseInv /\ [Next]_vars => CloseInv'
<1> SUFFICES ASSUME TypeOK, LockInv, CloseInv, [Next]_vars
             PROVE  CloseInv'
  OBVIOUS
<1> USE ServiceAssumption DEF TypeOK, LockInv, CloseInv, channel, lock, cell,
        flags, env, metrics
<1>1. CASE Flush
  BY <1>1 DEF Flush
<1>2. CASE Panic
  BY <1>2 DEF Panic, LoopDies
<1>3. CASE SelectCommand \/ DrainNext
  BY <1>3 DEF SelectCommand, DrainNext, Receive
<1>4. CASE FindPoisoned
  BY <1>4 DEF FindPoisoned, LoopDies
<1>5. CASE Close
  BY <1>5 DEF Close
<1>6. CASE Return
  BY <1>6 DEF Return
<1>7. CASE \/ \E h \in Handles, c \in Commands : SendAccepted(h, c)
           \/ \E h \in Handles, c \in Commands : SendDropped(h, c)
           \/ \E h \in Handles : Count(h)
           \/ \E h \in Handles : Clone(h)
           \/ \E h \in Handles : DropHandle(h)
           \/ \E h \in Handles : DirectMut(h)
           \/ DropQueue
           \/ DropCell
           \/ EnvStep
           \/ \E o \in Deferred : Claim(o)
           \/ HandlerReturns
           \/ Publish
           \/ SelectCancel
           \/ SelectCommandsClosed
           \/ \E s \in Sources : SelectSource(s)
           \/ \E s \in Sources : SelectSourceClosed(s)
           \/ \E D \in SUBSET parked : BeginTurn(D)
           \/ CountProcessed
           \/ DrainEnd
           \/ ExitCheck
           \/ ExpirerStops
           \/ ExpirerAborted
           \/ \E o \in Deferred : Expire(o)
           \/ UNCHANGED vars
  BY <1>7 DEF MaySend, SendAccepted, SendDropped, Count, Clone, DropHandle,
     DirectMut, DropQueue, DropCell, EnvStep, Claim, HandlerReturns,
     Publish, SelectCancel, SelectCommandsClosed, SelectSource,
     SelectSourceClosed, BeginTurn, CountProcessed, DrainEnd, Break,
     ExitCheck, Break, ExpirerStops, ExpirerAborted, Expire, vars
<1> QED
  BY <1>1, <1>2, <1>3, <1>4, <1>5, <1>6, <1>7
  DEF Next, CallerStep, DropStep, TurnStep, LoopStep, ExpirerStep

(* Steps keep every command in one place (handlers.rs:1572-1582, 992-1018). *)
LEMMA PlaceNext == TypeOK /\ LockInv /\ PlaceInv /\ [Next]_vars => PlaceInv'
<1> SUFFICES ASSUME TypeOK, LockInv, PlaceInv, [Next]_vars
             PROVE  PlaceInv'
  OBVIOUS
<1> USE ServiceAssumption, QueueKept DEF TypeOK, LockInv, PlaceInv, InHand,
        Immediately, Commands, Ops, channel, lock, cell, flags, env, metrics
<1>1. ASSUME NEW h \in Handles, NEW c \in Commands, SendAccepted(h, c)
      PROVE  PlaceInv'
  BY <1>1, AppendQueue DEF SendAccepted, MaySend
<1>2. ASSUME NEW h \in Handles, DirectMut(h) PROVE PlaceInv'
  BY <1>2 DEF DirectMut
<1>3. CASE DropQueue
  BY <1>3, QueueDropped DEF DropQueue
<1>4. CASE DropCell
  BY <1>4 DEF DropCell
<1>5. ASSUME NEW o \in Deferred, Claim(o) PROVE PlaceInv'
  BY <1>5 DEF Claim
<1>6. CASE HandlerReturns
  BY <1>6 DEF HandlerReturns
<1>7. CASE Publish
  BY <1>7 DEF Publish
<1>8. CASE Flush
  BY <1>8 DEF Flush
<1>9. CASE Panic
  BY <1>9 DEF Panic, LoopDies
<1>10. CASE SelectCancel
  BY <1>10 DEF SelectCancel
<1>11. CASE SelectCommand \/ DrainNext
  <2>1. /\ InQueue = InQueue' \cup {hand'} /\ hand' \in Commands
        /\ Distinct'
        /\ hand' \in Ops => hand' \notin InQueue'
    BY <1>11, TailQueue, HeadTailProperties DEF SelectCommand, DrainNext,
       Receive
  <2>2. /\ UNCHANGED <<sent, parked, claimed>>
        /\ loop' = "lock" /\ turn' = turn
    BY <1>11 DEF SelectCommand, DrainNext, Receive
  <2>3. InHand' = {hand'} /\ hand' \in InQueue
    BY <2>1, <2>2
  <2> HIDE DEF InHand, Immediately, Commands
  <2> QED  BY <2>1, <2>2, <2>3
<1>12. CASE SelectCommandsClosed
  BY <1>12 DEF SelectCommandsClosed
<1>13. ASSUME NEW s \in Sources, SelectSource(s) PROVE PlaceInv'
  BY <1>13 DEF SelectSource
<1>14. ASSUME NEW s \in Sources, SelectSourceClosed(s) PROVE PlaceInv'
  BY <1>14 DEF SelectSourceClosed
<1>15. ASSUME NEW D \in SUBSET parked, BeginTurn(D) PROVE PlaceInv'
  BY <1>15 DEF BeginTurn
<1>16. CASE FindPoisoned
  BY <1>16 DEF FindPoisoned, LoopDies
<1>17. CASE CountProcessed
  BY <1>17 DEF CountProcessed
<1>18. CASE DrainEnd
  BY <1>18 DEF DrainEnd, Break
<1>19. CASE ExitCheck
  BY <1>19 DEF ExitCheck, Break
<1>20. CASE Close
  BY <1>20 DEF Close
<1>21. CASE Return
  BY <1>21 DEF Return
<1>22. ASSUME NEW o \in Deferred, Expire(o) PROVE PlaceInv'
  BY <1>22 DEF Expire
<1>23. CASE \/ \E h \in Handles, c \in Commands : SendDropped(h, c)
            \/ \E h \in Handles : Count(h)
            \/ \E h \in Handles : Clone(h)
            \/ \E h \in Handles : DropHandle(h)
            \/ EnvStep
            \/ ExpirerStops
            \/ ExpirerAborted
            \/ UNCHANGED vars
  BY <1>23 DEF SendDropped, Count, Clone, DropHandle, EnvStep, ExpirerStops,
     ExpirerAborted, vars
<1> QED
  BY <1>1, <1>2, <1>3, <1>4, <1>5, <1>6, <1>7, <1>8, <1>9, <1>10, <1>11,
     <1>12, <1>13, <1>14, <1>15, <1>16, <1>17, <1>18, <1>19, <1>20, <1>21,
     <1>22, <1>23
  DEF Next, CallerStep, DropStep, TurnStep, LoopStep, ExpirerStep

(* Steps forget no pending operation (op.rs:166-172). *)
LEMMA AccountNext ==
    TypeOK /\ LockInv /\ CloseInv /\ PlaceInv /\ OpsAccounted /\ [Next]_vars
        => OpsAccounted'
<1> SUFFICES ASSUME TypeOK, LockInv, CloseInv, PlaceInv, OpsAccounted,
                    [Next]_vars
             PROVE  OpsAccounted'
  OBVIOUS
<1> USE ServiceAssumption, QueueKept DEF TypeOK, LockInv, CloseInv, PlaceInv,
        OpsAccounted, InHand, Immediately, Commands, Ops, Dropped, Born,
        channel, lock, cell, flags, env, metrics
<1>1. ASSUME NEW h \in Handles, NEW c \in Commands, SendAccepted(h, c)
      PROVE  OpsAccounted'
  BY <1>1, AppendQueue DEF SendAccepted, MaySend
<1>2. ASSUME NEW h \in Handles, NEW c \in Commands, SendDropped(h, c)
      PROVE  OpsAccounted'
  BY <1>2 DEF SendDropped, MaySend
<1>3. ASSUME NEW h \in Handles, DirectMut(h) PROVE OpsAccounted'
  BY <1>3 DEF DirectMut
<1>4. CASE DropQueue
  BY <1>4, QueueDropped DEF DropQueue
<1>5. CASE DropCell
  BY <1>5 DEF DropCell
<1>6. ASSUME NEW o \in Deferred, Claim(o) PROVE OpsAccounted'
  BY <1>6 DEF Claim
<1>7. CASE HandlerReturns
  BY <1>7 DEF HandlerReturns
<1>8. CASE Publish
  BY <1>8 DEF Publish
<1>9. CASE Flush
  BY <1>9 DEF Flush
<1>10. CASE Panic
  BY <1>10 DEF Panic, LoopDies
<1>11. CASE SelectCancel
  BY <1>11 DEF SelectCancel
<1>12. CASE SelectCommand \/ DrainNext
  BY <1>12, TailQueue, HeadTailProperties DEF SelectCommand, DrainNext,
     Receive
<1>13. CASE SelectCommandsClosed
  BY <1>13 DEF SelectCommandsClosed
<1>14. ASSUME NEW s \in Sources, SelectSource(s) PROVE OpsAccounted'
  BY <1>14 DEF SelectSource
<1>15. ASSUME NEW s \in Sources, SelectSourceClosed(s) PROVE OpsAccounted'
  BY <1>15 DEF SelectSourceClosed
<1>16. ASSUME NEW D \in SUBSET parked, BeginTurn(D) PROVE OpsAccounted'
  BY <1>16 DEF BeginTurn
<1>17. CASE FindPoisoned
  BY <1>17 DEF FindPoisoned, LoopDies
<1>18. CASE CountProcessed
  BY <1>18 DEF CountProcessed
<1>19. CASE DrainEnd
  BY <1>19 DEF DrainEnd, Break
<1>20. CASE ExitCheck
  BY <1>20 DEF ExitCheck, Break
<1>21. CASE Close
  BY <1>21 DEF Close
<1>22. CASE Return
  BY <1>22 DEF Return
<1>23. ASSUME NEW o \in Deferred, Expire(o) PROVE OpsAccounted'
  BY <1>23 DEF Expire
<1>24. CASE \/ \E h \in Handles : Count(h)
            \/ \E h \in Handles : Clone(h)
            \/ \E h \in Handles : DropHandle(h)
            \/ EnvStep
            \/ ExpirerStops
            \/ ExpirerAborted
            \/ UNCHANGED vars
  <2>1. UNCHANGED <<st, queue, parked, claimed, loop, hand, turn, holder>>
    BY <1>24 DEF Count, Clone, DropHandle, EnvStep, ExpirerStops,
       ExpirerAborted, vars
  <2>2. InQueue' = InQueue /\ Immediately' = Immediately
    BY <2>1, QueueKept DEF Immediately
  <2> HIDE DEF Immediately
  <2> QED  BY <2>1, <2>2 DEF OpsAccounted
<1> QED
  BY <1>1, <1>2, <1>3, <1>4, <1>5, <1>6, <1>7, <1>8, <1>9, <1>10, <1>11,
     <1>12, <1>13, <1>14, <1>15, <1>16, <1>17, <1>18, <1>19, <1>20, <1>21,
     <1>22, <1>23, <1>24
  DEF Next, CallerStep, DropStep, TurnStep, LoopStep, ExpirerStep

(* What is concluded is shown already (handlers.rs:994-1002). *)
LEMMA ViewNext ==
    TypeOK /\ LockInv /\ PlaceInv /\ OpsAccounted /\ ViewInv /\ [Next]_vars
        => ViewInv'
<1> SUFFICES ASSUME TypeOK, LockInv, PlaceInv, OpsAccounted, ViewInv,
                    [Next]_vars
             PROVE  ViewInv'
  OBVIOUS
<1> USE ServiceAssumption DEF TypeOK, LockInv, OpsAccounted, ViewInv,
        ConcludedShown, Immediately, Ops, Dropped, Born, channel, lock, cell,
        flags, env, metrics
<1>1. ASSUME NEW h \in Handles, NEW c \in Commands, SendAccepted(h, c)
      PROVE  ViewInv'
  BY <1>1 DEF SendAccepted, MaySend
<1>2. ASSUME NEW h \in Handles, NEW c \in Commands, SendDropped(h, c)
      PROVE  ViewInv'
  BY <1>2 DEF SendDropped, MaySend
<1>3. CASE DropQueue
  BY <1>3 DEF DropQueue
<1>4. CASE DropCell
  BY <1>4 DEF DropCell
<1>5. ASSUME NEW o \in Deferred, Claim(o) PROVE ViewInv'
  BY <1>5 DEF Claim
<1>6. CASE HandlerReturns
  BY <1>6 DEF HandlerReturns
<1>7. CASE Publish
  BY <1>7 DEF Publish
<1>8. CASE Flush
  BY <1>8 DEF Flush
<1>9. CASE Panic
  BY <1>9 DEF Panic, LoopDies
<1>10. ASSUME NEW D \in SUBSET parked, BeginTurn(D) PROVE ViewInv'
  BY <1>10 DEF BeginTurn
<1>11. CASE FindPoisoned
  BY <1>11 DEF FindPoisoned, LoopDies
<1>12. CASE Close
  BY <1>12 DEF Close
<1>13. ASSUME NEW o \in Deferred, Expire(o) PROVE ViewInv'
  BY <1>13 DEF Expire
<1>14. CASE \/ \E h \in Handles : Count(h)
            \/ \E h \in Handles : Clone(h)
            \/ \E h \in Handles : DropHandle(h)
            \/ \E h \in Handles : DirectMut(h)
            \/ EnvStep
            \/ SelectCancel
            \/ SelectCommand \/ DrainNext
            \/ SelectCommandsClosed
            \/ \E s \in Sources : SelectSource(s)
            \/ \E s \in Sources : SelectSourceClosed(s)
            \/ CountProcessed
            \/ DrainEnd
            \/ ExitCheck
            \/ Return
            \/ ExpirerStops
            \/ ExpirerAborted
            \/ UNCHANGED vars
  BY <1>14 DEF Count, Clone, DropHandle, DirectMut, EnvStep, SelectCancel,
     SelectCommand, DrainNext, Receive, SelectCommandsClosed, SelectSource,
     SelectSourceClosed, CountProcessed, DrainEnd, Break, ExitCheck, Break,
     Return, ExpirerStops, ExpirerAborted, vars
<1> QED
  BY <1>1, <1>2, <1>3, <1>4, <1>5, <1>6, <1>7, <1>8, <1>9, <1>10, <1>11,
     <1>12, <1>13, <1>14
  DEF Next, CallerStep, DropStep, TurnStep, LoopStep, ExpirerStep

(* Steps keep the books of the queue balanced (handlers.rs:611-617).       *)
LEMMA DepthNext ==
    TypeOK /\ LockInv /\ DepthConserved /\ [Next]_vars => DepthConserved'
<1> SUFFICES ASSUME TypeOK, LockInv, DepthConserved, [Next]_vars
             PROVE  DepthConserved'
  OBVIOUS
<1> USE ServiceAssumption DEF TypeOK, LockInv, DepthConserved, channel, lock,
        cell, flags, env, metrics
<1> DEFINE Uncounted == {h \in Handles : counting[h] # None}
<1>0. IsFiniteSet(Uncounted) /\ Cardinality(Uncounted) \in Nat
  BY FS_Subset, FS_CardinalityType
<1>after. DepthConserved' <=>
        (rxOpen' => depth' + Cardinality(Uncounted') =
            Len(queue') + (IF hand' \in Commands THEN 1 ELSE 0))
  OBVIOUS
<1>before. rxOpen => depth + Cardinality(Uncounted) =
            Len(queue) + (IF hand \in Commands THEN 1 ELSE 0)
  OBVIOUS
<1>1. ASSUME NEW h \in Handles, NEW c \in Commands, SendAccepted(h, c)
      PROVE  DepthConserved'
  <2>1. Uncounted' = Uncounted \cup {h} /\ h \notin Uncounted
    BY <1>1 DEF SendAccepted, MaySend
  <2> HIDE DEF Uncounted, DepthConserved
  <2>2. Cardinality(Uncounted') = Cardinality(Uncounted) + 1
    BY <2>1, <1>0, FS_AddElement
  <2>3. Len(queue') = Len(queue) + 1
    BY <1>1, AppendQueue DEF SendAccepted, MaySend
  <2> QED
    BY <1>after, <1>before, <1>1, <1>0, <2>2, <2>3 DEF SendAccepted, MaySend
<1>2. ASSUME NEW h \in Handles, Count(h) PROVE DepthConserved'
  <2>1. Uncounted' = Uncounted \ {h} /\ h \in Uncounted
    BY <1>2 DEF Count
  <2> HIDE DEF Uncounted, DepthConserved
  <2>2. Cardinality(Uncounted') = Cardinality(Uncounted) - 1
    BY <2>1, <1>0, FS_RemoveElement
  <2> QED
    BY <1>after, <1>before, <1>2, <1>0, <2>2 DEF Count
<1>3. CASE DropQueue
  BY <1>3 DEF DropQueue
<1>4. CASE Flush
  BY <1>4 DEF Flush
<1>5. CASE Panic
  BY <1>5 DEF Panic, LoopDies
<1>6. CASE SelectCommand \/ DrainNext
  <2>1. Len(queue') = Len(queue) - 1 /\ hand' \in Commands
    BY <1>6, TailQueue, HeadTailProperties
    DEF SelectCommand, DrainNext, Receive
  <2>2. /\ hand \notin Commands
        /\ UNCHANGED <<rxOpen, depth, counting>>
    BY <1>6 DEF SelectCommand, DrainNext, Receive
  <2>3. Uncounted' = Uncounted
    BY <2>2
  <2> HIDE DEF Uncounted, DepthConserved
  <2> QED
    BY <1>after, <1>before, <1>0, <2>1, <2>2, <2>3
<1>7. ASSUME NEW s \in Sources, SelectSource(s) PROVE DepthConserved'
  BY <1>7 DEF SelectSource
<1>8. CASE FindPoisoned
  BY <1>8 DEF FindPoisoned, LoopDies
<1>9. CASE CountProcessed
  <2>1. /\ depth' = depth - 1 /\ hand \in Commands /\ hand' \notin Commands
        /\ UNCHANGED <<rxOpen, queue, counting>>
    BY <1>9 DEF CountProcessed
  <2>2. Uncounted' = Uncounted
    BY <2>1
  <2> HIDE DEF Uncounted, DepthConserved
  <2> QED
    BY <1>after, <1>before, <1>0, <2>1, <2>2
<1>10. CASE Return
  BY <1>10 DEF Return
<1>11. CASE \/ \E h \in Handles, c \in Commands : SendDropped(h, c)
            \/ \E h \in Handles : Clone(h)
            \/ \E h \in Handles : DropHandle(h)
            \/ \E h \in Handles : DirectMut(h)
            \/ DropCell
            \/ EnvStep
            \/ \E o \in Deferred : Claim(o)
            \/ HandlerReturns
            \/ Publish
            \/ SelectCancel
            \/ SelectCommandsClosed
            \/ \E s \in Sources : SelectSourceClosed(s)
            \/ \E D \in SUBSET parked : BeginTurn(D)
            \/ DrainEnd
            \/ ExitCheck
            \/ Close
            \/ ExpirerStops
            \/ ExpirerAborted
            \/ \E o \in Deferred : Expire(o)
            \/ UNCHANGED vars
  BY <1>11 DEF SendDropped, Clone, DropHandle, DirectMut, DropCell, EnvStep,
     Claim, HandlerReturns, Publish, SelectCancel, SelectCommandsClosed,
     SelectSourceClosed, BeginTurn, DrainEnd, Break, ExitCheck, Break,
     Close, ExpirerStops, ExpirerAborted, Expire, vars
<1> QED
  BY <1>1, <1>2, <1>3, <1>4, <1>5, <1>6, <1>7, <1>8, <1>9, <1>10, <1>11
  DEF Next, CallerStep, DropStep, TurnStep, LoopStep, ExpirerStep

------------------------------------------------------------------------------
(* The parts of the invariant together are inductive. *)
THEOREM ServiceInvariant == Spec => []IInv
<1>1. IInv /\ [Next]_vars => IInv'
  BY TypeNext, LockNext, CauseNext, StopsNext, CloseNext, PlaceNext,
     AccountNext, ViewNext, DepthNext
  DEF IInv
<1> QED  BY InitInv, <1>1, PTL DEF Spec

(* The service stays well typed, its queue within its capacity              *)
(* (runtime.rs:19-45).                                                      *)
THEOREM ServiceTyped == Spec => []TypeOK
<1>1. IInv => TypeOK
  BY DEF IInv
<1> QED  BY <1>1, ServiceInvariant, PTL

(* Short of a panic the loop winds down only when cancelled, or when        *)
(* nothing can reach it (lib.rs:9-11, handlers.rs:1036-1070).               *)
THEOREM WindsDownForCause == Spec => []StopsForCause
<1>1. IInv => StopsForCause
  BY DEF IInv
<1> QED  BY <1>1, ServiceInvariant, PTL

(* What is seen concluded is in the published view (handlers.rs:994-1002). *)
THEOREM ShownBeforeConcluded == Spec => []ConcludedShown
<1>1. IInv => ConcludedShown
  BY DEF IInv, ViewInv
<1> QED  BY <1>1, ServiceInvariant, PTL

(* No pending operation is forgotten (op.rs:134-138, 166-172). *)
THEOREM NothingForgotten == Spec => []OpsAccounted
<1>1. IInv => OpsAccounted
  BY DEF IInv
<1> QED  BY <1>1, ServiceInvariant, PTL

(* The depth of the queue is what the counters say, but for the sends still *)
(* to be counted (metrics.rs:3-5, handlers.rs:611-617).                     *)
THEOREM BooksBalance == Spec => []DepthConserved
<1>1. IInv => DepthConserved
  BY DEF IInv
<1> QED  BY <1>1, ServiceInvariant, PTL

(* No operation reaches a closed cell (op.rs:246-248,                       *)
(* handlers.rs:1072-1076).                                                  *)
THEOREM ClosesLast == Spec => []NoLateInsert
<1>1. IInv => NoLateInsert
  BY DEF IInv, CloseInv, NoLateInsert
<1> QED  BY <1>1, ServiceInvariant, PTL
==============================================================================

--------------------------- MODULE OpsCell_proofs ---------------------------
(* Theorems about OpsCell, for every set of operations, methods and keys   *)
(* and every bound on the clock.                                           *)
EXTENDS OpsCell, TLAPS

(* Removing entries keeps the registries well typed (op.rs:483-490). *)
LEMMA RemoveType ==
    ASSUME TypeOK, NEW S \in SUBSET Slots, Remove(S)
    PROVE  /\ byKey' \in [Slots -> Ops \cup {NoOp}]
           /\ deadlines' \in SUBSET (L!Time \X Slots)
  BY DEF TypeOK, Remove

(* Dropping resolvers leaves every operation in a state of OpState         *)
(* (op.rs:166-172).                                                        *)
LEMMA DroppedType ==
    ASSUME TypeOK, NEW S
    PROVE  Dropped(S) \in [Ops -> L!OpState]
  BY DEF TypeOK, L!TypeOK, Dropped, L!OpState, L!Terminal

(* What Registry::insert adds to the index is well typed (op.rs:467-469).  *)
LEMMA IndexType ==
    ASSUME TypeOK, NEW o \in Ops \cup {NoOp}, NEW s \in Slots
    PROVE  Index(o, s) \in SUBSET (L!Time \X Slots)
<1>1. CASE o = NoOp \/ dl[o] = NoDeadline
  BY <1>1 DEF Index
<1>2. CASE ~(o = NoOp \/ dl[o] = NoDeadline)
  <2>1. dl[o] \in L!Time
    BY <1>2 DEF TypeOK, L!TypeOK, L!Deadline
  <2>2. Index(o, s) = {<<dl[o], s>>}
    BY <1>2 DEF Index
  <2> QED  BY <2>1, <2>2
<1> QED  BY <1>1, <1>2

LEMMA TypeInit == Init => TypeOK
<1> SUFFICES ASSUME Init PROVE TypeOK
  OBVIOUS
<1>1. 0 \in L!Time /\ NoDeadline \in L!Deadline
  BY OpsCellAssumption DEF L!Time, L!Deadline
<1>2. L!TypeOK
  BY <1>1 DEF Init, L!Init, L!TypeOK, L!OpState
<1> QED
  BY <1>1, <1>2 DEF Init, TypeOK, WriterPc, ExpirerPc

LEMMA TypeNext == TypeOK /\ [Next]_vars => TypeOK'
<1> SUFFICES ASSUME TypeOK, [Next]_vars
             PROVE  TypeOK'
  OBVIOUS
<1> USE OpsCellAssumption
    DEF TypeOK, L!TypeOK, opVars, entries, writer, closing, expirer,
        WriterPc, ExpirerPc
<1>1. ASSUME NEW o \in Ops, NEW d \in L!Deadline, Start(o, d) PROVE TypeOK'
  BY <1>1 DEF Start, L!Begin, L!OpState, L!Terminal
<1>2. ASSUME NEW o \in Ops, DropSent(o) PROVE TypeOK'
  BY <1>2, DroppedType DEF DropSent
<1>3. ASSUME NEW s \in Slots, NEW outcome \in {"Done", "Failed"},
             Claim(s, outcome) PROVE TypeOK'
  <2>1. Remove({s})
    BY <1>3 DEF Claim
  <2> QED  BY <1>3, <2>1, RemoveType DEF Claim
<1>4. CASE Cancel
  BY <1>4 DEF Cancel
<1>5. CASE Tick
  BY <1>5 DEF Tick, L!Tick, L!Time
<1>6. CASE Discard
  BY <1>6, DroppedType DEF Discard
<1>7. CASE BeginTurn
  BY <1>7 DEF BeginTurn
<1>8. ASSUME NEW o \in Ops, BeginOp(o) PROVE TypeOK'
  BY <1>8 DEF BeginOp
<1>9. ASSUME NEW s \in Slots, Insert(s) PROVE TypeOK'
  BY <1>9, DroppedType, IndexType DEF Insert
<1>10. CASE InsertClosed
  BY <1>10, DroppedType DEF InsertClosed
<1>11. CASE Notify
  BY <1>11 DEF Notify
<1>12. ASSUME NEW outcome \in {"Done", "Failed"}, ImmediateOutcome(outcome)
       PROVE  TypeOK'
  BY <1>12 DEF ImmediateOutcome
<1>13. CASE HandlerReturns
  BY <1>13 DEF HandlerReturns
<1>14. CASE Panic
  BY <1>14, DroppedType DEF Panic
<1>15. ASSUME NEW o \in Ops, FlushOne(o) PROVE TypeOK'
  BY <1>15 DEF FlushOne, L!OpState, L!Terminal
<1>16. CASE EndTurn
  BY <1>16 DEF EndTurn
<1>17. CASE CloseFlag
  BY <1>17 DEF CloseFlag
<1>18. CASE CloseLock
  BY <1>18 DEF CloseLock
<1>19. ASSUME NEW m \in Methods, Drain(m) PROVE TypeOK'
  <2> DEFINE S == {s \in Slots : MethodOf(s) = m}
  <2>1. Remove(S)
    BY <1>19 DEF Drain
  <2> QED  BY <1>19, <2>1, RemoveType, DroppedType DEF Drain
<1>20. CASE CloseEnd
  BY <1>20 DEF CloseEnd
<1>21. CASE Listen
  BY <1>21 DEF Listen
<1>22. CASE Check
  BY <1>22 DEF Check
<1>23. ASSUME NEW m \in Methods, Scan(m) PROVE TypeOK'
  BY <1>23 DEF Scan
<1>24. CASE ScanEnd
  BY <1>24 DEF ScanEnd
<1>25. CASE Wake
  BY <1>25 DEF Wake, L!Deadline
<1>26. CASE Recheck
  BY <1>26 DEF Recheck, L!Time
<1>27. CASE ExpireLock
  BY <1>27 DEF ExpireLock
<1>28. ASSUME NEW m \in Methods, Sweep(m) PROVE TypeOK'
  <2> DEFINE S == {s \in Slots : MethodOf(s) = m
                       /\ \E d \in deadlines : d[2] = s /\ Overdue(d[1])}
  <2>1. Remove(S)
    BY <1>28 DEF Sweep
  <2> QED  BY <1>28, <2>1, RemoveType DEF Sweep
<1>29. ASSUME NEW o \in Ops, FailDue(o) PROVE TypeOK'
  BY <1>29 DEF FailDue, L!OpState, L!Terminal
<1>30. CASE SweepEnd
  BY <1>30 DEF SweepEnd, L!Time
<1>31. CASE UNCHANGED vars
  BY <1>31 DEF vars
<1>32. QED
  BY <1>1, <1>2, <1>3, <1>4, <1>5, <1>6, <1>7, <1>8, <1>9, <1>10, <1>11,
     <1>12, <1>13, <1>14, <1>15, <1>16, <1>17, <1>18, <1>19, <1>20, <1>21,
     <1>22, <1>23, <1>24, <1>25, <1>26, <1>27, <1>28, <1>29, <1>30, <1>31
  DEF Next, CallerStep, WriterStep, TurnStep, ExpirerStep, ClaimInDirect,
      ClaimInHandler

(* The cell's state stays well typed. *)
THEOREM TypeCorrect == Spec => []TypeOK
  BY TypeInit, TypeNext, PTL DEF Spec

------------------------------------------------------------------------------
(* OneResolver. *)

(* Steps that touch neither the operations nor any resolver. *)
LEMMA HeldUnchanged ==
    ASSUME OneResolver, UNCHANGED <<st, sent, cur, byKey, queued, due>>
    PROVE  OneResolver'
  BY DEF OneResolver, HeldIsPending, HeldOnce, IsParked, IsQueued

LEMMA OneResolverInit == Init => OneResolver
  BY OpsCellAssumption
  DEF Init, L!Init, OneResolver, HeldIsPending, HeldOnce, IsParked, IsQueued

(* The writer has an operation in hand from the start of its command to the *)
(* insert, or to the handler's return, and at no other time.               *)
TurnInv ==
    /\ cur # NoOp => wpc \in {"insert", "handler"}
    /\ wpc = "insert" => cur # NoOp

LEMMA TurnInit == Init => TurnInv
  BY DEF Init, TurnInv

LEMMA TurnNext == TypeOK /\ TurnInv /\ [Next]_vars => TurnInv'
<1> SUFFICES ASSUME TypeOK, TurnInv, [Next]_vars
             PROVE  TurnInv'
  OBVIOUS
<1> USE OpsCellAssumption DEF TypeOK, TurnInv, writer
<1>1. CASE CallerStep
  BY <1>1 DEF CallerStep, Start, DropSent, ClaimInDirect, Claim, Cancel, Tick,
              Discard
<1>2. CASE WriterStep /\ ~TurnStep
  BY <1>2 DEF WriterStep, BeginTurn, BeginOp, ClaimInHandler, Claim, Panic,
              CloseFlag
<1>3. CASE TurnStep
  BY <1>3 DEF TurnStep, Insert, InsertClosed, Notify, ImmediateOutcome,
              HandlerReturns, FlushOne, EndTurn, CloseLock, Drain, CloseEnd
<1>4. CASE ExpirerStep
  BY <1>4 DEF ExpirerStep, Listen, Check, Scan, ScanEnd, Wake, Recheck,
              ExpireLock, Sweep, FailDue, SweepEnd
<1>5. CASE UNCHANGED vars
  BY <1>5 DEF vars
<1> QED  BY <1>1, <1>2, <1>3, <1>4, <1>5 DEF Next, WriterStep

(* Overdue operations exist only inside a sweep, and are overdue. *)
DueInv ==
    /\ due # {} => epc = "sweep"
    /\ sweepNow <= now
    /\ \A o \in due : dl[o] # NoDeadline /\ dl[o] <= sweepNow

LEMMA OneResolverNext ==
    TypeOK /\ TurnInv /\ DueInv /\ OneResolver /\ [Next]_vars => OneResolver'
<1> SUFFICES ASSUME TypeOK, TurnInv, DueInv, OneResolver, [Next]_vars
             PROVE  OneResolver'
  OBVIOUS
<1> USE OpsCellAssumption
    DEF TypeOK, L!TypeOK, OneResolver, HeldIsPending, HeldOnce, IsParked,
        IsQueued, opVars, entries, writer, closing, expirer
<1>1. ASSUME NEW o \in Ops, NEW d \in L!Deadline, Start(o, d)
      PROVE  OneResolver'
  BY <1>1 DEF Start, L!Begin
<1>2. ASSUME NEW o \in Ops, DropSent(o) PROVE OneResolver'
  BY <1>2 DEF DropSent, Dropped
<1>3. ASSUME NEW s \in Slots, NEW outcome \in {"Done", "Failed"},
             Claim(s, outcome) PROVE OneResolver'
  BY <1>3 DEF Claim, Remove
<1>4. CASE Discard
  BY <1>4 DEF Discard, Dropped, TurnInv, DueInv
<1>5. ASSUME NEW o \in Ops, BeginOp(o) PROVE OneResolver'
  BY <1>5 DEF BeginOp, TurnInv
<1>6. ASSUME NEW s \in Slots, Insert(s) PROVE OneResolver'
  BY <1>6 DEF Insert, Dropped, TurnInv
<1>7. CASE InsertClosed
  BY <1>7 DEF InsertClosed, Dropped
<1>8. ASSUME NEW outcome \in {"Done", "Failed"}, ImmediateOutcome(outcome)
      PROVE  OneResolver'
  BY <1>8 DEF ImmediateOutcome
<1>9. CASE Panic
  BY <1>9 DEF Panic, Dropped
<1>10. ASSUME NEW o \in Ops, FlushOne(o) PROVE OneResolver'
  BY <1>10 DEF FlushOne
<1>11. ASSUME NEW m \in Methods, Drain(m) PROVE OneResolver'
  BY <1>11 DEF Drain, Remove, Dropped
<1>12. ASSUME NEW m \in Methods, Sweep(m) PROVE OneResolver'
  BY <1>12 DEF Sweep, Remove
<1>13. ASSUME NEW o \in Ops, FailDue(o) PROVE OneResolver'
  BY <1>13 DEF FailDue
<1>14. CASE UNCHANGED <<st, sent, cur, byKey, queued, due>>
  BY <1>14, HeldUnchanged
<1>15. CASE CallerStep
  BY <1>15, <1>1, <1>2, <1>3, <1>4, <1>14
  DEF CallerStep, ClaimInDirect, Cancel, Tick, L!Tick
<1>16. CASE WriterStep /\ ~TurnStep
  BY <1>16, <1>3, <1>5, <1>9, <1>14
  DEF WriterStep, ClaimInHandler, BeginTurn, CloseFlag
<1>17. CASE TurnStep
  BY <1>17, <1>6, <1>7, <1>8, <1>10, <1>11, <1>14
  DEF TurnStep, Notify, HandlerReturns, EndTurn, CloseLock, CloseEnd
<1>18. CASE ExpirerStep
  BY <1>18, <1>12, <1>13, <1>14
  DEF ExpirerStep, Listen, Check, Scan, ScanEnd, Wake, Recheck, ExpireLock,
      SweepEnd
<1>19. CASE UNCHANGED vars
  BY <1>19, <1>14 DEF vars
<1> QED
  BY <1>15, <1>16, <1>17, <1>18, <1>19 DEF Next, WriterStep

------------------------------------------------------------------------------
(* IndexConsistent and DueInv. *)

LEMMA IndexInit == Init => IndexConsistent
  BY DEF Init, IndexConsistent

(* Entries::remove on any set of keys keeps the index exact. *)
LEMMA RemoveIndex ==
    ASSUME TypeOK, IndexConsistent, NEW S \in SUBSET Slots, Remove(S), dl' = dl
    PROVE  IndexConsistent'
<1> SUFFICES ASSUME NEW s \in Slots, NEW t \in L!Time
             PROVE  <<t, s>> \in deadlines' <=> byKey'[s] # NoOp /\ dl[byKey'[s]] = t
  BY DEF IndexConsistent
<1>1. NoDeadline \notin L!Time
  BY OpsCellAssumption DEF L!Time
<1>2. <<t, s>> \in UNION {Index(byKey[r], r) : r \in S}
        <=> s \in S /\ <<t, s>> \in Index(byKey[s], s)
  <2>1. \A r \in S : <<t, s>> \in Index(byKey[r], r) => r = s
    BY DEF Index
  <2> QED  BY <2>1
<1>3. <<t, s>> \in Index(byKey[s], s) <=> byKey[s] # NoOp /\ dl[byKey[s]] = t
  BY <1>1 DEF Index
<1>4. <<t, s>> \in deadlines' <=>
        <<t, s>> \in deadlines /\ ~(s \in S /\ <<t, s>> \in Index(byKey[s], s))
  BY <1>2 DEF Remove
<1> QED
  BY <1>3, <1>4 DEF IndexConsistent, Remove, TypeOK

LEMMA IndexNext ==
    TypeOK /\ TurnInv /\ OneResolver /\ IndexConsistent /\ [Next]_vars
        => IndexConsistent'
<1> SUFFICES ASSUME TypeOK, TurnInv, OneResolver, IndexConsistent, [Next]_vars
             PROVE  IndexConsistent'
  OBVIOUS
<1> USE OpsCellAssumption DEF opVars, entries, writer, closing, expirer
<1>1. CASE UNCHANGED <<byKey, deadlines, dl>>
  BY <1>1 DEF IndexConsistent
<1>2. ASSUME NEW o \in Ops, NEW d \in L!Deadline, Start(o, d)
      PROVE  IndexConsistent'
  <2>1. \A s \in Slots : byKey[s] # o
    BY <1>2 DEF Start, L!Begin, OneResolver, HeldIsPending, IsParked
  <2>2. \A s \in Slots : byKey[s] # NoOp => dl'[byKey[s]] = dl[byKey[s]]
    BY <1>2, <2>1 DEF Start, L!Begin, TypeOK, L!TypeOK
  <2> QED  BY <1>2, <2>2 DEF Start, IndexConsistent
<1>3. ASSUME NEW s \in Slots, NEW outcome, Claim(s, outcome)
      PROVE  IndexConsistent'
  BY <1>3, RemoveIndex DEF Claim
<1>4. CASE Discard
  BY <1>4 DEF Discard, IndexConsistent
<1>5. ASSUME NEW s \in Slots, Insert(s) PROVE IndexConsistent'
  <2>1. cur \in Ops
    BY <1>5 DEF Insert, TurnInv, TypeOK
  <2> SUFFICES ASSUME NEW r \in Slots, NEW t \in L!Time
               PROVE  <<t, r>> \in deadlines'
                          <=> byKey'[r] # NoOp /\ dl[byKey'[r]] = t
    BY <1>5 DEF Insert, IndexConsistent
  <2>2. NoDeadline \notin L!Time
    BY DEF L!Time
  <2>3. CASE r = s
    BY <1>5, <2>1, <2>2, <2>3 DEF Insert, Index, IndexConsistent, TypeOK
  <2>4. CASE r # s
    BY <1>5, <2>4 DEF Insert, Index, IndexConsistent, TypeOK
  <2> QED  BY <2>3, <2>4
<1>6. ASSUME NEW m \in Methods, Drain(m) PROVE IndexConsistent'
  BY <1>6, RemoveIndex DEF Drain
<1>7. ASSUME NEW m \in Methods, Sweep(m) PROVE IndexConsistent'
  BY <1>7, RemoveIndex DEF Sweep
<1>8. CASE CallerStep
  BY <1>8, <1>1, <1>2, <1>3, <1>4
  DEF CallerStep, DropSent, ClaimInDirect, Cancel, Tick, L!Tick
<1>9. CASE WriterStep /\ ~TurnStep
  BY <1>9, <1>1, <1>3
  DEF WriterStep, ClaimInHandler, BeginTurn, BeginOp, Panic, CloseFlag
<1>10. CASE TurnStep
  BY <1>10, <1>1, <1>5, <1>6
  DEF TurnStep, InsertClosed, Notify, ImmediateOutcome, HandlerReturns,
      FlushOne, EndTurn, CloseLock, CloseEnd
<1>11. CASE ExpirerStep
  BY <1>11, <1>1, <1>7
  DEF ExpirerStep, Listen, Check, Scan, ScanEnd, Wake, Recheck, ExpireLock,
      FailDue, SweepEnd
<1>12. CASE UNCHANGED vars
  BY <1>12, <1>1 DEF vars
<1> QED
  BY <1>8, <1>9, <1>10, <1>11, <1>12 DEF Next, WriterStep

LEMMA DueInit == Init => DueInv
  BY DEF Init, L!Init, DueInv

LEMMA DueNext ==
    TypeOK /\ OneResolver /\ IndexConsistent /\ DueInv /\ [Next]_vars => DueInv'
<1> SUFFICES ASSUME TypeOK, OneResolver, IndexConsistent, DueInv, [Next]_vars
             PROVE  DueInv'
  OBVIOUS
<1> USE OpsCellAssumption
    DEF opVars, entries, writer, closing, expirer, DueInv, L!Time
<1>1. CASE UNCHANGED <<due, epc, sweepNow, now, dl>>
  BY <1>1
<1>2. ASSUME NEW o \in Ops, NEW d \in L!Deadline, Start(o, d) PROVE DueInv'
  <2>1. o \notin due
    BY <1>2 DEF Start, L!Begin, OneResolver, HeldIsPending
  <2> QED  BY <1>2, <2>1 DEF Start, L!Begin, TypeOK, L!TypeOK
<1>3. CASE Tick
  BY <1>3 DEF Tick, L!Tick, TypeOK, L!TypeOK
<1>4. CASE Recheck
  BY <1>4 DEF Recheck, TypeOK, L!TypeOK
<1>5. ASSUME NEW m \in Methods, Sweep(m) PROVE DueInv'
  <2> DEFINE S == {s \in Slots : MethodOf(s) = m
                       /\ \E d \in deadlines : d[2] = s /\ Overdue(d[1])}
  <2>1. ASSUME NEW s \in S, byKey[s] # NoOp
        PROVE  dl[byKey[s]] # NoDeadline /\ dl[byKey[s]] <= sweepNow
    <3>1. PICK d \in deadlines : d[2] = s /\ Overdue(d[1])
      OBVIOUS
    <3>2. d = <<d[1], s>> /\ d[1] \in L!Time
      BY <3>1 DEF TypeOK
    <3>3. dl[byKey[s]] = d[1]
      BY <3>1, <3>2 DEF IndexConsistent
    <3> QED  BY <3>1, <3>2, <3>3 DEF Overdue
  <2>2. due' = {byKey[s] : s \in S} \ {NoOp}
    BY <1>5 DEF Sweep
  <2>3. epc' = "sweep" /\ UNCHANGED <<sweepNow, now, dl>>
    BY <1>5 DEF Sweep
  <2> HIDE DEF S
  <2> QED  BY <2>1, <2>2, <2>3
<1>6. ASSUME NEW o \in Ops, FailDue(o) PROVE DueInv'
  BY <1>6 DEF FailDue
<1>7. CASE SweepEnd
  BY <1>7 DEF SweepEnd, TypeOK, L!TypeOK
<1>8. CASE Listen \/ Check \/ ScanEnd \/ Wake \/ ExpireLock
  BY <1>8 DEF Listen, Check, ScanEnd, Wake, ExpireLock
<1>9. CASE CallerStep
  BY <1>9, <1>1, <1>2, <1>3
  DEF CallerStep, DropSent, ClaimInDirect, Claim, Cancel, Discard
<1>10. CASE WriterStep /\ ~TurnStep
  BY <1>10, <1>1
  DEF WriterStep, ClaimInHandler, Claim, BeginTurn, BeginOp, Panic, CloseFlag
<1>11. CASE TurnStep
  BY <1>11, <1>1
  DEF TurnStep, Insert, InsertClosed, Notify, ImmediateOutcome, HandlerReturns,
      FlushOne, EndTurn, CloseLock, Drain, CloseEnd
<1>12. CASE ExpirerStep
  BY <1>12, <1>1, <1>4, <1>5, <1>6, <1>7, <1>8 DEF ExpirerStep, Scan
<1>13. CASE UNCHANGED vars
  BY <1>13, <1>1 DEF vars
<1> QED
  BY <1>9, <1>10, <1>11, <1>12, <1>13 DEF Next, WriterStep

------------------------------------------------------------------------------
(* ClosedIsEmpty. *)

(* Closing is a matter of the loop alone: registries still to drain exist  *)
(* only while it drains, and the drained ones stay empty.                  *)
CloseInv ==
    /\ wpc \in {"closing", "draining"} => closed
    /\ undrained # {} => wpc = "draining"
    /\ closed /\ wpc # "closing" =>
          \A s \in Slots : MethodOf(s) \notin undrained => byKey[s] = NoOp

LEMMA CloseInit == Init => CloseInv
  BY DEF Init, CloseInv

LEMMA CloseNext == TypeOK /\ CloseInv /\ [Next]_vars => CloseInv'
<1> SUFFICES ASSUME TypeOK, CloseInv, [Next]_vars
             PROVE  CloseInv'
  OBVIOUS
<1> USE DEF opVars, entries, writer, closing, expirer, CloseInv
<1>1. CASE UNCHANGED <<wpc, closed, undrained, byKey>>
  BY <1>1
<1>2. ASSUME NEW s \in Slots, NEW outcome, Claim(s, outcome) PROVE CloseInv'
  BY <1>2 DEF Claim, Remove, TypeOK
<1>3. CASE Discard
  BY <1>3 DEF Discard
<1>4. CASE BeginTurn \/ \E o \in Ops : BeginOp(o)
  BY <1>4 DEF BeginTurn, BeginOp
<1>5. CASE Panic
  BY <1>5 DEF Panic
<1>6. CASE CloseFlag
  BY <1>6 DEF CloseFlag
<1>7. ASSUME NEW s \in Slots, Insert(s) PROVE CloseInv'
  BY <1>7 DEF Insert
<1>8. CASE InsertClosed \/ Notify \/ HandlerReturns \/ EndTurn
             \/ \E outcome \in {"Done", "Failed"} : ImmediateOutcome(outcome)
  BY <1>8 DEF InsertClosed, Notify, HandlerReturns, EndTurn, ImmediateOutcome
<1>9. CASE CloseLock
  BY <1>9 DEF CloseLock, Slots, MethodOf
<1>10. ASSUME NEW m \in Methods, Drain(m) PROVE CloseInv'
  BY <1>10 DEF Drain, Remove, TypeOK
<1>11. CASE CloseEnd
  BY <1>11 DEF CloseEnd
<1>12. ASSUME NEW m \in Methods, Sweep(m) PROVE CloseInv'
  BY <1>12 DEF Sweep, Remove, TypeOK
<1>13. CASE CallerStep
  BY <1>13, <1>1, <1>2, <1>3
  DEF CallerStep, Start, DropSent, ClaimInDirect, Cancel, Tick
<1>14. CASE WriterStep /\ ~TurnStep
  BY <1>14, <1>2, <1>4, <1>5, <1>6 DEF WriterStep, ClaimInHandler
<1>15. CASE TurnStep
  BY <1>15, <1>1, <1>7, <1>8, <1>9, <1>10, <1>11 DEF TurnStep, FlushOne
<1>16. CASE ExpirerStep
  BY <1>16, <1>1, <1>12
  DEF ExpirerStep, Listen, Check, Scan, ScanEnd, Wake, Recheck, ExpireLock,
      FailDue, SweepEnd
<1>17. CASE UNCHANGED vars
  BY <1>17, <1>1 DEF vars
<1> QED
  BY <1>13, <1>14, <1>15, <1>16, <1>17 DEF Next, WriterStep

------------------------------------------------------------------------------
(* NoLostWakeup. *)

(* From its listener on, the expirer has accounted for every deadline of   *)
(* the registries it has visited, or it has been notified, or the writer   *)
(* is about to notify it.                                                  *)
ScanInv ==
    /\ epc = "wait" => unread = {}
    /\ epc \in {"scan", "wait"} /\ ~notified /\ wpc # "notify" =>
          \A d \in deadlines :
              MethodOf(d[2]) \notin unread => NotAfter(best, d[1])

LEMMA ScanInit == Init => ScanInv
  BY DEF Init, ScanInv

(* Reading one registry only lowers the earliest deadline found so far.    *)
LEMMA ScanStep ==
    ASSUME TypeOK, ScanInv, NEW m \in Methods, Scan(m)
    PROVE  ScanInv'
<1> USE OpsCellAssumption
<1>1. PICK d \in L!Deadline :
          IsEarliest(d, {best} \cup DeadlinesOf(m)) /\ best' = d
  BY DEF Scan
<1> SUFFICES ASSUME ~notified, wpc # "notify", NEW e \in deadlines,
                    MethodOf(e[2]) \notin unread \ {m}
             PROVE  NotAfter(d, e[1])
  BY <1>1 DEF Scan, ScanInv, expirer, entries, writer
<1>2. e[1] \in L!Time /\ e[1] # NoDeadline
  BY DEF TypeOK, L!Time
<1>3. CASE MethodOf(e[2]) = m
  <2>1. e[1] \in DeadlinesOf(m)
    BY <1>3 DEF DeadlinesOf
  <2> QED  BY <1>1, <1>2, <2>1 DEF IsEarliest
<1>4. CASE MethodOf(e[2]) # m
  <2>1. NotAfter(best, e[1])
    BY <1>4 DEF Scan, ScanInv
  <2>2. best \in L!Time /\ NotAfter(d, best)
    BY <1>1, <2>1 DEF IsEarliest, NotAfter, TypeOK, L!Deadline
  <2>3. d \in L!Time
    BY <2>2 DEF NotAfter, L!Deadline
  <2> QED  BY <1>2, <2>1, <2>2, <2>3 DEF NotAfter, L!Time
<1> QED  BY <1>3, <1>4

LEMMA ScanNext == TypeOK /\ ScanInv /\ [Next]_vars => ScanInv'
<1> SUFFICES ASSUME TypeOK, ScanInv, [Next]_vars
             PROVE  ScanInv'
  OBVIOUS
<1> USE DEF opVars, entries, writer, closing, expirer, ScanInv
<1>1. CASE UNCHANGED <<epc, unread, notified, deadlines, best>>
               /\ (wpc = "notify" => wpc' = "notify")
  BY <1>1
<1>2. ASSUME NEW S \in SUBSET Slots, Remove(S),
             UNCHANGED <<epc, unread, notified, best, wpc>>
      PROVE  ScanInv'
  BY <1>2 DEF Remove
<1>3. ASSUME NEW s \in Slots, NEW outcome, Claim(s, outcome) PROVE ScanInv'
  BY <1>3, <1>2 DEF Claim
<1>4. CASE Discard
  BY <1>4 DEF Discard
<1>5. ASSUME NEW s \in Slots, Insert(s) PROVE ScanInv'
  <2>1. CASE dl[cur] = NoDeadline
    BY <1>5, <2>1 DEF Insert, Index
  <2>2. CASE dl[cur] # NoDeadline
    BY <1>5, <2>2 DEF Insert
  <2> QED  BY <2>1, <2>2
<1>6. CASE Notify
  BY <1>6 DEF Notify
<1>7. ASSUME NEW m \in Methods, Drain(m) PROVE ScanInv'
  BY <1>7, <1>2 DEF Drain
<1>8. CASE Listen \/ ScanEnd \/ Wake \/ Recheck \/ ExpireLock \/ SweepEnd
  BY <1>8 DEF Listen, ScanEnd, Wake, Recheck, ExpireLock, SweepEnd
<1>9. CASE Check
  BY <1>9 DEF Check, TypeOK, Slots, MethodOf
<1>10. ASSUME NEW m \in Methods, Sweep(m) PROVE ScanInv'
  BY <1>10 DEF Sweep
<1>11. CASE CallerStep
  BY <1>11, <1>1, <1>3, <1>4
  DEF CallerStep, Start, DropSent, ClaimInDirect, Cancel, Tick
<1>12. CASE WriterStep /\ ~TurnStep
  BY <1>12, <1>1, <1>3
  DEF WriterStep, ClaimInHandler, BeginTurn, BeginOp, Panic, CloseFlag
<1>13. CASE TurnStep
  BY <1>13, <1>1, <1>5, <1>6, <1>7
  DEF TurnStep, InsertClosed, ImmediateOutcome, HandlerReturns, FlushOne,
      EndTurn, CloseLock, CloseEnd
<1>14. CASE ExpirerStep
  BY <1>14, <1>1, <1>8, <1>9, <1>10, ScanStep DEF ExpirerStep, FailDue
<1>15. CASE UNCHANGED vars
  BY <1>15, <1>1 DEF vars
<1> QED
  BY <1>11, <1>12, <1>13, <1>14, <1>15 DEF Next, WriterStep

------------------------------------------------------------------------------
(* The inductive invariant and what follows from it. *)

IInv ==
    /\ TypeOK
    /\ TurnInv
    /\ DueInv
    /\ OneResolver
    /\ IndexConsistent
    /\ CloseInv
    /\ ScanInv

(* The parts of the invariant together are inductive. *)
THEOREM Inductive == Spec => []IInv
<1>1. Init => IInv
  BY TypeInit, TurnInit, DueInit, OneResolverInit, IndexInit, CloseInit,
     ScanInit DEF IInv
<1>2. IInv /\ [Next]_vars => IInv'
  BY TypeNext, TurnNext, DueNext, OneResolverNext, IndexNext, CloseNext,
     ScanNext DEF IInv
<1> QED  BY <1>1, <1>2, PTL DEF Spec

(* A pending operation is held by exactly one party, a concluded one by    *)
(* none.                                                                   *)
THEOREM ResolverUnique == Spec => []OneResolver
<1>1. IInv => OneResolver
  BY DEF IInv
<1> QED  BY <1>1, Inductive, PTL

(* The deadline index of every registry is exact.                          *)
THEOREM IndexExact == Spec => []IndexConsistent
<1>1. IInv => IndexConsistent
  BY DEF IInv
<1> QED  BY <1>1, Inductive, PTL

(* Nothing is parked in a closed cell. *)
THEOREM ClosedEmpty == Spec => []ClosedIsEmpty
<1>1. IInv => ClosedIsEmpty
  BY DEF IInv, CloseInv, ClosedIsEmpty
<1> QED  BY <1>1, Inductive, PTL

(* The expirer never sleeps past a deadline it was not told of.            *)
THEOREM NoWakeupLost == Spec => []NoLostWakeup
<1>1. IInv => NoLostWakeup
  BY DEF IInv, ScanInv, NoLostWakeup
<1> QED  BY <1>1, Inductive, PTL

------------------------------------------------------------------------------
(* The lifecycle. *)

(* Dropping resolvers loses the pending operations among them, together.   *)
LEMMA DroppedIsLose ==
    ASSUME TypeOK, NEW S, st' = Dropped(S), UNCHANGED <<dl, now>>
    PROVE  L!Next
<1> DEFINE P == {o \in Ops : o \in S /\ st[o] = "Pending"}
<1>1. L!Lose(P)
  BY DEF L!Lose, L!IsPending, Dropped
<1>2. P \in SUBSET Ops
  OBVIOUS
<1> QED  BY <1>1, <1>2 DEF L!Next

(* Every step of the cell is a step of the lifecycle, or hides from it.    *)
LEMMA StepRefines == IInv /\ [Next]_vars => [L!Next]_(L!vars)
<1> SUFFICES ASSUME IInv, [Next]_vars
             PROVE  L!Next \/ UNCHANGED L!vars
  OBVIOUS
<1> USE DEF opVars, L!vars, IInv
<1>1. CASE UNCHANGED <<st, dl, now>>
  BY <1>1
<1>2. ASSUME NEW o \in Ops, NEW d \in L!Deadline, Start(o, d) PROVE L!Next
  BY <1>2 DEF Start, L!Next
<1>3. ASSUME NEW S, st' = Dropped(S), UNCHANGED <<dl, now>> PROVE L!Next
  BY <1>3, DroppedIsLose
<1>4. CASE Tick
  BY <1>4 DEF Tick, L!Next
<1>5. ASSUME NEW o \in Ops, FlushOne(o) PROVE L!Next
  <2>1. st[o] = "Pending" /\ queued[o] \in {"Done", "Failed"}
    BY <1>5 DEF FlushOne, OneResolver, HeldIsPending, IsQueued, TypeOK
  <2>2. L!Resolve(o, queued[o])
    BY <1>5, <2>1 DEF FlushOne, L!Resolve, L!IsPending
  <2> QED  BY <2>1, <2>2 DEF L!Next
<1>6. ASSUME NEW o \in Ops, FailDue(o) PROVE L!Next
  <2>1. st[o] = "Pending" /\ dl[o] # NoDeadline
    BY <1>6 DEF FailDue, OneResolver, HeldIsPending, DueInv
  <2>2. dl[o] <= now
    <3>1. dl[o] \in Nat /\ sweepNow \in Nat /\ now \in Nat
      BY <2>1, OpsCellAssumption
      DEF TypeOK, L!TypeOK, L!Deadline, L!Time
    <3> QED  BY <1>6, <3>1 DEF FailDue, DueInv
  <2>3. L!TimeOut(o)
    BY <1>6, <2>1, <2>2 DEF FailDue, L!TimeOut, L!IsPending
  <2> QED  BY <2>3 DEF L!Next
<1>7. CASE CallerStep
  BY <1>7, <1>1, <1>2, <1>3, <1>4
  DEF CallerStep, DropSent, ClaimInDirect, Claim, Cancel, Discard
<1>8. CASE WriterStep /\ ~TurnStep
  BY <1>8, <1>1, <1>3
  DEF WriterStep, ClaimInHandler, Claim, BeginTurn, BeginOp, Panic, CloseFlag
<1>9. CASE TurnStep
  <2>1. ASSUME NEW s \in Slots, Insert(s) PROVE L!Next
    BY <2>1, <1>3 DEF Insert
  <2>2. CASE InsertClosed
    BY <2>2, <1>3 DEF InsertClosed
  <2>3. ASSUME NEW m \in Methods, Drain(m) PROVE L!Next
    BY <2>3, <1>3 DEF Drain
  <2> QED
    BY <1>9, <1>1, <1>5, <2>1, <2>2, <2>3
    DEF TurnStep, Notify, ImmediateOutcome, HandlerReturns, EndTurn, CloseLock,
        CloseEnd
<1>10. CASE ExpirerStep
  BY <1>10, <1>1, <1>6
  DEF ExpirerStep, Listen, Check, Scan, ScanEnd, Wake, Recheck, ExpireLock,
      Sweep, SweepEnd
<1>11. CASE UNCHANGED vars
  BY <1>11 DEF vars
<1> QED
  BY <1>7, <1>8, <1>9, <1>10, <1>11 DEF Next, WriterStep

(* The cell implements the lifecycle: what a caller reads from an Op only  *)
(* ever moves from pending to one conclusion, and a timeout is never early. *)
THEOREM ImplementsLifecycle == Spec => Lifecycle
<1>1. Init => L!Init
  BY DEF Init
<1> QED
  BY <1>1, Inductive, StepRefines, PTL DEF Spec, Lifecycle, L!Spec

(* A queued conclusion is the one its operation gets.                      *)
THEOREM ClaimsWin == Spec => ClaimWins
<1> DEFINE Wins == \A o \in Ops : IsQueued(o) =>
                       st'[o] \in {st[o], queued[o]} \/ wpc' = "gone"
<1>1. IInv /\ [Next]_vars => [Wins]_vars
  <2> SUFFICES ASSUME IInv, Next, NEW o \in Ops, IsQueued(o)
               PROVE  st'[o] \in {st[o], queued[o]} \/ wpc' = "gone"
    BY DEF vars
  <2> USE DEF opVars, IInv
  <2>1. o \notin sent /\ cur # o /\ ~IsParked(o) /\ o \notin due
        /\ st[o] = "Pending"
    BY DEF OneResolver, HeldOnce, HeldIsPending
  <2>2. ASSUME NEW S, o \notin S, st' = Dropped(S) PROVE st'[o] = st[o]
    BY <2>2 DEF Dropped
  <2>3. ASSUME NEW p \in Ops, FlushOne(p)
        PROVE  st'[o] \in {st[o], queued[o]}
    BY <2>3 DEF FlushOne, TypeOK, L!TypeOK
  <2>4. ASSUME NEW p \in Ops, FailDue(p) PROVE st'[o] = st[o]
    BY <2>1, <2>4 DEF FailDue, TypeOK, L!TypeOK
  <2>5. ASSUME NEW p \in Ops, NEW d \in L!Deadline, Start(p, d)
        PROVE  st'[o] = st[o]
    BY <2>1, <2>5 DEF Start, L!Begin, TypeOK, L!TypeOK
  <2>6. ASSUME NEW s \in Slots, Insert(s) PROVE st'[o] = st[o]
    BY <2>1, <2>2, <2>6 DEF Insert, IsParked
  <2>7. ASSUME NEW m \in Methods, Drain(m) PROVE st'[o] = st[o]
    BY <2>1, <2>2, <2>7 DEF Drain, IsParked
  <2>8. CASE CallerStep
    BY <2>8, <2>1, <2>2, <2>5
    DEF CallerStep, DropSent, ClaimInDirect, Claim, Cancel, Tick, L!Tick,
        Discard
  <2>9. CASE WriterStep /\ ~TurnStep
    BY <2>9, <2>1, <2>2
    DEF WriterStep, ClaimInHandler, Claim, BeginTurn, BeginOp, Panic, CloseFlag
  <2>10. CASE TurnStep
    BY <2>10, <2>1, <2>2, <2>3, <2>6, <2>7
    DEF TurnStep, InsertClosed, Notify, ImmediateOutcome, HandlerReturns,
        EndTurn, CloseLock, CloseEnd
  <2>11. CASE ExpirerStep
    BY <2>11, <2>4
    DEF ExpirerStep, Listen, Check, Scan, ScanEnd, Wake, Recheck, ExpireLock,
        Sweep, SweepEnd
  <2> QED
    BY <2>8, <2>9, <2>10, <2>11 DEF Next, WriterStep
<1> QED  BY <1>1, Inductive, PTL DEF Spec, ClaimWins

(* A parked or overdue operation is lost only to another under its key, or  *)
(* to the closing or the end of its cell (op.rs:233-235, 332-336, 370-371). *)
THEOREM NotLostInVain == Spec => LostForCause
<1> DEFINE Excused(o) ==
        \/ closed \/ wpc' = "gone"
        \/ \E s \in Slots : byKey[s] = o /\ byKey'[s] \notin {o, NoOp}
<1> DEFINE ForCause ==
        \A o \in Ops :
            (IsParked(o) \/ o \in due) /\ st[o] # "Lost" /\ st'[o] = "Lost" =>
                Excused(o)
<1>1. IInv /\ [Next]_vars => [ForCause]_vars
  <2> SUFFICES ASSUME IInv, Next, NEW o \in Ops, IsParked(o) \/ o \in due,
                      st[o] # "Lost", st'[o] = "Lost"
               PROVE  Excused(o)
    BY DEF vars
  <2> HIDE DEF Excused
  <2> USE DEF opVars, IInv
  <2>1. o \notin sent /\ cur # o /\ ~IsQueued(o)
    BY DEF OneResolver, HeldOnce
  <2>2. st'[o] # st[o]
    OBVIOUS
  <2>3. ASSUME NEW S, o \notin S, st' = Dropped(S) PROVE FALSE
    BY <2>2, <2>3 DEF Dropped
  <2>4. ASSUME NEW p \in Ops, FlushOne(p) PROVE FALSE
    BY <2>1, <2>2, <2>4 DEF FlushOne, TypeOK, L!TypeOK, IsQueued
  <2>5. ASSUME NEW p \in Ops, FailDue(p) PROVE FALSE
    BY <2>2, <2>5 DEF FailDue, TypeOK, L!TypeOK
  <2>6. ASSUME NEW p \in Ops, NEW d \in L!Deadline, Start(p, d) PROVE FALSE
    BY <2>2, <2>6 DEF Start, L!Begin, TypeOK, L!TypeOK
  <2>7. ASSUME NEW s \in Slots, Insert(s) PROVE Excused(o)
    <3>1. byKey[s] = o
      BY <2>3, <2>7 DEF Insert
    <3>2. byKey'[s] = cur
      BY <2>7 DEF Insert, TypeOK
    <3>3. cur # NoOp
      BY <2>7 DEF Insert, TurnInv
    <3> QED
      BY <3>1, <3>2, <3>3, <2>1 DEF Excused
  <2>8. ASSUME NEW m \in Methods, Drain(m) PROVE Excused(o)
    BY <2>8 DEF Drain, CloseInv, Excused
  <2>9. CASE CallerStep
    BY <2>9, <2>1, <2>2, <2>3, <2>6
    DEF CallerStep, DropSent, ClaimInDirect, Claim, Cancel, Tick, L!Tick,
        Discard, Excused
  <2>10. CASE WriterStep /\ ~TurnStep
    BY <2>10, <2>1, <2>2, <2>3
    DEF WriterStep, ClaimInHandler, Claim, BeginTurn, BeginOp, Panic, CloseFlag
  <2>11. CASE TurnStep
    BY <2>11, <2>1, <2>2, <2>3, <2>4, <2>7, <2>8
    DEF TurnStep, InsertClosed, Notify, ImmediateOutcome, HandlerReturns,
        EndTurn, CloseLock, CloseEnd
  <2>12. CASE ExpirerStep
    BY <2>12, <2>2, <2>5
    DEF ExpirerStep, Listen, Check, Scan, ScanEnd, Wake, Recheck, ExpireLock,
        Sweep, SweepEnd
  <2> QED
    BY <2>9, <2>10, <2>11, <2>12 DEF Next, WriterStep
<1> QED  BY <1>1, Inductive, PTL DEF Spec, LostForCause
==============================================================================

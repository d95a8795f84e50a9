---------------------------- MODULE ViewSlot_proofs ----------------------------
(* Proofs about ViewSlot, for any views, watchers, waits and publications.  *)
EXTENDS ViewSlot, FiniteSetTheorems, TLAPS

(* The version lags the stores by the publication between store and bump,   *)
(* if there is one.                                                         *)
VersionInv ==
    /\ stores = IF pub = "bump" THEN version + 1 ELSE version
    /\ pub = "store" => stores < MaxStores

(* A watcher has got what it is marked seen for, unless it is about to, and *)
(* nothing newer than there is; one that goes to sleep un-notified has seen *)
(* the current version, unless a notification is due.                       *)
WatcherInv ==
    \A w \in Watchers :
        /\ got[w] <= stores
        /\ seen[w] <= version
        /\ watcher[w] \notin {"load", "tryload"} => seen[w] <= got[w]
        /\ watcher[w] \in {"await", "asleep"} /\ listener[w] = "listening" =>
              pub = "notify" \/ version = seen[w]

(* A wait that goes to sleep un-notified holds the current view, unless a   *)
(* notification is due, and it is not the one wanted.                       *)
WaiterInv ==
    \A q \in Waiters :
        /\ waiter[q] \in {"judge", "await", "asleep"} /\ listener[q] = "listening" =>
              pub \in {"bump", "notify"} \/ held[q] = value
        /\ waiter[q] \in {"await", "asleep"} => held[q] # wanted[q]

IInv == TypeOK /\ VersionInv /\ WatcherInv /\ WaiterInv

(* The order of the steps of publish() (view.rs:129-135). *)
LEMMA Order ==
    /\ Follows["idle"] = "store" /\ Follows["store"] = "bump"
    /\ Follows["bump"] = "notify" /\ Follows["notify"] = "idle"
  BY DEF Follows

(* The counter of watchers follows their coming and going (view.rs:168, 201). *)
LEMMA Counted ==
    ASSUME NEW S, IsFiniteSet(S), NEW w
    PROVE  /\ Cardinality(S) \in Nat
           /\ w \notin S => Cardinality(S \cup {w}) = Cardinality(S) + 1
           /\ w \in S => Cardinality(S \ {w}) = Cardinality(S) - 1
  BY FS_AddElement, FS_RemoveElement, FS_CardinalityType

(* An empty slot satisfies the invariant. *)
LEMMA InitInv == Init => IInv
<1> SUFFICES ASSUME Init PROVE IInv
  OBVIOUS
<1> USE ViewAssumption DEF Init, ViewAssumption
<1>1. {w \in Watchers : Live(w)} = {}
  BY DEF Live
<1>2. Cardinality({}) = 0
  BY FS_EmptySet
<1>3. watchers = Cardinality({w \in Watchers : Live(w)})
  BY <1>1, <1>2
<1>4. cancelled \in BOOLEAN
  OBVIOUS
<1>5. 0 \in 0 .. MaxStores /\ Initial \in Values
  OBVIOUS
<1> HIDE DEF Live
<1>6. TypeOK
  <2>1. /\ value \in Values /\ next \in Values
        /\ stores \in 0 .. MaxStores /\ version \in 0 .. MaxStores
    BY <1>5
  <2>2. /\ seen \in [Watchers -> 0 .. MaxStores]
        /\ got \in [Watchers -> 0 .. MaxStores]
        /\ held \in [Waiters -> Values]
    BY <1>5
  <2> QED
    BY <1>3, <1>4, <2>1, <2>2, Zenon DEF TypeOK
<1> QED
  BY <1>6 DEF IInv, VersionInv, WatcherInv, WaiterInv

(* A step that leaves the live watchers alone leaves their count right. *)
LEMMA CountKept ==
    ASSUME TypeOK, watchers' = watchers, NEW w \in Watchers,
           NEW p, p \notin {"none", "dropped"}, Live(w),
           watcher' = [watcher EXCEPT ![w] = p]
    PROVE  watchers' = Cardinality({v \in Watchers : Live(v)'})
<1>1. {v \in Watchers : Live(v)'} = {v \in Watchers : Live(v)}
  BY DEF TypeOK, Live
<1> QED
  BY <1>1 DEF TypeOK

(* Steps keep the slot well typed. *)
LEMMA TypeNext == TypeOK /\ VersionInv /\ [Next]_vars => TypeOK'
<1> SUFFICES ASSUME TypeOK, VersionInv, [Next]_vars
             PROVE  TypeOK'
  OBVIOUS
<1> DEFINE LiveOnes == {w \in Watchers : Live(w)}
<1> USE ViewAssumption
<1>1. IsFiniteSet(LiveOnes)
  BY FS_Subset
<1>2. ASSUME UNCHANGED watching PROVE UNCHANGED LiveOnes
  BY <1>2 DEF Live, watching
<1>3. ASSUME NEW v \in Values, Publish(v) PROVE TypeOK'
  BY <1>3, <1>2, Order DEF Publish, TypeOK, watching, waiting
<1>4. CASE Store
  BY <1>4, <1>2, Order DEF Store, TypeOK, VersionInv, watching, waiting
<1>5. CASE Bump
  BY <1>5, <1>2, Order DEF Bump, TypeOK, VersionInv, watching, waiting
<1>6. CASE Notify
  <2>1. listener' \in [Listeners -> {"none", "listening", "notified"}]
    BY <1>6 DEF Notify, TypeOK
  <2> QED  BY <1>6, <1>2, <2>1, Order DEF Notify, TypeOK, watching, waiting
<1>7. CASE Cancel
  BY <1>7, <1>2 DEF Cancel, TypeOK, publisher, watching, waiting
<1>8. ASSUME NEW w \in Watchers, Watch(w) PROVE TypeOK'
  <2>1. LiveOnes' = LiveOnes \cup {w} /\ w \notin LiveOnes
    BY <1>8 DEF Watch, TypeOK, Live
  <2>2. watchers' = Cardinality(LiveOnes')
    BY <1>8, <1>1, <2>1, Counted DEF Watch, TypeOK
  <2> QED
    BY <1>8, <2>2 DEF Watch, TypeOK, othersOfWatcher, publisher, waiting
<1>9. ASSUME NEW w \in Watchers, DropWatcher(w) PROVE TypeOK'
  <2>1. LiveOnes' = LiveOnes \ {w} /\ w \in LiveOnes
    BY <1>9 DEF DropWatcher, TypeOK, Live
  <2>2. watchers' = Cardinality(LiveOnes')
    BY <1>9, <1>1, <2>1, Counted DEF DropWatcher, TypeOK
  <2> QED
    BY <1>9, <2>2 DEF DropWatcher, TypeOK, othersOfWatcher, publisher, waiting
<1>10. ASSUME NEW w \in Watchers,
              \/ Baseline(w) \/ Changed(w) \/ TryChanged(w) \/ ChangedStep(w)
              \/ Abandon(w)
       PROVE  TypeOK'
  <2> USE DEF othersOfWatcher, publisher, waiting, Listeners
  <2>1. CASE Baseline(w)
    <3>1. watchers' = Cardinality(LiveOnes')
      BY <2>1, CountKept DEF Baseline, Live
    <3> QED  BY <2>1, <3>1 DEF Baseline, TypeOK
  <2>2. CASE Changed(w)
    <3>1. watchers' = Cardinality(LiveOnes')
      BY <2>2, CountKept DEF Changed, Live
    <3> QED  BY <2>2, <3>1 DEF Changed, TypeOK
  <2>3. CASE TryChanged(w)
    <3>1. watchers' = Cardinality(LiveOnes')
      BY <2>3, CountKept DEF TryChanged, Live
    <3> QED  BY <2>3, <3>1 DEF TryChanged, TypeOK
  <2>4. CASE Listen(w)
    <3>1. watchers' = Cardinality(LiveOnes')
      BY <2>4, CountKept DEF Listen, Live
    <3> QED  BY <2>4, <3>1 DEF Listen, TypeOK
  <2>5. CASE ReadVersion(w)
    <3>1. PICK p \in {"tryload", "load", "ready", "await"} :
             watcher' = [watcher EXCEPT ![w] = p]
      BY <2>5 DEF ReadVersion
    <3>2. watchers' = Cardinality(LiveOnes')
      BY <2>5, <3>1, CountKept DEF ReadVersion, Live
    <3> QED  BY <2>5, <3>1, <3>2 DEF ReadVersion, TypeOK
  <2>6. CASE LoadView(w)
    <3>1. watchers' = Cardinality(LiveOnes')
      BY <2>6, CountKept DEF LoadView, Live
    <3> QED  BY <2>6, <3>1 DEF LoadView, TypeOK
  <2>7. CASE Await(w)
    <3>1. PICK p \in {"listen", "asleep"} :
             watcher' = [watcher EXCEPT ![w] = p]
      BY <2>7 DEF Await
    <3>2. watchers' = Cardinality(LiveOnes')
      BY <2>7, <3>1, CountKept DEF Await, Live
    <3> QED  BY <2>7, <3>1, <3>2 DEF Await, TypeOK
  <2>8. CASE Abandon(w)
    <3>1. watchers' = Cardinality(LiveOnes')
      BY <2>8, CountKept DEF Abandon, Live
    <3> QED  BY <2>8, <3>1 DEF Abandon, TypeOK
  <2> QED
    BY <1>10, <2>1, <2>2, <2>3, <2>4, <2>5, <2>6, <2>7, <2>8 DEF ChangedStep
<1>11. ASSUME NEW q \in Waiters, Wait(q) \/ WaitStep(q) PROVE TypeOK'
  <2> USE <1>2 DEF othersOfWaiter, publisher, watching, Listeners
  <2>1. CASE Wait(q)
    BY <2>1 DEF Wait, TypeOK
  <2>2. CASE WaitListen(q)
    BY <2>2 DEF WaitListen, TypeOK
  <2>3. CASE WaitLoad(q)
    BY <2>3 DEF WaitLoad, TypeOK
  <2>4. CASE Judge(q)
    BY <2>4 DEF Judge, TypeOK
  <2>5. CASE WaitAwait(q)
    BY <2>5 DEF WaitAwait, TypeOK
  <2> QED
    BY <1>11, <2>1, <2>2, <2>3, <2>4, <2>5 DEF WaitStep
<1>12. CASE UNCHANGED vars
  BY <1>12, <1>2 DEF vars, watching, TypeOK
<1> QED
  BY <1>3, <1>4, <1>5, <1>6, <1>7, <1>8, <1>9, <1>10, <1>11, <1>12
  DEF Next, PublishStep

(* Steps keep the version in step with the stores. *)
LEMMA VersionNext == TypeOK /\ VersionInv /\ [Next]_vars => VersionInv'
<1> SUFFICES ASSUME TypeOK, VersionInv, [Next]_vars
             PROVE  VersionInv'
  OBVIOUS
<1> USE ViewAssumption, Order DEF TypeOK, VersionInv
<1>1. ASSUME NEW v \in Values, Publish(v) PROVE VersionInv'
  BY <1>1 DEF Publish
<1>2. CASE PublishStep
  BY <1>2 DEF PublishStep, Store, Bump, Notify
<1>3. ASSUME UNCHANGED <<stores, version, pub>> PROVE VersionInv'
  BY <1>3
<1>4. CASE Cancel
  BY <1>3, <1>4 DEF Cancel, publisher
<1>5. ASSUME NEW w \in Watchers,
             \/ Watch(w) \/ Baseline(w) \/ Changed(w) \/ TryChanged(w)
             \/ ChangedStep(w) \/ Abandon(w) \/ DropWatcher(w)
      PROVE  VersionInv'
  BY <1>3, <1>5 DEF Watch, Baseline, Changed, TryChanged, ChangedStep, Listen,
     ReadVersion, LoadView, Await, Abandon, DropWatcher, othersOfWatcher, publisher
<1>6. ASSUME NEW q \in Waiters, Wait(q) \/ WaitStep(q) PROVE VersionInv'
  BY <1>3, <1>6 DEF Wait, WaitStep, WaitListen, WaitLoad, Judge, WaitAwait,
     othersOfWaiter, publisher
<1>7. CASE UNCHANGED vars
  BY <1>3, <1>7 DEF vars
<1> QED
  BY <1>1, <1>2, <1>4, <1>5, <1>6, <1>7 DEF Next

(* Steps keep what is true of the watchers. *)
LEMMA WatcherNext ==
    TypeOK /\ VersionInv /\ WatcherInv /\ [Next]_vars => WatcherInv'
<1> SUFFICES ASSUME TypeOK, VersionInv, WatcherInv, [Next]_vars
             PROVE  WatcherInv'
  OBVIOUS
<1> USE ViewAssumption, Order DEF TypeOK, VersionInv, WatcherInv, Listeners
<1>1. ASSUME NEW v \in Values, Publish(v) PROVE WatcherInv'
  BY <1>1 DEF Publish, watching
<1>2. CASE Store
  BY <1>2 DEF Store, watching
<1>3. CASE Bump
  BY <1>3 DEF Bump, watching
<1>4. CASE Notify
  <2>1. \A w \in Watchers : listener'[w] # "listening"
    BY <1>4 DEF Notify
  <2> QED  BY <1>4, <2>1 DEF Notify, watching
<1>5. CASE Cancel
  BY <1>5 DEF Cancel, publisher, watching
<1>6. ASSUME NEW w \in Watchers,
             \/ Watch(w) \/ Baseline(w) \/ Changed(w) \/ TryChanged(w)
             \/ ChangedStep(w) \/ Abandon(w) \/ DropWatcher(w)
      PROVE  WatcherInv'
  <2> USE DEF othersOfWatcher, publisher
  <2>1. CASE Watch(w)
    BY <2>1 DEF Watch
  <2>2. CASE Baseline(w)
    BY <2>2 DEF Baseline
  <2>3. CASE Changed(w)
    BY <2>3 DEF Changed
  <2>4. CASE TryChanged(w)
    BY <2>4 DEF TryChanged
  <2>5. CASE Listen(w)
    BY <2>5 DEF Listen
  <2>6. CASE ReadVersion(w)
    BY <2>6 DEF ReadVersion
  <2>7. CASE LoadView(w)
    BY <2>7 DEF LoadView
  <2>8. CASE Await(w)
    BY <2>8 DEF Await
  <2>9. CASE Abandon(w)
    BY <2>9 DEF Abandon
  <2>10. CASE DropWatcher(w)
    BY <2>10 DEF DropWatcher
  <2> QED
    BY <1>6, <2>1, <2>2, <2>3, <2>4, <2>5, <2>6, <2>7, <2>8, <2>9, <2>10
    DEF ChangedStep
<1>7. ASSUME NEW q \in Waiters, Wait(q) \/ WaitStep(q) PROVE WatcherInv'
  <2>1. \A w \in Watchers : listener'[w] = listener[w]
    BY <1>7 DEF Wait, WaitStep, WaitListen, WaitLoad, Judge, WaitAwait
  <2>2. UNCHANGED <<stores, version, pub, watcher, seen, got>>
    BY <1>7 DEF Wait, WaitStep, WaitListen, WaitLoad, Judge, WaitAwait,
       othersOfWaiter, publisher, watching
  <2> QED  BY <2>1, <2>2
<1>8. CASE UNCHANGED vars
  BY <1>8 DEF vars
<1> QED
  BY <1>1, <1>2, <1>3, <1>4, <1>5, <1>6, <1>7, <1>8 DEF Next, PublishStep

(* Steps keep what is true of the waits. *)
LEMMA WaiterNext ==
    TypeOK /\ WaiterInv /\ [Next]_vars => WaiterInv'
<1> SUFFICES ASSUME TypeOK, WaiterInv, [Next]_vars
             PROVE  WaiterInv'
  OBVIOUS
<1> USE ViewAssumption, Order DEF TypeOK, WaiterInv, Listeners
<1>1. ASSUME NEW v \in Values, Publish(v) PROVE WaiterInv'
  BY <1>1 DEF Publish, waiting
<1>2. CASE Store
  BY <1>2 DEF Store, waiting
<1>3. CASE Bump
  BY <1>3 DEF Bump, waiting
<1>4. CASE Notify
  <2>1. \A q \in Waiters : listener'[q] # "listening"
    BY <1>4 DEF Notify
  <2> QED  BY <1>4, <2>1 DEF Notify, waiting
<1>5. CASE Cancel
  BY <1>5 DEF Cancel, publisher, waiting
<1>6. ASSUME NEW w \in Watchers,
             \/ Watch(w) \/ Baseline(w) \/ Changed(w) \/ TryChanged(w)
             \/ ChangedStep(w) \/ Abandon(w) \/ DropWatcher(w)
      PROVE  WaiterInv'
  <2>1. \A q \in Waiters : listener'[q] = listener[q]
    BY <1>6 DEF Watch, Baseline, Changed, TryChanged, ChangedStep, Listen,
       ReadVersion, LoadView, Await, Abandon, DropWatcher
  <2>2. UNCHANGED <<value, pub, waiter, wanted, held>>
    BY <1>6 DEF Watch, Baseline, Changed, TryChanged, ChangedStep, Listen,
       ReadVersion, LoadView, Await, Abandon, DropWatcher, othersOfWatcher,
       publisher, waiting
  <2> QED  BY <2>1, <2>2
<1>7. ASSUME NEW q \in Waiters, Wait(q) \/ WaitStep(q) PROVE WaiterInv'
  <2> USE DEF othersOfWaiter, publisher
  <2>1. CASE Wait(q)
    BY <2>1 DEF Wait
  <2>2. CASE WaitListen(q)
    BY <2>2 DEF WaitListen
  <2>3. CASE WaitLoad(q)
    BY <2>3 DEF WaitLoad
  <2>4. CASE Judge(q)
    BY <2>4 DEF Judge
  <2>5. CASE WaitAwait(q)
    BY <2>5 DEF WaitAwait
  <2> QED
    BY <1>7, <2>1, <2>2, <2>3, <2>4, <2>5 DEF WaitStep
<1>8. CASE UNCHANGED vars
  BY <1>8 DEF vars
<1> QED
  BY <1>1, <1>2, <1>3, <1>4, <1>5, <1>6, <1>7, <1>8 DEF Next, PublishStep

(* The parts of the invariant together are inductive (view.rs:126-234). *)
THEOREM SlotInvariant == Spec => []IInv
<1>1. IInv /\ [Next]_vars => IInv'
  BY TypeNext, VersionNext, WatcherNext, WaiterNext DEF IInv
<1> QED
  BY InitInv, <1>1, PTL DEF Spec

(* The slot stays well typed, its count of watchers exact                   *)
(* (view.rs:166-177, 199-203).                                              *)
THEOREM WatchersCounted == Spec => []TypeOK
<1>1. IInv => TypeOK
  BY DEF IInv
<1> QED  BY <1>1, SlotInvariant, PTL

(* No watcher sleeps through a publication (view.rs:132-134, 213-223). *)
THEOREM NoChangeMissed == Spec => []SleepersAreCurrent
<1>1. IInv => SleepersAreCurrent
  BY DEF IInv, TypeOK, VersionInv, WatcherInv, SleepersAreCurrent, Settled
<1> QED  BY <1>1, SlotInvariant, PTL

(* No wait sleeps on the view it wants (view.rs:148-163). *)
THEOREM NoWaitMissed == Spec => []SleepersWait
<1>1. IInv => SleepersWait
  BY DEF IInv, TypeOK, WaiterInv, SleepersWait, Settled
<1> QED  BY <1>1, SlotInvariant, PTL

(* No watcher holds a view older than it is marked seen for                 *)
(* (view.rs:213-234).                                                       *)
THEOREM SeenIsHeld == Spec => []NeverStale
<1>1. IInv => NeverStale
  BY DEF IInv, TypeOK, WatcherInv, NeverStale
<1> QED  BY <1>1, SlotInvariant, PTL
================================================================================

----------------------------- MODULE TaskSet_proofs -----------------------------
(* That waiting on a task set is sound, for any number of tasks, sets and      *)
(* waiters: what is complete has ended, and no panic is lost on the way.       *)
EXTENDS TaskSet, TLAPS

(* The waiter that took the handles of s and is not through with them, or was  *)
(* unwound by one.                                                             *)
Owns(w, s) ==
    /\ w \in unwinding \/ waiter[w] \in {"block", "mark", "notify"}
    /\ SetAt(w) = s

(* A panic unwound into a waiter at s. *)
Unwound(s) == \E w \in unwinding : SetAt(w) = s

SpawnInv ==
    /\ \A t \in Tasks : home[t] = NoSet <=> task[t] = "unborn"
    /\ \A t \in pushing : home[t] \in Sets \ spawned
    /\ \A w \in Waiters : waiter[w] # "idle" => Members(joined[w]) \subseteq spawned
    /\ \A s \in Sets : \A t \in Members(handles[s]) : home[t] = s
    /\ \A w \in Waiters : waiter[w] = "block" =>
          \A t \in Members(taken[w]) : home[t] = SetAt(w)

OwnerInv ==
    \A w \in Waiters, s \in Sets :
        Owns(w, s) => handles[s] = <<>> /\ \A v \in Waiters : Owns(v, s) => v = w

UnwindInv ==
    \A w \in unwinding :
        /\ waiter[w] \in {"mark", "notify", "panicked"}
        /\ \E t \in Tasks : home[t] = SetAt(w) /\ task[t] = "panicked"

(* Every task of a set is on its way into it, in it, in the hands of its       *)
(* owner, or ended, unless a panic made the owner drop the rest.               *)
HeldInv ==
    \A t \in Tasks :
        home[t] \in Sets =>
            \/ t \in pushing
            \/ t \in Members(handles[home[t]])
            \/ \E w \in Waiters : /\ waiter[w] = "block" /\ SetAt(w) = home[t]
                                  /\ t \in Members(taken[w])
            \/ task[t] = "ended"
            \/ Unwound(home[t])

DoneInv ==
    \A s \in Sets :
        (done[s] \/ \E w \in Waiters : waiter[w] \in {"mark", "notify"} /\ SetAt(w) = s)
            => /\ s \in spawned
               /\ Unwound(s) \/ \A t \in TasksOf(s) : task[t] = "ended"

IInv == TypeOK /\ SpawnInv /\ OwnerInv /\ UnwindInv /\ HeldInv /\ DoneInv

------------------------------------------------------------------------------
LEMMA MembersAppend ==
    ASSUME NEW S, NEW q \in Seq(S), NEW x \in S
    PROVE  Append(q, x) \in Seq(S) /\ Members(Append(q, x)) = Members(q) \cup {x}
<1> DEFINE r == Append(q, x)
<1>1. /\ r \in Seq(S) /\ Len(q) \in Nat
      /\ DOMAIN q = 1 .. Len(q) /\ DOMAIN r = 1 .. Len(q) + 1
      /\ \A i \in 1 .. Len(q) : r[i] = q[i]
      /\ r[Len(q) + 1] = x
    OBVIOUS
<1>2. ASSUME NEW i \in DOMAIN r PROVE r[i] \in Members(q) \cup {x}
    BY <1>1, i \in 1 .. Len(q) \/ i = Len(q) + 1 DEF Members
<1>3. Members(q) \cup {x} \subseteq Members(r)
    BY <1>1, \A i \in 1 .. Len(q) : i \in DOMAIN r, Len(q) + 1 \in DOMAIN r DEF Members
<1> QED
    BY <1>1, <1>2, <1>3 DEF Members

LEMMA MembersTail ==
    ASSUME NEW S, NEW q \in Seq(S), q # <<>>
    PROVE  /\ Head(q) \in S /\ Tail(q) \in Seq(S)
           /\ Members(q) = {Head(q)} \cup Members(Tail(q))
<1>1. Tail(q) \in Seq(S) /\ Head(q) \in S /\ Len(q) \in Nat \ {0}
    OBVIOUS
<1>2. ASSUME NEW i \in DOMAIN q PROVE q[i] \in {Head(q)} \cup Members(Tail(q))
    <2>1. CASE i = 1
        BY <2>1
    <2>2. CASE i # 1
        <3>1. i - 1 \in DOMAIN Tail(q) /\ Tail(q)[i - 1] = q[i]
            BY <1>1, <2>2
        <3> QED
            BY <3>1 DEF Members
    <2> QED
        BY <2>1, <2>2
<1>3. ASSUME NEW i \in DOMAIN Tail(q) PROVE Tail(q)[i] \in Members(q)
    <2>1. i + 1 \in DOMAIN q /\ Tail(q)[i] = q[i + 1]
        BY <1>1
    <2> QED
        BY <2>1 DEF Members
<1>4. Head(q) \in Members(q)
    BY <1>1 DEF Members
<1> QED
    BY <1>1, <1>2, <1>3, <1>4 DEF Members

LEMMA MembersTyped ==
    ASSUME TypeOK
    PROVE  /\ \A s \in Sets : Members(handles[s]) \subseteq Tasks
           /\ \A w \in Waiters : Members(taken[w]) \subseteq Tasks
    BY DEF TypeOK, Members

LEMMA MembersEmpty == Members(<<>>) = {}
    BY DEF Members

LEMMA SetAtSpawned ==
    ASSUME TypeOK, SpawnInv, NEW w \in Waiters, waiter[w] \notin {"idle", "returned"}
    PROVE  SetAt(w) \in Sets /\ SetAt(w) \in spawned
    BY DEF TypeOK, SpawnInv, SetAt, Members

------------------------------------------------------------------------------
LEMMA InitInv == Init => IInv
    BY MembersEmpty, TaskSetAssumption
       DEF Init, IInv, TypeOK, SpawnInv, OwnerInv, UnwindInv, HeldInv, DoneInv,
           Owns, Unwound, TasksOf, Members

(* Spawning touches sets that nobody waits for yet. *)
LEMMA SpawnStepInv == ASSUME IInv, SpawnStep PROVE IInv'
<1> USE TaskSetAssumption DEF IInv
<1>1. ASSUME NEW t \in Tasks, NEW s \in Sets, Spawn(t, s) PROVE IInv'
    <2> USE <1>1 DEF Spawn, waiting
    <2>1. TypeOK'
        BY DEF TypeOK
    <2>2. SpawnInv'
        <3>1. \A u \in Tasks : home[u] # NoSet => home'[u] = home[u] /\ task'[u] = task[u]
            BY DEF TypeOK, SpawnInv
        <3>2. \A u \in Tasks : home'[u] = NoSet <=> task'[u] = "unborn"
            BY DEF TypeOK, SpawnInv
        <3>3. \A u \in pushing' : home'[u] \in Sets \ spawned'
            BY <3>1 DEF TypeOK, SpawnInv
        <3>4. \A r \in Sets : \A u \in Members(handles'[r]) : home'[u] = r
            BY <3>1, MembersTyped DEF SpawnInv
        <3>5. \A w \in Waiters : waiter'[w] = "block" =>
                 \A u \in Members(taken'[w]) : home'[u] = SetAt(w)'
            <4> SUFFICES ASSUME NEW w \in Waiters, waiter[w] = "block",
                                NEW u \in Members(taken[w])
                         PROVE  home'[u] = SetAt(w)
                BY DEF SetAt
            <4>1. SetAt(w) \in Sets
                BY SetAtSpawned
            <4>2. u \in Tasks /\ home[u] = SetAt(w)
                BY MembersTyped DEF SpawnInv
            <4> QED
                BY <3>1, <4>1, <4>2
        <3> QED
            BY <3>2, <3>3, <3>4, <3>5 DEF SpawnInv
    <2>3. OwnerInv'
        BY DEF OwnerInv, Owns, SetAt
    <2>4. UnwindInv'
        BY DEF TypeOK, SpawnInv, UnwindInv, SetAt
    <2>5. HeldInv'
        BY DEF TypeOK, SpawnInv, HeldInv, Unwound, SetAt
    <2>6. DoneInv'
        <3>1. \A r \in spawned : TasksOf(r)' = TasksOf(r)
            BY DEF TypeOK, SpawnInv, TasksOf
        <3>2. \A r \in spawned : \A u \in TasksOf(r) : task'[u] = task[u]
            BY DEF TypeOK, SpawnInv, TasksOf
        <3>3. \A r \in Sets : Unwound(r)' <=> Unwound(r)
            BY DEF Unwound, SetAt
        <3> QED
            BY <3>1, <3>2, <3>3 DEF DoneInv, SetAt
    <2> QED
        BY <2>1, <2>2, <2>3, <2>4, <2>5, <2>6
<1>2. ASSUME NEW t \in Tasks, Push(t) PROVE IInv'
    <2> USE <1>2 DEF Push, waiting
    <2>0. /\ home[t] \in Sets \ spawned
          /\ Append(handles[home[t]], t) \in Seq(Tasks)
          /\ Members(Append(handles[home[t]], t)) = Members(handles[home[t]]) \cup {t}
        BY MembersAppend DEF TypeOK, SpawnInv
    <2>1. TypeOK'
        BY <2>0 DEF TypeOK
    <2>2. SpawnInv'
        BY <2>0 DEF TypeOK, SpawnInv, SetAt
    <2>3. OwnerInv'
        <3>1. ASSUME NEW w \in Waiters, Owns(w, home[t]) PROVE FALSE
            <4>1. waiter[w] \notin {"idle", "returned"}
                BY <3>1 DEF Owns, UnwindInv
            <4> QED
                BY <2>0, <3>1, <4>1, SetAtSpawned DEF Owns
        <3>2. \A r \in Sets : r # home[t] => handles'[r] = handles[r]
            BY <2>0 DEF TypeOK
        <3>3. \A v \in Waiters, r \in Sets : Owns(v, r)' <=> Owns(v, r)
            BY DEF Owns, SetAt
        <3> QED
            BY <3>1, <3>2, <3>3 DEF OwnerInv
    <2>4. UnwindInv'
        BY DEF UnwindInv, SetAt
    <2>5. HeldInv'
        BY <2>0 DEF TypeOK, HeldInv, Unwound, SetAt
    <2>6. DoneInv'
        BY DEF DoneInv, Unwound, SetAt, TasksOf
    <2> QED
        BY <2>1, <2>2, <2>3, <2>4, <2>5, <2>6
<1>3. ASSUME NEW s \in Sets, SpawnReturns(s) PROVE IInv'
    <2> USE <1>3 DEF SpawnReturns, waiting
    <2>1. TypeOK'
        BY DEF TypeOK
    <2>2. SpawnInv'
        BY DEF TypeOK, SpawnInv, TasksOf, SetAt
    <2>3. OwnerInv'
        BY DEF OwnerInv, Owns, SetAt
    <2>4. UnwindInv'
        BY DEF UnwindInv, SetAt
    <2>5. HeldInv'
        BY DEF HeldInv, Unwound, SetAt
    <2>6. DoneInv'
        BY DEF DoneInv, Unwound, SetAt, TasksOf
    <2> QED
        BY <2>1, <2>2, <2>3, <2>4, <2>5, <2>6
<1> QED
    BY <1>1, <1>2, <1>3 DEF SpawnStep

LEMMA TaskStepInv == ASSUME IInv, NEW t \in Tasks, TaskEnds(t) PROVE IInv'
<1> USE DEF IInv, TaskEnds, waiting, spawner
<1>0. \A u \in Tasks : /\ task'[u] = "unborn" <=> task[u] = "unborn"
                       /\ task[u] \in {"ended", "panicked"} => task'[u] = task[u]
    BY DEF TypeOK
<1>1. TypeOK'
    BY DEF TypeOK
<1>2. SpawnInv'
    BY <1>0 DEF TypeOK, SpawnInv, SetAt
<1>3. OwnerInv'
    BY DEF OwnerInv, Owns, SetAt
<1>4. UnwindInv'
    BY <1>0 DEF UnwindInv, SetAt
<1>5. HeldInv'
    BY <1>0 DEF HeldInv, Unwound, SetAt
<1>6. DoneInv'
    BY <1>0 DEF DoneInv, Unwound, SetAt, TasksOf
<1> QED
    BY <1>1, <1>2, <1>3, <1>4, <1>5, <1>6

LEMMA WaitStepInv ==
    ASSUME IInv, NEW w \in Waiters, NEW c \in Completions, Wait(w, c) PROVE IInv'
<1> USE DEF IInv, Wait, spawner
<1>0. c \in Seq(Sets) /\ 1 \in DOMAIN c
    <2>1. CASE \E s \in Sets : c = <<s>>
        BY <2>1
    <2>2. CASE \E r, s \in Sets : c = <<r, s>>
        BY <2>2
    <2> QED
        BY <2>1, <2>2 DEF Completions
<1>1. TypeOK'
    BY <1>0 DEF TypeOK
<1>2. SpawnInv'
    BY DEF TypeOK, SpawnInv, SetAt
<1>3. /\ w \notin unwinding /\ waiter'[w] = "take"
      /\ \A v \in Waiters \ {w} : waiter'[v] = waiter[v] /\ SetAt(v)' = SetAt(v)
    BY DEF TypeOK, UnwindInv, SetAt
<1>4. \A v \in Waiters, s \in Sets : Owns(v, s)' <=> (v # w /\ Owns(v, s))
    BY <1>3 DEF Owns
<1>5. \A s \in Sets : Unwound(s)' <=> Unwound(s)
    BY <1>3 DEF TypeOK, Unwound
<1>6. OwnerInv'
    BY <1>4 DEF OwnerInv
<1>7. UnwindInv'
    BY <1>3 DEF TypeOK, UnwindInv
<1>8. HeldInv'
    BY <1>3, <1>5 DEF HeldInv
<1>9. DoneInv'
    BY <1>3, <1>5 DEF DoneInv, TasksOf
<1> QED
    BY <1>1, <1>2, <1>6, <1>7, <1>8, <1>9

------------------------------------------------------------------------------
(* What every step of a waiter leaves alone. *)
LEMMA WaiterFrame ==
    ASSUME IInv, NEW w \in Waiters,
           \/ Take(w) \/ Check(w) \/ BlockOn(w) \/ BlockedOnAll(w) \/ Mark(w)
    PROVE  /\ waiter[w] \notin {"idle", "returned", "asleep", "panicked"}
           /\ SetAt(w) \in Sets /\ SetAt(w) \in spawned
           /\ \A v \in Waiters \ {w} :
                 /\ waiter'[v] = waiter[v] /\ SetAt(v)' = SetAt(v)
                 /\ taken'[v] = taken[v]
                 /\ v \in unwinding' <=> v \in unwinding
           /\ home' = home /\ task' = task /\ pushing' = pushing
           /\ spawned' = spawned /\ joined' = joined
<1>1. waiter[w] \notin {"idle", "returned", "asleep", "panicked"}
    BY DEF Take, Check, BlockOn, BlockedOnAll, Mark
<1>2. SetAt(w) \in Sets /\ SetAt(w) \in spawned
    BY <1>1, SetAtSpawned DEF IInv
<1>3. joined' = joined /\ \A v \in Waiters \ {w} : pos'[v] = pos[v]
    BY DEF IInv, TypeOK, Take, Check, BlockOn, BlockedOnAll, Mark
<1> QED
    BY <1>1, <1>2, <1>3
       DEF IInv, TypeOK, SetAt, Take, Check, BlockOn, BlockedOnAll, Mark, spawner

LEMMA TakeInv == ASSUME IInv, NEW w \in Waiters, Take(w) PROVE IInv'
<1> DEFINE s == SetAt(w)
<1> USE DEF IInv
<1>0. /\ s \in Sets /\ s \in spawned /\ waiter[w] = "take"
      /\ w \notin unwinding /\ w \notin unwinding'
      /\ done' = done /\ pos' = pos /\ joined' = joined /\ SetAt(w)' = s
      /\ taken'[w] = handles[s] /\ handles'[s] = <<>>
      /\ \A r \in Sets \ {s} : handles'[r] = handles[r]
      /\ waiter'[w] = IF handles[s] = <<>> THEN "check" ELSE "block"
      /\ home' = home /\ task' = task /\ pushing' = pushing /\ spawned' = spawned
      /\ unwinding' = unwinding
    BY WaiterFrame DEF TypeOK, UnwindInv, Take, SetAt, spawner
<1>f. \A v \in Waiters \ {w} : /\ waiter'[v] = waiter[v] /\ SetAt(v)' = SetAt(v)
                              /\ taken'[v] = taken[v]
    BY WaiterFrame
<1>1. TypeOK'
    BY <1>0 DEF TypeOK, Take, spawner
<1>2. SpawnInv'
    BY <1>0, <1>f, MembersEmpty DEF SpawnInv
<1>3. \A r \in Sets : Unwound(r)' <=> Unwound(r)
    BY <1>0, <1>f DEF Unwound, TypeOK
<1>4. \A v \in Waiters, r \in Sets :
         Owns(v, r)' <=> IF v = w THEN r = s /\ handles[s] # <<>> ELSE Owns(v, r)
    BY <1>0, <1>f DEF Owns
<1>5. OwnerInv'
    BY <1>0, <1>4 DEF OwnerInv
<1>6. UnwindInv'
    <2>1. unwinding \subseteq Waiters \ {w}
        BY <1>0 DEF TypeOK
    <2> QED
        BY <1>0, <1>f, <2>1 DEF UnwindInv
<1>7. HeldInv'
    <2> SUFFICES ASSUME NEW t \in Tasks, home[t] \in Sets, t \notin pushing,
                        task[t] # "ended", ~Unwound(home[t])
                 PROVE  \/ t \in Members(handles'[home[t]])
                        \/ \E v \in Waiters : /\ waiter'[v] = "block"
                                              /\ SetAt(v)' = home[t]
                                              /\ t \in Members(taken'[v])
        BY <1>0, <1>3 DEF HeldInv
    <2>1. CASE t \in Members(handles[home[t]])
        BY <1>0, <2>1, MembersEmpty
    <2>2. CASE \E v \in Waiters : /\ waiter[v] = "block" /\ SetAt(v) = home[t]
                                  /\ t \in Members(taken[v])
        BY <1>0, <1>f, <2>2
    <2> QED
        BY <2>1, <2>2 DEF HeldInv
<1>8. DoneInv'
    BY <1>0, <1>f, <1>3 DEF DoneInv, TasksOf
<1> QED
    BY <1>1, <1>2, <1>5, <1>6, <1>7, <1>8

(* The position stays within the completion. *)
LEMMA NextInRange ==
    ASSUME TypeOK, NEW w \in Waiters
    PROVE  /\ NextFor(w) \in {"take", "returned"}
           /\ pos[w] + 1 \in Nat
           /\ NextFor(w) = "take" => pos[w] + 1 \in DOMAIN joined[w]
<1>1. /\ pos[w] \in Nat /\ Len(joined[w]) \in Nat
      /\ DOMAIN joined[w] = 1 .. Len(joined[w])
    BY DEF TypeOK
<1> QED
    BY <1>1 DEF NextFor

LEMMA CheckInv == ASSUME IInv, NEW w \in Waiters, Check(w) PROVE IInv'
<1> USE DEF IInv
<1>0. /\ waiter[w] = "check" /\ waiter'[w] \in {"asleep", "take", "returned"}
      /\ w \notin unwinding /\ unwinding' = unwinding
      /\ handles' = handles /\ done' = done /\ taken' = taken
      /\ home' = home /\ task' = task /\ pushing' = pushing /\ spawned' = spawned
      /\ joined' = joined
    BY DEF TypeOK, UnwindInv, Check, NextFor, spawner
<1>f. \A v \in Waiters \ {w} : waiter'[v] = waiter[v] /\ SetAt(v)' = SetAt(v)
    BY WaiterFrame
<1>1. TypeOK'
    <2>1. /\ NextFor(w) \in {"take", "returned"} /\ pos[w] + 1 \in Nat
          /\ NextFor(w) = "take" => pos[w] + 1 \in DOMAIN joined[w]
        BY NextInRange
    <2> QED
        BY <1>0, <2>1 DEF TypeOK, Check
<1>2. SpawnInv'
    BY <1>0, <1>f DEF SpawnInv
<1>3. unwinding \subseteq Waiters \ {w}
    BY <1>0 DEF TypeOK
<1>4. \A r \in Sets : Unwound(r)' <=> Unwound(r)
    BY <1>0, <1>f, <1>3 DEF Unwound
<1>5. \A v \in Waiters, r \in Sets : Owns(v, r)' <=> v # w /\ Owns(v, r)
    BY <1>0, <1>f DEF Owns
<1>6. OwnerInv'
    BY <1>0, <1>5 DEF OwnerInv
<1>7. UnwindInv'
    BY <1>0, <1>f, <1>3 DEF UnwindInv
<1>8. HeldInv'
    BY <1>0, <1>f, <1>4 DEF HeldInv
<1>9. DoneInv'
    BY <1>0, <1>f, <1>4 DEF DoneInv, TasksOf
<1> QED
    BY <1>1, <1>2, <1>6, <1>7, <1>8, <1>9

LEMMA BlockOnInv == ASSUME IInv, NEW w \in Waiters, BlockOn(w) PROVE IInv'
<1> DEFINE s == SetAt(w)
           h == Head(taken[w])
<1> USE DEF IInv
<1>0. /\ s \in Sets /\ s \in spawned /\ SetAt(w)' = s
      /\ waiter[w] = "block" /\ w \notin unwinding /\ Owns(w, s)
      /\ handles' = handles /\ done' = done /\ pos' = pos /\ joined' = joined
      /\ home' = home /\ task' = task /\ pushing' = pushing /\ spawned' = spawned
    BY WaiterFrame DEF TypeOK, UnwindInv, BlockOn, SetAt, Owns, spawner
<1>h. /\ h \in Tasks /\ home[h] = s /\ Tail(taken[w]) \in Seq(Tasks)
      /\ Members(taken[w]) = {h} \cup Members(Tail(taken[w]))
    <2>1. taken[w] \in Seq(Tasks) /\ taken[w] # <<>>
        BY DEF TypeOK, BlockOn
    <2>2. /\ h \in Tasks /\ Tail(taken[w]) \in Seq(Tasks)
          /\ Members(taken[w]) = {h} \cup Members(Tail(taken[w]))
        BY <2>1, MembersTail
    <2> QED
        BY <1>0, <2>2 DEF SpawnInv
<1>f. \A v \in Waiters \ {w} : /\ waiter'[v] = waiter[v] /\ SetAt(v)' = SetAt(v)
                              /\ taken'[v] = taken[v]
    BY WaiterFrame
<1>u. unwinding \subseteq Waiters \ {w}
    BY <1>0 DEF TypeOK
<1>1. CASE task[h] = "ended"
    <2>0. /\ waiter' = waiter /\ unwinding' = unwinding
          /\ taken'[w] = Tail(taken[w]) /\ taken' \in [Waiters -> Seq(Tasks)]
        BY <1>1, <1>h DEF BlockOn, TypeOK
    <2>1. TypeOK'
        BY <1>0, <2>0 DEF TypeOK
    <2>2. SpawnInv'
        <3>1. \A v \in Waiters : waiter[v] = "block" =>
                 \A t \in Members(taken'[v]) : home[t] = SetAt(v)'
            <4>1. \A v \in Waiters : /\ SetAt(v)' = SetAt(v)
                                     /\ Members(taken'[v]) \subseteq Members(taken[v])
                BY <1>0, <1>f, <1>h, <2>0
            <4> QED
                BY <4>1 DEF SpawnInv
        <3> QED
            BY <1>0, <2>0, <3>1 DEF SpawnInv
    <2>3. \A r \in Sets : Unwound(r)' <=> Unwound(r)
        BY <1>f, <1>u, <2>0 DEF Unwound
    <2>4. \A v \in Waiters, r \in Sets : Owns(v, r)' <=> Owns(v, r)
        BY <1>0, <1>f, <2>0 DEF Owns
    <2>5. OwnerInv'
        BY <1>0, <2>4 DEF OwnerInv
    <2>6. UnwindInv'
        BY <1>0, <1>f, <1>u, <2>0 DEF UnwindInv
    <2>7. HeldInv'
        <3> SUFFICES ASSUME NEW t \in Tasks, home[t] \in Sets, t \notin pushing,
                            task[t] # "ended", ~Unwound(home[t]),
                            t \notin Members(handles[home[t]])
                     PROVE  \E v \in Waiters : /\ waiter'[v] = "block"
                                               /\ SetAt(v)' = home[t]
                                               /\ t \in Members(taken'[v])
            BY <1>0, <2>3 DEF HeldInv
        <3>1. PICK v \in Waiters : /\ waiter[v] = "block" /\ SetAt(v) = home[t]
                                   /\ t \in Members(taken[v])
            BY DEF HeldInv
        <3>2. CASE v = w
            BY <1>0, <1>1, <1>h, <2>0, <3>1, <3>2
        <3>3. CASE v # w
            BY <1>f, <3>1, <3>3
        <3> QED
            BY <3>2, <3>3
    <2>8. DoneInv'
        BY <1>0, <1>f, <2>0, <2>3 DEF DoneInv, TasksOf
    <2> QED
        BY <2>1, <2>2, <2>5, <2>6, <2>7, <2>8
<1>2. CASE task[h] = "panicked"
    <2>0. /\ waiter'[w] = "mark" /\ unwinding' = unwinding \cup {w}
          /\ taken'[w] = <<>> /\ taken' \in [Waiters -> Seq(Tasks)]
          /\ waiter' = [waiter EXCEPT ![w] = "mark"]
        <3>1. /\ taken' = [taken EXCEPT ![w] = <<>>]
              /\ unwinding' = unwinding \cup {w}
              /\ waiter' = [waiter EXCEPT ![w] = "mark"]
            BY <1>2 DEF BlockOn
        <3>2. <<>> \in Seq(Tasks)
            OBVIOUS
        <3> QED
            BY <3>1, <3>2 DEF TypeOK
    <2>1. TypeOK'
        BY <1>0, <2>0 DEF TypeOK
    <2>2. SpawnInv'
        BY <1>0, <1>f, <2>0 DEF SpawnInv
    <2>3. \A r \in Sets : Unwound(r)' <=> Unwound(r) \/ r = s
        BY <1>0, <1>f, <1>u, <2>0 DEF Unwound
    <2>4. \A v \in Waiters, r \in Sets : Owns(v, r)' <=> Owns(v, r)
        BY <1>0, <1>f, <2>0 DEF Owns
    <2>5. OwnerInv'
        BY <1>0, <2>4 DEF OwnerInv
    <2>6. UnwindInv'
        BY <1>0, <1>2, <1>f, <1>h, <1>u, <2>0 DEF UnwindInv
    <2>7. HeldInv'
        BY <1>0, <1>f, <2>0, <2>3 DEF HeldInv
    <2>8. DoneInv'
        BY <1>0, <1>f, <2>0, <2>3 DEF DoneInv, TasksOf
    <2> QED
        BY <2>1, <2>2, <2>5, <2>6, <2>7, <2>8
<1> QED
    BY <1>1, <1>2 DEF BlockOn

LEMMA BlockedOnAllInv == ASSUME IInv, NEW w \in Waiters, BlockedOnAll(w) PROVE IInv'
<1> DEFINE s == SetAt(w)
<1> USE DEF IInv
<1>0. /\ s \in Sets /\ s \in spawned /\ SetAt(w)' = s
      /\ waiter[w] = "block" /\ waiter'[w] = "mark" /\ taken[w] = <<>>
      /\ waiter' = [waiter EXCEPT ![w] = "mark"]
      /\ w \notin unwinding /\ unwinding' = unwinding /\ Owns(w, s)
      /\ handles' = handles /\ done' = done /\ taken' = taken
      /\ pos' = pos /\ joined' = joined
      /\ home' = home /\ task' = task /\ pushing' = pushing /\ spawned' = spawned
    BY WaiterFrame DEF TypeOK, UnwindInv, BlockedOnAll, SetAt, Owns, spawner
<1>f. \A v \in Waiters \ {w} : waiter'[v] = waiter[v] /\ SetAt(v)' = SetAt(v)
    BY WaiterFrame
<1>u. unwinding \subseteq Waiters \ {w}
    BY <1>0 DEF TypeOK
<1>1. TypeOK'
    BY <1>0 DEF TypeOK
<1>2. SpawnInv'
    BY <1>0, <1>f DEF SpawnInv
<1>3. \A r \in Sets : Unwound(r)' <=> Unwound(r)
    BY <1>0, <1>f, <1>u DEF Unwound
<1>4. \A v \in Waiters, r \in Sets : Owns(v, r)' <=> Owns(v, r)
    BY <1>0, <1>f DEF Owns
<1>5. OwnerInv'
    BY <1>0, <1>4 DEF OwnerInv
<1>6. UnwindInv'
    BY <1>0, <1>f, <1>u DEF UnwindInv
<1>7. HeldInv'
    BY <1>0, <1>f, <1>3, MembersEmpty DEF HeldInv
<1>8. Unwound(s) \/ \A t \in TasksOf(s) : task[t] = "ended"
    <2> SUFFICES ASSUME ~Unwound(s), NEW t \in TasksOf(s) PROVE task[t] = "ended"
        OBVIOUS
    <2>1. t \in Tasks /\ home[t] = s /\ t \notin pushing /\ handles[s] = <<>>
        BY <1>0 DEF TasksOf, SpawnInv, OwnerInv
    <2>2. \A v \in Waiters : waiter[v] = "block" /\ SetAt(v) = s => v = w
        BY <1>0 DEF OwnerInv, Owns
    <2> QED
        BY <1>0, <2>1, <2>2, MembersEmpty DEF HeldInv
<1>9. DoneInv'
    BY <1>0, <1>f, <1>3, <1>8 DEF DoneInv, TasksOf
<1> QED
    BY <1>1, <1>2, <1>5, <1>6, <1>7, <1>9

LEMMA MarkInv == ASSUME IInv, NEW w \in Waiters, Mark(w) PROVE IInv'
<1> DEFINE s == SetAt(w)
<1> USE DEF IInv
<1>0. /\ s \in Sets /\ s \in spawned
      /\ waiter[w] = "mark" /\ waiter' = [waiter EXCEPT ![w] = "notify"]
      /\ done' = [done EXCEPT ![s] = TRUE]
      /\ handles' = handles /\ taken' = taken /\ unwinding' = unwinding
      /\ pos' = pos /\ joined' = joined
      /\ home' = home /\ task' = task /\ pushing' = pushing /\ spawned' = spawned
    BY WaiterFrame DEF Mark, spawner
<1>f. \A v \in Waiters : /\ SetAt(v)' = SetAt(v)
                        /\ waiter'[v] = IF v = w THEN "notify" ELSE waiter[v]
    BY <1>0 DEF TypeOK, SetAt
<1>1. TypeOK'
    BY <1>0 DEF TypeOK
<1>2. SpawnInv'
    BY <1>0, <1>f DEF SpawnInv
<1>u. unwinding \subseteq Waiters
    BY DEF TypeOK
<1>3. \A r \in Sets : Unwound(r)' <=> Unwound(r)
    BY <1>0, <1>f, <1>u DEF Unwound
<1>4. \A v \in Waiters, r \in Sets : Owns(v, r)' <=> Owns(v, r)
    BY <1>0, <1>f DEF Owns
<1>5. OwnerInv'
    BY <1>0, <1>4 DEF OwnerInv
<1>6. UnwindInv'
    BY <1>0, <1>f, <1>u DEF UnwindInv
<1>7. HeldInv'
    BY <1>0, <1>f, <1>3 DEF HeldInv
<1>8. DoneInv'
    BY <1>0, <1>f, <1>3 DEF DoneInv, TasksOf, TypeOK
<1> QED
    BY <1>1, <1>2, <1>5, <1>6, <1>7, <1>8

LEMMA NotifyAllInv == ASSUME IInv, NEW w \in Waiters, NotifyAll(w) PROVE IInv'
<1> DEFINE s == SetAt(w)
<1> USE DEF IInv
<1>0. /\ waiter[w] = "notify"
      /\ handles' = handles /\ done' = done /\ taken' = taken
      /\ unwinding' = unwinding /\ joined' = joined
      /\ home' = home /\ task' = task /\ pushing' = pushing /\ spawned' = spawned
    BY DEF NotifyAll, spawner
<1>f. \A v \in Waiters \ {w} :
         /\ SetAt(v)' = SetAt(v)
         /\ waiter'[v] = waiter[v] \/ (waiter[v] = "asleep" /\ waiter'[v] = "check")
    BY DEF NotifyAll, Woken, TypeOK, SetAt
<1>u. unwinding \subseteq Waiters
    BY DEF TypeOK
<1>1. CASE w \in unwinding
    <2>0. waiter'[w] = "panicked" /\ pos' = pos /\ SetAt(w)' = s
        BY <1>1 DEF NotifyAll, Woken, TypeOK, SetAt
    <2>1. TypeOK'
        BY <1>0, <1>1, <2>0 DEF TypeOK, NotifyAll, Woken
    <2>2. SpawnInv'
        BY <1>0, <1>f, <2>0 DEF SpawnInv
    <2>3. \A r \in Sets : Unwound(r)' <=> Unwound(r)
        BY <1>0, <1>f, <1>u, <2>0 DEF Unwound
    <2>4. \A v \in Waiters, r \in Sets : Owns(v, r)' <=> Owns(v, r)
        BY <1>0, <1>1, <1>f, <2>0 DEF Owns
    <2>5. OwnerInv'
        BY <1>0, <2>4 DEF OwnerInv
    <2>6. UnwindInv'
        BY <1>0, <1>f, <1>u, <2>0 DEF UnwindInv
    <2>7. HeldInv'
        BY <1>0, <1>f, <2>0, <2>3 DEF HeldInv
    <2>8. DoneInv'
        BY <1>0, <1>f, <2>0, <2>3 DEF DoneInv, TasksOf
    <2> QED
        BY <2>1, <2>2, <2>5, <2>6, <2>7, <2>8
<1>2. CASE w \notin unwinding
    <2>0. /\ waiter' = [Woken(s) EXCEPT ![w] = NextFor(w)]
          /\ pos' = [pos EXCEPT ![w] = @ + 1]
          /\ NextFor(w) \in {"take", "returned"} /\ pos[w] + 1 \in Nat
          /\ NextFor(w) = "take" => pos[w] + 1 \in DOMAIN joined[w]
        BY <1>2, NextInRange DEF NotifyAll
    <2>a. waiter'[w] \in {"take", "returned"}
        BY <2>0 DEF Woken
    <2>1. TypeOK'
        BY <1>0, <2>0 DEF TypeOK, Woken
    <2>2. SpawnInv'
        BY <1>0, <1>f, <2>a DEF SpawnInv
    <2>3. \A r \in Sets : Unwound(r)' <=> Unwound(r)
        BY <1>0, <1>2, <1>f, <1>u DEF Unwound
    <2>4. \A v \in Waiters, r \in Sets : Owns(v, r)' <=> v # w /\ Owns(v, r)
        BY <1>0, <1>2, <1>f, <2>a DEF Owns
    <2>5. OwnerInv'
        BY <1>0, <2>4 DEF OwnerInv
    <2>6. UnwindInv'
        BY <1>0, <1>2, <1>f, <1>u DEF UnwindInv
    <2>7. HeldInv'
        BY <1>0, <1>f, <2>a, <2>3 DEF HeldInv
    <2>8. DoneInv'
        BY <1>0, <1>f, <2>a, <2>3 DEF DoneInv, TasksOf
    <2> QED
        BY <2>1, <2>2, <2>5, <2>6, <2>7, <2>8
<1> QED
    BY <1>1, <1>2

------------------------------------------------------------------------------
LEMMA StepInv == IInv /\ [Next]_vars => IInv'
<1> SUFFICES ASSUME IInv, [Next]_vars PROVE IInv'
    OBVIOUS
<1>1. CASE SpawnStep
    BY <1>1, SpawnStepInv
<1>2. ASSUME NEW t \in Tasks, TaskEnds(t) PROVE IInv'
    BY <1>2, TaskStepInv
<1>3. ASSUME NEW w \in Waiters, NEW c \in Completions, Wait(w, c) PROVE IInv'
    BY <1>3, WaitStepInv
<1>4. ASSUME NEW w \in Waiters, WaiterStep(w) PROVE IInv'
    BY <1>4, TakeInv, CheckInv, BlockOnInv, BlockedOnAllInv, MarkInv, NotifyAllInv
       DEF WaiterStep
<1>5. CASE UNCHANGED vars
    BY <1>5 DEF vars, IInv, TypeOK, SpawnInv, OwnerInv, UnwindInv, HeldInv, DoneInv,
                Owns, Unwound, TasksOf, SetAt
<1> QED
    BY <1>1, <1>2, <1>3, <1>4, <1>5 DEF Next

(* The invariant above holds throughout. *)
THEOREM SetInvariant == Spec => []IInv
    BY InitInv, StepInv, PTL DEF Spec

(* Sets, handles and waiters stay well typed: a waiter is always at one of the *)
(* sets its completion lists.                                                  *)
THEOREM SetTyped == Spec => []TypeOK
<1>1. IInv => TypeOK
    BY DEF IInv
<1> QED
    BY <1>1, SetInvariant, PTL

(* No panic is swallowed: a set that completes with a task that did not end    *)
(* well has unwound into a waiter, and into no other.                          *)
THEOREM NoPanicSwallowed == Spec => []PanicsPropagate
<1>1. IInv => PanicsPropagate
    <2> SUFFICES ASSUME IInv, NEW s \in Sets
                 PROVE  LET Blamed == {w \in unwinding : SetAt(w) = s}
                        IN  /\ done[s] /\ Blamed = {} =>
                                  \A t \in TasksOf(s) : task[t] = "ended"
                            /\ \A v, w \in Blamed : v = w
        BY DEF PanicsPropagate
    <2>1. done[s] /\ ~Unwound(s) => \A t \in TasksOf(s) : task[t] = "ended"
        BY DEF IInv, DoneInv
    <2>2. \A v, w \in unwinding : SetAt(v) = s /\ SetAt(w) = s => v = w
        BY DEF IInv, TypeOK, OwnerInv, Owns
    <2> QED
        BY <2>1, <2>2 DEF Unwound
<1> QED
    BY <1>1, SetInvariant, PTL

(* A set counts as complete only once its tasks have ended, or one of them     *)
(* has panicked.                                                               *)
THEOREM CompleteMeansEnded == Spec => []DoneMeansEnded
<1>1. IInv => DoneMeansEnded
    BY DEF IInv, DoneInv, UnwindInv, DoneMeansEnded, Unwound, TasksOf, Ended
<1> QED
    BY <1>1, SetInvariant, PTL
==============================================================================

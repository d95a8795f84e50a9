------------------------------- MODULE Metrics -------------------------------
(* A service's command metrics: metrics.rs, CommandMetrics, SampleRing and  *)
(* SamplingState, and the places of handlers.rs that count and sample.      *)
(*                                                                          *)
(* Callers send commands and then count them; the loop takes them, executes *)
(* each under the write lock, samples the depth when it is time to, and     *)
(* counts them once it has let the lock go.  Anybody may ask for statistics *)
(* meanwhile.  A sum over the counters loads one of them per step.          *)
(*                                                                          *)
(* A counter stands as the set of the commands it has counted, its value    *)
(* being the size of that set; each command is sent at most once.  Order in *)
(* the queue makes no difference here, so the queue is a set too.           *)
(*                                                                          *)
(* The counters are atomics accessed with Ordering::Relaxed.  A load may    *)
(* return any value the counter has had, however old, as long as whoever    *)
(* loads it is not bound to have seen a newer one: by its own increments,   *)
(* by its earlier loads, or because the mutex of the ring has since come to *)
(* it from somebody who was.  No load orders another counter's.  The order  *)
(* the queue, the locks of the state and the callers' own increments give   *)
(* as well is left out, and what a reader knows from before its call: the   *)
(* loads of the model are no less free than the code's.                     *)
EXTENDS Integers, Sequences, FiniteSets, FiniteSetsExt

CONSTANTS
    N,                \* number of commands a service declares: its indices are 0..N-1
    Commands,         \* the commands sent
    IndexOf,          \* the index of each: which method it is of
    Readers, Loop,    \* those who ask for statistics, and the service loop
    Capacity,         \* slots of the ring
    CommandInterval, TimeInterval,  \* DEFAULT_SAMPLE_*
    MaxTime           \* bound on the clock

ASSUME MetricsAssumption ==
    /\ N \in Nat \ {0}
    /\ IsFiniteSet(Commands)
    /\ IndexOf \in [Commands -> 0 .. N-1]
    /\ Loop \notin Readers /\ "free" \notin Readers
    /\ Capacity \in Nat \ {0}
    /\ CommandInterval \in Nat \ {0} /\ TimeInterval \in Nat
    /\ MaxTime \in Nat

VARIABLES
    now,
    sent, taken,          \* commands put into the queue, and taken out
    enqueued, processed,  \* commands the two arrays of counters have counted
    loop, hand,           \* where the loop is, the command it has taken
    buffer, head, len,    \* SampleRing
    mutex,                \* who is inside the mutex of the ring
    since, last,          \* SamplingState: commands_since_sample, last_sample_time
    sum,                  \* the sum somebody is taking: see Load
    history,              \* every value each counter has had
    known,                \* the least count of each that one is bound to see
    released,             \* what the ring's mutex was last given up with of that
    samples               \* every sample recorded, oldest first

counters == <<enqueued, processed, history>>
loopVars == <<taken, loop, hand>>
ring == <<buffer, head, len>>
sampling == <<since, last>>
summing == <<sum, known, released>>
vars == <<now, sent, counters, loopVars, ring, mutex, sampling, summing, samples>>

Indices == 0 .. N-1
Summers == Readers \cup {Loop}
Of(S, i) == {c \in S : IndexOf[c] = i}

(* u64::saturating_sub. *)
Monus(a, b) == IF a > b THEN a - b ELSE 0

(* The two sums of total_depth.  The totals aggregate_stats adds up after   *)
(* them, of the same counters, are left out.                                *)
Sums == {"enqueued", "processed"}
Nothing == [s \in Sums |-> {}]

(* A call goes over the counters from..to, a single one in command_stats.   *)
SumOf(at, i, j) ==
    [at |-> at, from |-> i, to |-> j, i |-> i, seen |-> Nothing]
NoSum == SumOf("none", 0, 0)
Begun(i, j) == SumOf("enqueued", i, j)

(* What total_depth returns of the loads it has made. *)
DepthOf(seen) ==
    Monus(Cardinality(seen.enqueued), Cardinality(seen.processed))

Slots == 0 .. Capacity-1
NoSample == [at |-> 0, depth |-> 0]

(* p's sum is over, and of all it saw it goes on knowing k.                 *)
SumOver(p, k) ==
    /\ sum' = [sum EXCEPT ![p] = NoSum]
    /\ known' = [known EXCEPT ![p] = k]

(* What two who meet in the mutex know between them.                        *)
Join(k, r) == [s \in Sums |-> k[s] \cup r[s]]

(* The counter of c in s comes to its value in S.                           *)
Counts(s, c, S) ==
    history' = [history EXCEPT ![s][IndexOf[c]] = @ \cup {Of(S, IndexOf[c])}]

Depths == 0 .. Cardinality(Commands)

TypeOK ==
    /\ now \in 0 .. MaxTime
    /\ processed \subseteq taken /\ taken \subseteq sent /\ sent \subseteq Commands
    /\ enqueued \subseteq sent
    /\ loop \in {"select", "turn", "sum", "reset", "count"}
    /\ hand \subseteq taken \ processed
    /\ buffer \in [Slots -> [at : 0 .. MaxTime, depth : Depths]]
    /\ head \in Slots /\ len \in 0 .. Capacity
    /\ mutex \in Readers \cup {"free"}
    /\ since \in Nat /\ last \in 0 .. MaxTime
    /\ sum \in [Summers -> [at : Sums \cup {"none", "done"}, from : Indices, to : Indices,
                            i : Indices, seen : [Sums -> SUBSET Commands]]]
    /\ history \in [Sums -> [Indices -> SUBSET SUBSET Commands]]
    /\ known \in [Summers -> [Sums -> SUBSET Commands]]
    /\ released \in [Sums -> SUBSET Commands]

Init ==
    /\ now = 0
    /\ sent = {} /\ taken = {}
    /\ enqueued = {} /\ processed = {}
    /\ loop = "select" /\ hand = {}
    /\ buffer = [s \in Slots |-> NoSample] /\ head = 0 /\ len = 0
    /\ mutex = "free"
    /\ since = 0 /\ last = 0
    /\ sum = [p \in Summers |-> NoSum]
    /\ history = [s \in Sums |-> [i \in Indices |-> {{}}]]
    /\ known = [p \in Summers |-> Nothing]
    /\ released = Nothing
    /\ samples = <<>>

Tick ==
    /\ now < MaxTime
    /\ now' = now + 1
    /\ UNCHANGED <<sent, counters, loopVars, ring, mutex, sampling, summing,
                   samples>>

------------------------------------------------------------------------------
(* A handle method sends its command ...                                    *)
Send(c) ==
    /\ c \notin sent
    /\ sent' = sent \cup {c}
    /\ UNCHANGED <<now, counters, loopVars, ring, mutex, sampling, summing,
                   samples>>

(* ... and then counts it: inc_enqueued.                                    *)
IncEnqueued(c) ==
    /\ c \in sent \ enqueued
    /\ enqueued' = enqueued \cup {c}
    /\ Counts("enqueued", c, enqueued')
    /\ UNCHANGED <<now, sent, processed, loopVars, ring, mutex, sampling, summing,
                   samples>>

------------------------------------------------------------------------------
(* A sum over counters, one load a step.  Whoever sums loads the counters   *)
(* of sum[p].at in the order of their indices, then goes on to the next     *)
(* sum, as Then says.                                                       *)

(* total_depth: the enqueued, then the processed. *)
Then(s) == IF s = "enqueued" THEN "processed" ELSE "done"

(* What a Relaxed load of the i-th counter of s may give to p. *)
Loadable(p, s, i) == {v \in history[s][i] : Of(known[p][s], i) \subseteq v}

(* p's sum with one more counter loaded. *)
WithLoad(p, v) ==
    LET s == sum[p].at
        over == sum[p].i = sum[p].to
    IN  [sum[p] EXCEPT !.seen[s] = @ \cup v,
                       !.i = IF over THEN sum[p].from ELSE @ + 1,
                       !.at = IF over THEN Then(s) ELSE s]

Load(p) ==
    /\ sum[p].at \in Sums
    /\ \E v \in Loadable(p, sum[p].at, sum[p].i) :
          /\ sum' = [sum EXCEPT ![p] = WithLoad(p, v)]
          /\ known' = [known EXCEPT ![p][sum[p].at] = @ \cup v]
    /\ UNCHANGED <<now, sent, counters, loopVars, ring, mutex, sampling, released,
                   samples>>

------------------------------------------------------------------------------
(* The loop.  It takes a command and executes it ...                        *)
Receive(c) ==
    /\ loop = "select" /\ c \in sent \ taken
    /\ taken' = taken \cup {c}
    /\ hand' = {c}
    /\ loop' = "turn"
    /\ UNCHANGED <<now, sent, counters, ring, mutex, sampling,
                   summing, samples>>

(* Slip: one command late. *)
XShouldSample(n, t) == n > CommandInterval \/ t - last >= TimeInterval

(* SamplingState::should_sample, with n commands counted, at time t.        *)
ShouldSample(n, t) == n >= CommandInterval \/ t - last >= TimeInterval

(* ... counts it for the sampling, and sees whether it is time.             *)
EndTurn ==
    /\ loop = "turn"
    /\ since' = since + 1
    /\ IF ShouldSample(since + 1, now)
       THEN loop' = "sum" /\ sum' = [sum EXCEPT ![Loop] = Begun(0, N-1)]
       ELSE loop' = "count" /\ UNCHANGED sum
    /\ UNCHANGED <<now, sent, counters, taken, hand, ring, mutex, last, known,
                   released, samples>>

(* record_sample: once the depth is summed up it is pushed under the mutex, *)
(* into the slot at the head.                                               *)
Push ==
    /\ loop = "sum" /\ sum[Loop].at = "done"
    /\ mutex = "free"
    /\ LET new == [at |-> now, depth |-> DepthOf(sum[Loop].seen)]
       IN  /\ buffer' = [buffer EXCEPT ![head] = new]
           /\ samples' = Append(samples, [at |-> now, depth |-> new.depth,
                                          nth |-> Cardinality(taken)])
    /\ head' = (head + 1) % Capacity
    /\ len' = IF len < Capacity THEN len + 1 ELSE len
    /\ released' = Join(known[Loop], released)
    /\ SumOver(Loop, released')
    /\ loop' = "reset"
    /\ UNCHANGED <<now, sent, counters, taken, hand, mutex, sampling>>

(* SamplingState::reset. *)
Reset ==
    /\ loop = "reset"
    /\ since' = 0 /\ last' = now
    /\ loop' = "count"
    /\ UNCHANGED <<now, sent, counters, taken, hand, ring, mutex, summing,
                   samples>>

(* inc_processed, after the lock has been let go. *)
IncProcessed ==
    /\ loop = "count"
    /\ \E c \in hand :
          /\ processed' = processed \cup {c}
          /\ Counts("processed", c, processed')
          /\ known' = [known EXCEPT ![Loop]["processed"] = @ \cup {c}]
    /\ hand' = {}
    /\ loop' = "select"
    /\ UNCHANGED <<now, sent, enqueued, taken, ring, mutex, sampling, sum, released,
                   samples>>

------------------------------------------------------------------------------
(* Slip: the newest sample is looked for at the head. *)
XSlotOf(i) == (head + Capacity - i) % Capacity

(* The slot of the i-th newest sample. *)
SlotOf(i) == (head + Capacity - 1 - i) % Capacity

Newest(i) == buffer[SlotOf(i)]

(* SampleRing::stats_since: samples from the newest on, until one is older  *)
(* than t.  A mean is left as the sum and the number it divides.            *)
StatsSince(t) ==
    LET depth == [i \in 0 .. len-1 |-> Newest(i).depth]
        counted == {i \in 0 .. len-1 : \A j \in 0 .. i : Newest(j).at >= t}
    IN  [sum |-> SumFunctionOnSet(depth, counted),
         max |-> Max({depth[i] : i \in counted} \cup {0}),
         count |-> Cardinality(counted)]

(* Slip: the depth is summed up before the mutex is taken, as record_sample *)
(* does it. *)
XAsk(p) ==
    /\ sum[p].at = "none"
    /\ mutex = "free"
    /\ mutex' = p
    /\ sum' = [sum EXCEPT ![p] = Begun(0, N-1)]
    /\ UNCHANGED <<now, sent, counters, loopVars, ring, sampling, known, released,
                   samples>>

(* aggregate_stats takes the mutex of the ring and sums up the depth ...    *)
Ask(p) ==
    /\ sum[p].at = "none"
    /\ mutex = "free"
    /\ mutex' = p
    /\ known' = [known EXCEPT ![p] = Join(@, released)]
    /\ sum' = [sum EXCEPT ![p] = Begun(0, N-1)]
    /\ UNCHANGED <<now, sent, counters, loopVars, ring, sampling, released, samples>>

(* ... and returns it, with StatsSince of its windows, each from a time it  *)
(* read from the clock under the mutex.                                     *)
Answer(p) ==
    /\ sum[p].at = "done" /\ mutex = p
    /\ mutex' = "free"
    /\ released' = known[p]
    /\ SumOver(p, Nothing)
    /\ UNCHANGED <<now, sent, counters, loopVars, ring, sampling, samples>>

(* command_stats: the same two loads for a single command, with no lock.    *)
AskCommand(p, i) ==
    /\ sum[p].at = "none"
    /\ sum' = [sum EXCEPT ![p] = Begun(i, i)]
    /\ UNCHANGED <<now, sent, counters, loopVars, ring, mutex, sampling, known,
                   released, samples>>

AnswerCommand(p) ==
    /\ sum[p].at = "done" /\ mutex # p
    /\ SumOver(p, Nothing)
    /\ UNCHANGED <<now, sent, counters, loopVars, ring, mutex, sampling, released,
                   samples>>

------------------------------------------------------------------------------
LoopStep ==
    \/ \E c \in Commands : Receive(c)
    \/ EndTurn
    \/ Push
    \/ Reset
    \/ IncProcessed

Next ==
    \/ Tick
    \/ \E c \in Commands : Send(c) \/ IncEnqueued(c)
    \/ \E p \in Summers : Load(p)
    \/ LoopStep
    \/ \E p \in Readers :
          \/ Ask(p) \/ Answer(p)
          \/ \E i \in Indices : AskCommand(p, i)
          \/ AnswerCommand(p)

Spec == Init /\ [][Next]_vars

------------------------------------------------------------------------------
(* However stale the counters it loads, a depth sampled is no larger than   *)
(* the number of commands handed over and not executed, for the loop knows  *)
(* what it has processed; and a depth aggregate_stats returns exceeds that  *)
(* number by CommandInterval at most, for the mutex it holds came to it     *)
(* from the last sample, and no sample is further back.  Of command_stats,  *)
(* which takes no mutex, nothing is said: its depth may exceed it by any    *)
(* number (metrics.rs:61-66, 79-91, 110-120).                               *)
DepthBounded ==
    LET unfinished == Cardinality(sent \ processed)
    IN  /\ sum[Loop].at = "done" => DepthOf(sum[Loop].seen) <= unfinished
        /\ \A p \in Readers :
              sum[p].at = "done" /\ mutex = p =>
                  DepthOf(sum[p].seen) <= unfinished + CommandInterval

(* Whatever time one asks from, the statistics over the ring are those of   *)
(* the samples recorded since, as far as the ring reaches back: across its  *)
(* wrap, before it is full, with equal times (metrics.rs:219-256).          *)
RingExact ==
    LET depth == [i \in DOMAIN samples |-> samples[i].depth]
    IN  \A t \in 0 .. MaxTime :
        LET recent == {i \in DOMAIN samples :
                          i > Len(samples) - Capacity /\ samples[i].at >= t}
        IN  StatsSince(t) =
               [sum |-> SumFunctionOnSet(depth, recent),
                max |-> Max({depth[i] : i \in recent} \cup {0}),
                count |-> Cardinality(recent)]

(* Samples are neither too rare nor too frequent: the next comes no later   *)
(* than CommandInterval commands after one, and sooner only if at least     *)
(* TimeInterval has passed (metrics.rs:277-300, handlers.rs:1003-1007).     *)
SamplesPaced ==
    LET nth(i) == IF i = 0 THEN 0 ELSE samples[i].nth
        at(i) == IF i = 0 THEN 0 ELSE samples[i].at
    IN  /\ loop = "select" =>
              Cardinality(taken) - nth(Len(samples)) < CommandInterval
        /\ \A i \in DOMAIN samples :
              LET n == nth(i) - nth(i-1)
              IN  /\ n <= CommandInterval
                  /\ n < CommandInterval => at(i) - at(i-1) >= TimeInterval

==============================================================================

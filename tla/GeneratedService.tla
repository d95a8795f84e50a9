---------------------------- MODULE GeneratedService ----------------------------
(* A service from its source to its first commands: what the two macros     *)
(* make of it, new(), the spawn builder, and the body of the generated      *)
(* spawn_with, step by step, with what those who already hold a handle do   *)
(* meanwhile.  From there on it is ServiceLoop's, with the sources of       *)
(* EventChannel, the slot of ViewSlot, the set of TaskSet and the cell of   *)
(* OpsCell; here the loop only executes commands, in order, and the         *)
(* counters are two numbers that move together with what they count.        *)
EXTENDS HandlersMacro, ServiceMacro

CONSTANTS
    Programs,            \* sources: records of a struct and a block of methods
    Arguments,           \* what a context task can be given
    NoArgument,          \* a context field that is None
    MaxCells, MaxSends   \* bounds

ASSUME GeneratedAssumption ==
    NoArgument \notin Arguments /\ MaxCells \in Nat /\ MaxSends \in Nat

MainLoop == "main loop"
Expirer == "expiry loop"

(* Sources as the macros meet them.  Whatever they hold, a gauge's type is   *)
(* one of those that GaugeValue is implemented for; and rustc refuses an     *)
(* impl block with two methods of a name, and a struct with two such fields. *)
MethodSource ==
    [name : STRING \ {MainLoop, Expirer}, variant : STRING,
     metas : Seq([is : STRING, execute : BOOLEAN, timeout : BOOLEAN]),
     self : BOOLEAN, params : Nat, args : {"simple", "unnamed", "pattern"},
     returns : STRING]

GaugeTypes ==
    [kind : {"signed", "unsigned"}, bits : 2 .. WordBits]
    \cup {[kind |-> "bool", bits |-> 1]}

StructSource ==
    [named : BOOLEAN,
     args : Seq([is : STRING, literal : BOOLEAN, n : Nat]),
     attrs : Seq([is : STRING, events : Seq(STRING)]),
     fields : Seq([name : STRING, metas : Seq(STRING),
                   type : [kind : STRING, bits : Nat]])]

NamesDistinct(items) ==
    \A i, j \in DOMAIN items : items[i].name = items[j].name => i = j

ASSUME ProgramsAssumption ==
    \A p \in Programs :
        /\ p.methods \in Seq(MethodSource) /\ NamesDistinct(p.methods)
        /\ p.struct \in StructSource /\ NamesDistinct(p.struct.fields)
        /\ \A f \in ToSet(p.struct.fields) :
              "gauge" \in ToSet(f.metas) => f.type \in GaugeTypes

VARIABLES
    program,   \* the source
    phase,     \* how far it has come
    word,      \* the words of the gauge cells made so far
    cell,      \* the cell each gauge field holds
    last,      \* the value last stored into each cell
    armed,     \* the builder's flags: context tasks armed
    ctx,       \* the builder's fields: their arguments
    passed,    \* the arguments of the spawn_<task> calls
    todo,      \* what is left of spawn_with
    seeded,    \* whether the view slot holds a view
    sampled,   \* the handle's gauge cells
    inputs,    \* the inputs subscribed to
    started,   \* tasks spawned, with their arguments
    pushed,    \* handles in the task set
    queue,     \* commands sent, by variant
    sent,      \* the methods called on handles
    executed,  \* the methods the loop has called
    enqueued, processed  \* the counters of the metrics

compiler == <<program>>
owner == <<word, cell, last>>
builder == <<armed, ctx, passed>>
spawning == <<todo, seeded, sampled, inputs, started, pushed>>
commands == <<queue, sent, executed, enqueued, processed>>
vars == <<program, phase, word, cell, last, armed, ctx, passed, todo, seeded,
          sampled, inputs, started, pushed, queue, sent, executed, enqueued,
          processed>>

s == program.struct
methods == program.methods

GaugeNames == {g.name : g \in ToSet(Gauges(s))}
TypeOf(name) == Gauges(s)[IndexOf(s, name)].type

Init ==
    /\ program \in Programs
    /\ phase = "source"
    /\ word = <<>> /\ last = <<>> /\ cell = <<>>
    /\ armed = {} /\ ctx = <<>> /\ passed = <<>>
    /\ todo = <<>> /\ seeded = FALSE /\ sampled = <<>> /\ inputs = {}
    /\ started = <<>> /\ pushed = <<>>
    /\ queue = <<>> /\ sent = <<>> /\ executed = <<>>
    /\ enqueued = <<>> /\ processed = <<>>

------------------------------------------------------------------------------
(* The macros run, and rustc on what they made, which refuses two variants  *)
(* of a name, and two methods of a name on the handle: for an event         *)
(* declared twice, or a getter or a gauge named like a command.             *)
Compiles ==
    /\ VariantsDistinct(methods)
    /\ IsInjective(HandleMethods(s) \o HandleNames(methods))

Expand ==
    /\ phase = "source"
    /\ phase' = IF StructRefused(s) \/ BlockRefused(methods) THEN "refused"
                ELSE IF Compiles THEN "compiled" ELSE "uncompilable"
    /\ UNCHANGED <<compiler, owner, builder, spawning, commands>>

(* What an initialiser may leave in a gauge. *)
Initially(f) == IF InitOf(f) = "Default" THEN {0} ELSE {0, 1}

(* new(): every gauge gets a cell of its own.                               *)
New ==
    /\ phase = "compiled"
    /\ phase' = "owned"
    /\ cell' = [g \in GaugeNames |-> IndexOf(s, g)]
    /\ last' \in {q \in [DOMAIN Gauges(s) -> {0, 1}] :
                     \A i \in DOMAIN q : q[i] \in Initially(Gauges(s)[i])}
    /\ word' = [i \in DOMAIN last' |-> ToBits(Gauges(s)[i].type, last'[i])]
    /\ ctx' = [t \in ContextTasks(methods) |-> NoArgument]
    /\ passed' = ctx'
    /\ enqueued' = [i \in DOMAIN NAMES(methods) |-> 0]
    /\ processed' = enqueued'
    /\ UNCHANGED <<compiler, armed, spawning, queue, sent, executed>>

(* Anyone with a clone of a gauge's cell stores into it, at any time.       *)
Store(g, value) ==
    /\ g \in DOMAIN cell
    /\ word' = [word EXCEPT ![cell[g]] = ToBits(TypeOf(g), value)]
    /\ last' = [last EXCEPT ![cell[g]] = value]
    /\ UNCHANGED <<compiler, phase, cell, builder, spawning, commands>>

(* Before it is spawned the owner may put another cell into the field.      *)
Replace(g) ==
    /\ phase = "owned" /\ armed = {} /\ todo = <<>>
    /\ g \in GaugeNames /\ Len(word) < MaxCells
    /\ cell' = [cell EXCEPT ![g] = Len(word) + 1]
    /\ word' = Append(word, 0)
    /\ last' = Append(last, 0)
    /\ UNCHANGED <<compiler, phase, builder, spawning, commands>>

------------------------------------------------------------------------------
(* The service's own spawn_<task>: the builder, with this one armed.        *)
ArmFirst(t, a) ==
    /\ phase = "owned" /\ armed = {} /\ todo = <<>>
    /\ t \in ContextTasks(methods)
    /\ armed' = {t}
    /\ ctx' = [u \in ContextTasks(methods) |-> IF u = t THEN a ELSE NoArgument]
    /\ passed' = [passed EXCEPT ![t] = a]
    /\ UNCHANGED <<compiler, phase, owner, spawning, commands>>

(* Slip: the others' fields are left None, as in the first. *)
XArmNext(t, a) ==
    /\ phase = "owned" /\ armed # {}
    /\ t \in ContextTasks(methods) \ armed
    /\ armed' = armed \cup {t}
    /\ ctx' = [u \in ContextTasks(methods) |-> IF u = t THEN a ELSE NoArgument]
    /\ passed' = [passed EXCEPT ![t] = a]
    /\ UNCHANGED <<compiler, phase, owner, spawning, commands>>

(* The builder's, which exists while the task is not armed. *)
ArmNext(t, a) ==
    /\ phase = "owned" /\ armed # {}
    /\ t \in ContextTasks(methods) \ armed
    /\ armed' = armed \cup {t}
    /\ ctx' = [ctx EXCEPT ![t] = a]
    /\ passed' = [passed EXCEPT ![t] = a]
    /\ UNCHANGED <<compiler, phase, owner, spawning, commands>>

------------------------------------------------------------------------------
(* Statements of spawn_with.  What is spawned is then pushed into the set.  *)
Do(what, name) == [do |-> what, name |-> name]

(* __rillet_spawn_core_with ... *)
SpawnCore ==
    <<Do("seed", ""), Do("cells", "")>>
    \o [i \in DOMAIN Inputs(methods) |-> Do("subscribe", Inputs(methods)[i].name)]
    \o <<Do("spawn", MainLoop)>>
    \o (IF HasDeferred(methods) THEN <<Do("spawn", Expirer)>> ELSE <<>>)

(* ... then the tasks, in the order of the block. *)
TaskSpawns ==
    [i \in DOMAIN Tasks(methods) |-> Do("spawn", Tasks(methods)[i].name)]

(* spawn_with exists on the service if no task takes a context, and on the  *)
(* builder whose flags are all set.                                         *)
BeginSpawn ==
    /\ phase = "owned" /\ todo = <<>>
    /\ armed = ContextTasks(methods)
    /\ phase' = "spawning"
    /\ todo' = SpawnCore \o TaskSpawns
    /\ UNCHANGED <<compiler, owner, builder, seeded, sampled, inputs, started,
                   pushed, commands>>

Step(what) ==
    /\ phase = "spawning" /\ todo # <<>> /\ Head(todo).do = what
    /\ todo' = IF what = "spawn" THEN [todo EXCEPT ![1].do = "push"] ELSE Tail(todo)
    /\ UNCHANGED <<compiler, phase, owner, builder, commands>>

Seed ==
    /\ Step("seed")
    /\ seeded' = ("view_slot" \in Hidden(s))
    /\ UNCHANGED <<sampled, inputs, started, pushed>>

TakeCells ==
    /\ Step("cells")
    /\ sampled' = GaugeCells(s, cell)
    /\ UNCHANGED <<seeded, inputs, started, pushed>>

Subscribe ==
    /\ Step("subscribe")
    /\ inputs' = inputs \cup {Head(todo).name}
    /\ UNCHANGED <<seeded, sampled, started, pushed>>

(* A context task is given what the builder holds for it.                   *)
SpawnTask ==
    /\ Step("spawn")
    /\ LET name == Head(todo).name
           given == IF name \in ContextTasks(methods) THEN ctx[name]
                    ELSE NoArgument
       IN  started' = Append(started, [task |-> name, given |-> given])
    /\ UNCHANGED <<seeded, sampled, inputs, pushed>>

PushTask ==
    /\ Step("push")
    /\ pushed' = Append(pushed, Head(todo).name)
    /\ UNCHANGED <<seeded, sampled, inputs, started>>

SpawnReturns ==
    /\ phase = "spawning" /\ todo = <<>>
    /\ phase' = "running"
    /\ UNCHANGED <<compiler, owner, builder, spawning, commands>>

------------------------------------------------------------------------------
Started == {started[i].task : i \in DOMAIN started}

(* A task is handed the handle as it is spawned, the caller when spawn_with *)
(* returns.                                                                 *)
HandleHeld ==
    \/ phase = "running"
    \/ \E i \in DOMAIN Tasks(methods) : Tasks(methods)[i].name \in Started

(* A generated command or op method, of someone who holds a handle.         *)
Send(name) ==
    /\ HandleHeld /\ Len(sent) < MaxSends
    /\ name \in ToSet(NAMES(methods))
    /\ LET p == SenderOf(methods, name)
       IN  /\ queue' = Append(queue, p.variant)
           /\ enqueued' = [enqueued EXCEPT ![p.idx + 1] = @ + 1]
    /\ sent' = Append(sent, name)
    /\ UNCHANGED <<compiler, phase, owner, builder, spawning, executed, processed>>

(* The loop takes the next command: index(), then execute(). *)
Execute ==
    /\ MainLoop \in Started /\ queue # <<>>
    /\ LET arm == ArmOf(methods, Head(queue))
       IN  /\ executed' = Append(executed, arm.method)
           /\ processed' = [processed EXCEPT ![arm.idx + 1] = @ + 1]
    /\ queue' = Tail(queue)
    /\ UNCHANGED <<compiler, phase, owner, builder, spawning, sent, enqueued>>

Next ==
    \/ Expand
    \/ New
    \/ \E g \in DOMAIN cell : \E value \in Values(TypeOf(g)) : Store(g, value)
    \/ \E g \in DOMAIN cell : Replace(g)
    \/ \E t \in ContextTasks(methods), a \in Arguments : ArmFirst(t, a)
    \/ \E t \in ContextTasks(methods), a \in Arguments : ArmNext(t, a)
    \/ BeginSpawn
    \/ Seed
    \/ TakeCells
    \/ Subscribe
    \/ SpawnTask
    \/ PushTask
    \/ SpawnReturns
    \/ \E name \in ToSet(NAMES(methods)) : Send(name)
    \/ Execute

Spec == Init /\ [][Next]_vars

------------------------------------------------------------------------------
(* What the macros' documentation allows of a method: one role at most,     *)
(* however often it is stated, and for an op either both arguments, no      *)
(* self and Start<K, R>, or neither, self and Result<(), R>.                *)
LegalAs(m, role) ==
    /\ \A i \in DOMAIN m.metas : m.metas[i].is = role
    /\ role = "op" =>
          LET op == m.metas[Len(m.metas)]
          IN  /\ op.execute = op.timeout
              /\ op.execute = ~m.self
              /\ m.returns = IF op.execute THEN "Start" ELSE "Result"
    /\ role = "from" => m.params > 0 /\ m.args # "unnamed"
    /\ role # "watch" => m.args # "pattern"

LegalMethod(m) ==
    m.metas = <<>> \/ \E role \in Roles : LegalAs(m, role)

LegalStruct ==
    /\ s.named
    /\ \A arg \in ToSet(s.args) : arg.is = "view" \/
          (arg.is \in {"command_capacity", "event_capacity"} /\ arg.literal /\ arg.n > 0)
    /\ \A attr \in ToSet(s.attrs) : attr.is = "emits"
    /\ \A f \in ToSet(s.fields) :
          /\ ToSet(f.metas) \subseteq {"get", "gauge", "default", "default ="}
          /\ ~({"get", "gauge"} \subseteq ToSet(f.metas))

(* The macros refuse a source exactly when it is not one of those they      *)
(* describe, although they look at attributes one by one and stop at the    *)
(* first fault (handlers.rs:271-360, 397-448; service.rs:159-243, 330-371). *)
RefusedIffIllegal ==
    phase # "source" =>
        (phase = "refused" <=>
            ~(LegalStruct /\ \A m \in ToSet(methods) : LegalMethod(m)))

(* Each command and operation is counted under its own name, where it is    *)
(* sent and where it is executed, and the methods run are those called on   *)
(* the handles, in that order: the index a sender counts by, the index of   *)
(* the variant and the place in NAMES agree, although commands and          *)
(* operations are declared in any order and numbered apart                  *)
(* (handlers.rs:544-792).                                                   *)
CountedByName ==
    /\ \A i \in DOMAIN enqueued :
          /\ enqueued[i] = Cardinality({j \in DOMAIN sent : sent[j] = NAMES(methods)[i]})
          /\ processed[i]
                = Cardinality({j \in DOMAIN executed : executed[j] = NAMES(methods)[i]})
    /\ IsPrefix(executed, sent)
    /\ Len(sent) = Len(executed) + Len(queue)

(* What the handle's sampler of a gauge reads. *)
Sample(name) == FromBits(TypeOf(name), word[sampled[IndexOf(s, name)]])

(* Whoever holds a handle samples the value last stored into the field's    *)
(* cell, whatever type it has, through whichever clone it was stored, and   *)
(* even if the owner had replaced the cell before spawning it               *)
(* (gauge.rs:16-17, 50-93; service.rs:595-631).                             *)
SampleIsLatest ==
    HandleHeld => \A g \in GaugeNames : Sample(g) = last[cell[g]]

(* Nothing runs, and nobody holds a handle, before the view is seeded and   *)
(* the inputs are subscribed to; when spawn_with returns the loop, the      *)
(* expirer, if there are deferred operations, and every task have been      *)
(* spawned once and pushed into the set, each context task with the         *)
(* arguments its spawn_<task> was called with, in whatever order            *)
(* (handlers.rs:1134-1209, 1259-1281, 1340-1510).                           *)
SpawnIsWhole ==
    /\ started # <<>> =>
          /\ Args(s).view => seeded
          /\ \A m \in ToSet(methods) : RoleOf(m) \in {"from", "watch"} => m.name \in inputs
    /\ phase = "running" =>
          /\ IsInjective(pushed)
          /\ ToSet(pushed) = Started
          /\ Started = {MainLoop}
                 \cup (IF \E m \in ToSet(methods) : Deferred(m) THEN {Expirer} ELSE {})
                 \cup {m.name : m \in {t \in ToSet(methods) : RoleOf(t) = "task"}}
    /\ \A i \in DOMAIN started :
          started[i].task \in ContextTasks(methods) =>
              /\ started[i].given \in Arguments
              /\ started[i].given = passed[started[i].task]
==============================================================================

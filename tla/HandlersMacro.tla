----------------------------- MODULE HandlersMacro -----------------------------
(* What #[rillet::handlers] makes of an impl block (rillet-macros,          *)
(* handlers.rs): which methods it accepts, in which role, and the numbering *)
(* of commands and operations that the generated code counts and executes   *)
(* them by.                                                                 *)
(*                                                                          *)
(* A method is what the macro looks at: its attributes in order (metas,     *)
(* each with the arguments of an `op`), whether it takes self, how many     *)
(* other parameters it has and whether they are plain names of named types  *)
(* (args), the type it returns, and the variant its name becomes.  Tokens,  *)
(* spans and messages are left out; "other" stands for every attribute, or  *)
(* argument of an op, that the macro does not know.                         *)
EXTENDS Naturals, FiniteSets, Lists

Roles == {"command", "direct", "direct_mut", "task", "op", "from", "watch"}

Meta(is) == [is |-> is, execute |-> FALSE, timeout |-> FALSE]
OpMeta(execute, timeout) ==
    [is |-> "op", execute |-> execute, timeout |-> timeout]

NoAttrs == [roles |-> {}, known |-> TRUE, op |-> Meta("op")]

(* Slip: the arguments of two `op` attributes are merged. *)
XMeet(attrs, meta) ==
    [roles |-> attrs.roles \cup {meta.is},
     known |-> attrs.known /\ meta.is \in Roles,
     op    |-> IF meta.is = "op"
               THEN OpMeta(attrs.op.execute \/ meta.execute,
                           attrs.op.timeout \/ meta.timeout)
               ELSE attrs.op]

(* One attribute met; of two `op`s the last counts. *)
Meet(attrs, meta) ==
    [roles |-> attrs.roles \cup {meta.is},
     known |-> attrs.known /\ meta.is \in Roles,
     op    |-> IF meta.is = "op" THEN meta ELSE attrs.op]

MethodAttrs(m) == FoldLeft(Meet, NoAttrs, m.metas)

(* The list a method is put on; "none" is left as it is. *)
RoleOf(m) ==
    IF MethodAttrs(m).roles = {} THEN "none"
    ELSE CHOOSE r \in MethodAttrs(m).roles : TRUE

(* An op is deferred if it names the method that executes it. *)
Deferred(m) == RoleOf(m) = "op" /\ MethodAttrs(m).op.execute

(* parse_op_method: a deferred op returns Start<K, R>, without self; an     *)
(* immediate one Result<(), R>, with it.                                    *)
OpRefused(m) ==
    LET op == MethodAttrs(m).op
    IN  \/ m.args = "pattern"
        \/ op.execute /\ (m.self \/ ~op.timeout \/ m.returns # "Start")
        \/ ~op.execute /\ (op.timeout \/ ~m.self \/ m.returns # "Result")

(* derive_subscription_method, of the first parameter. *)
EventRefused(m) == m.args # "simple" \/ m.params = 0

MethodRefused(m) ==
    \/ ~MethodAttrs(m).known
    \/ Cardinality(MethodAttrs(m).roles) > 1
    \/ RoleOf(m) = "op" /\ OpRefused(m)
    \/ RoleOf(m) = "from" /\ EventRefused(m)
    \/ /\ RoleOf(m) \in {"command", "direct", "direct_mut", "task"}
       /\ m.args = "pattern"

(* The macro stops at the first method it refuses. *)
BlockRefused(methods) ==
    \E i \in DOMAIN methods : MethodRefused(methods[i])

(* The lists filled by expand, each in the order of the block. *)
Listed(methods, role) == Only({m \in ToSet(methods) : RoleOf(m) = role}, methods)

------------------------------------------------------------------------------
(* Slip: operations are numbered from 1. *)
XOpPieces(methods) ==
    LET ops == Listed(methods, "op")
    IN  [i \in DOMAIN ops |->
            [method |-> ops[i].name, variant |-> ops[i].variant,
             idx |-> Len(Listed(methods, "command")) + i]]

(* generate_command_infra: the variant, the index arm and the sender of     *)
(* each command ...                                                         *)
CommandPieces(methods) ==
    LET commands == Listed(methods, "command")
    IN  [i \in DOMAIN commands |->
            [method |-> commands[i].name, variant |-> commands[i].variant,
             idx |-> i - 1]]

(* ... and, numbered after all of them, of each operation. *)
OpPieces(methods) ==
    LET ops == Listed(methods, "op")
    IN  [i \in DOMAIN ops |->
            [method |-> ops[i].name, variant |-> ops[i].variant,
             idx |-> Len(Listed(methods, "command")) + i - 1]]

Pieces(methods) == CommandPieces(methods) \o OpPieces(methods)

(* NAMES, by which command_stats reports the counters (0-based in Rust). *)
NAMES(methods) ==
    [i \in DOMAIN Pieces(methods) |-> Pieces(methods)[i].method]

(* The arms of index() and execute() for a variant, and the handle method   *)
(* that sends it.                                                           *)
ArmOf(methods, variant) ==
    CHOOSE p \in ToSet(Pieces(methods)) : p.variant = variant

SenderOf(methods, name) ==
    CHOOSE p \in ToSet(Pieces(methods)) : p.method = name

------------------------------------------------------------------------------
(* What spawn needs to know: the inputs to subscribe to, events first ...   *)
Inputs(methods) == Listed(methods, "from") \o Listed(methods, "watch")

(* ... whether to spawn the expiry task, and the tasks.  A task takes the   *)
(* handle and the token; with more than these it needs the spawn builder.   *)
HasDeferred(methods) == \E i \in DOMAIN methods : Deferred(methods[i])

Tasks(methods) == Listed(methods, "task")

TakesContext(m) == m.params > 2

ContextTasks(methods) ==
    {m.name : m \in {t \in ToSet(Tasks(methods)) : TakesContext(t)}}

(* The methods of the block that the handle has under the same names.       *)
HandleNames(methods) ==
    LET called == Only({m \in ToSet(methods) :
                          RoleOf(m) \in {"command", "op", "direct", "direct_mut"}},
                       methods)
    IN  [i \in DOMAIN called |-> <<called[i].name>>]

(* What rustc refuses of the expansion: an enum with two variants of one    *)
(* name, as foo_bar and foo__bar would make.                                *)
VariantsDistinct(methods) ==
    \A i, j \in DOMAIN Pieces(methods) :
        Pieces(methods)[i].variant = Pieces(methods)[j].variant => i = j
==============================================================================

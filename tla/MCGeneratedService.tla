--------------------------- MODULE MCGeneratedService ---------------------------
(* GeneratedService for TLC: every single method, every struct of a few     *)
(* shapes, and whole services in which the parts meet.                      *)
EXTENDS GeneratedService

Method(name, metas, self, params, args, returns) ==
    [name |-> name, variant |-> name, metas |-> metas, self |-> self,
     params |-> params, args |-> args, returns |-> returns]

Simple(name, is) == Method(name, <<Meta(is)>>, TRUE, 1, "simple", "()")
Immediate(name) == Method(name, <<Meta("op")>>, TRUE, 1, "simple", "Result")
Later(name) == Method(name, <<OpMeta(TRUE, TRUE)>>, FALSE, 1, "simple", "Start")
ContextTask(name) == Method(name, <<Meta("task")>>, FALSE, 3, "simple", "()")

Signed == [kind |-> "signed", bits |-> 2]
Word == [kind |-> "signed", bits |-> WordBits]
Unsigned == [kind |-> "unsigned", bits |-> 2]
Bool == [kind |-> "bool", bits |-> 1]

Field(name, metas, type) == [name |-> name, metas |-> metas, type |-> type]
Arg(is, literal, n) == [is |-> is, literal |-> literal, n |-> n]
Struct(args, attrs, fields) ==
    [named |-> TRUE, args |-> args, attrs |-> attrs, fields |-> fields]

Plain == Struct(<<>>, <<>>, <<>>)
Emitting(events) == <<[is |-> "emits", events |-> events]>>

Metas ==
    {Meta(is) : is \in Roles \cup {"other"}}
    \cup {OpMeta(e, t) : e, t \in BOOLEAN}

AnyMethod ==
    {Method("m", metas, self, params, args, returns) :
        metas \in SeqOf(Metas, 2), self \in BOOLEAN, params \in {0, 1},
        args \in {"simple", "unnamed", "pattern"},
        returns \in {"()", "Start", "Result"}}

AnyArg ==
    {Arg("view", TRUE, 0), Arg("other", TRUE, 1)}
    \cup {Arg(is, literal, n) : is \in {"command_capacity", "event_capacity"},
                                literal \in BOOLEAN, n \in 0 .. 1}

AnyField ==
    {Field("f", metas, Bool) :
        metas \in SeqOf({"get", "gauge", "default", "default =", "other"}, 3)}
    \cup {Field("f", <<"gauge">>, type) : type \in {Word, Unsigned}}

AnyStruct ==
    {Struct(args, <<>>, <<>>) : args \in SeqOf(AnyArg, 2)}
    \cup {Struct(<<>>, attrs, <<>>) :
             attrs \in SeqOf({[is |-> is, events |-> <<e>>] :
                                 is \in {"emits", "other"}, e \in {"e", "d"}}, 2)}
    \cup {Struct(<<>>, <<>>, <<f>>) : f \in AnyField}
    \cup {[Plain EXCEPT !.named = FALSE]}

(* A command and operations declared among each other, a view, two sources. *)
Rich ==
    [struct  |-> Struct(<<Arg("view", TRUE, 0)>>, Emitting(<<"e">>),
                        <<Field("count", <<"get", "default">>, Word),
                          Field("level", <<"gauge">>, Signed),
                          Field("on", <<"gauge", "default =">>, Bool)>>),
     methods |-> <<Later("deferred"), Simple("watching", "watch"),
                   Simple("command", "command"), Immediate("op"),
                   Simple("listening", "from"), Simple("poll", "task"),
                   Simple("reset", "command")>>]

(* Tasks with contexts and without, and no commands. *)
Tasked ==
    [struct  |-> Plain,
     methods |-> <<ContextTask("left"), Simple("poll", "task"),
                   ContextTask("right"), ContextTask("third"),
                   Simple("listening", "from"), Simple("beep", "command")>>]

(* A getter and a command of one name. *)
Ambiguous ==
    [struct  |-> Struct(<<>>, <<>>, <<Field("command", <<"get">>, Word)>>),
     methods |-> <<Simple("command", "command")>>]

(* foo_bar and foo__bar. *)
Colliding ==
    [struct  |-> Plain,
     methods |-> <<Simple("command", "command"),
                   [Immediate("op") EXCEPT !.variant = "command"]>>]

MCPrograms ==
    {[struct |-> Plain, methods |-> <<m>>] : m \in AnyMethod}
    \cup {[struct |-> st, methods |-> <<Simple("command", "command")>>] : st \in AnyStruct}
    \cup {Rich, Tasked, Colliding, Ambiguous}
==============================================================================

------------------------------ MODULE MCCompiler ------------------------------
(***************************************************************************)
(* Builds for the compiler, in three families: fields, mixins and          *)
(* references; workflows; names. And every graph of three contracts for    *)
(* the dependency graph on its own, which never gets past its stage.       *)
(***************************************************************************)
EXTENDS Compiler

CONSTANTS Missing, Vague    \* a name nobody declares, a word that is no name

StdlibName == <<"stdlib">>

Words == {<<"account">>, <<"user">>, <<"b", "c">>, <<"c">>}

Plurals == [w \in Words |-> [w EXCEPT ![Len(w)] = @ \o "s"]]

Plain(t)         == [type |-> t, target |-> Nothing, display |-> Nothing, enum |-> {}, default |-> Nothing]
Shown(to, field) == [Plain("string") EXCEPT !.target = to, !.display = field]

Envelope(kind, domain, name) ==
  [kind |-> kind, domain |-> domain, name |-> name, requires |-> {}, shaped |-> TRUE]

AnEntity(fields, mixins, machine) ==
  Envelope("Entity", <<"a">>, <<"account">>) @@
  [table |-> <<>>, fields |-> fields, mixins |-> mixins, machine |-> machine,
   agents |-> {}, bound |-> Nothing]

AMixin(fields) == Envelope("Mixin", Stdlib, <<"user">>) @@ [fields |-> fields]

APage(entity)  == Envelope("Page", <<"a">>, <<"user">>) @@ [entity |-> entity]
AnAgent(entity) == Envelope("Agent", <<"a">>, <<"user">>) @@ [entity |-> entity]

ARoute(entity, required) ==
  Envelope("Route", <<"a">>, <<"user">>) @@
  [entity |-> entity, path |-> <<>>, required |-> required, effects |-> {}]

AWorkflow(initial, transitions, guards) ==
  Envelope("Workflow", <<"a">>, <<"user">>) @@
  [initial |-> initial, states |-> {"new", "done"}, transitions |-> transitions, guards |-> guards]

Titles == {<<>>, "title" :> Plain("string"), "title" :> Plain("integer")}

FieldBuilds ==
  {<<AnEntity(f, m, Nothing), second, AMixin(t), last>> :
     f \in Titles \cup {"link" :> Shown(to, "title") : to \in {1, 2, 3, Missing, Vague}},
     m \in {<<>>, <<2>>, <<3, 2>>, <<Missing>>},
     second \in {AMixin("title" :> Plain("string")), AMixin("link" :> Shown(3, "title")),
                 [AnEntity("title" :> Plain("string"), <<>>, Nothing) EXCEPT !.name = <<"user">>]},
     t \in Titles \ {<<>>},
     last \in {APage(2), APage(3), APage(Vague), [AnAgent(2) EXCEPT !.requires = {1, 4}],
              [ARoute(1, {}) EXCEPT !.effects = {2, Missing}],
              [ARoute(1, {}) EXCEPT !.effects = {3, 4, Vague}],
               [AnAgent(1) EXCEPT !.shaped = FALSE]}}

Guard(from, to, fields, legible) ==
  [from |-> from, to |-> to, fields |-> fields, legible |-> legible]

WorkflowBuilds ==
  {<<AnEntity(f, m, machine), AMixin(given), AWorkflow(i, tr, g), ARoute(1, q)>> :
     f \in {"state" :> Plain("string"), "state" :> [Plain("string") EXCEPT !.default = "done"],
            "title" :> Plain("string")},
     m \in {<<>>, <<2>>},
     machine \in {Nothing, 3, 2},
     given \in {"state" :> Plain("integer"), "title" :> Plain("string")},
     i \in {"new", "lost"},
     tr \in {{<<"new", "done">>}, {<<"new", "lost">>}},
     g \in {{}, {Guard("new", "done", {"title"}, TRUE)},
            {Guard("done", "new", {"state"}, TRUE)}, {Guard("new", "done", {}, FALSE)}},
     q \in {{}, {"title"}, {"state"}}}

Titled(domain, name, table) ==
  [AnEntity("title" :> Plain("string"), <<>>, Nothing) EXCEPT
     !.domain = domain, !.name = name, !.table = table]

NameBuilds ==
  {<<Titled(d1, n1, t), Titled(d2, n2, <<>>), ARoute(1, {}),
     [ARoute(2, {"title"}) EXCEPT !.path = p]>> :
     d1 \in {<<"a">>, <<"a", "b">>}, n1 \in {<<"b", "c">>, <<"c">>, <<"account">>},
     t \in {<<>>, <<"cs">>},
     d2 \in {<<"a">>, <<"a", "b">>}, n2 \in {<<"b", "c">>, <<"c">>, <<"user">>},
     p \in {<<>>, <<"accounts">>, <<"bs">>}}

AllBuilds == FieldBuilds \cup WorkflowBuilds \cup NameBuilds

-------------------------------------------------------------------------------
\* A graph on its own: the fourth contract requires nothing and nothing requires it.
Alone ==
  /\ \E edges \in [1..3 -> SUBSET {1, 2, 3, Missing}] : requires = edges @@ (4 :> {})
  /\ declared \in SUBSET {n \in {1} : n \in requires[n]}
  /\ GraphStart
  /\ source = <<>> /\ misfiled = {} /\ phase = "graph" /\ ir = <<>>

MCInit == CompilerInit \/ Alone

MCNext == IF source = <<>> THEN Arrange ELSE CompilerNext

MCSpec == MCInit /\ [][MCNext]_compilerVars

================================================================================

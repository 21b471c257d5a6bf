------------------------------- MODULE Compiler -------------------------------
(***************************************************************************)
(* The compiler from contracts to the intermediate representation          *)
(* (forge/ir/compiler.py, forge/ir/passes/, forge/ir/semantic.py). A build *)
(* is loaded, validated against the meta-schemas, ordered by its           *)
(* dependency graph, translated contract by contract, rewritten by four    *)
(* passes, and judged once more as a whole. The first stage that finds     *)
(* fault refuses the build.                                                *)
(*                                                                         *)
(* A contract is a number, which stands for its fully qualified name. A    *)
(* name is a sequence of words: `billing_account` is two words, and the    *)
(* prefix of a domain is concatenation.                                    *)
(***************************************************************************)
EXTENDS DependencyGraph, SequencesExt

CONSTANTS
  Builds,        \* the builds to look at: functions from Contract to contents
  Plural,        \* pluralize, on the names that occur
  Nothing,       \* an optional property that is absent
  Stdlib         \* the domain of the standard library

(***************************************************************************)
(* What the parser hands on of a contract, by its kind. The state machine  *)
(* is bound to an entity by a pass.                                        *)
(***************************************************************************)
Attributes ==
  [Entity   |-> {"table", "fields", "mixins", "machine", "agents", "bound"},
   Mixin    |-> {"fields"},
   Workflow |-> {"initial", "states", "transitions", "guards"},
   Route    |-> {"entity", "path", "required", "effects"},
   Page     |-> {"entity"},
   Agent    |-> {"entity"}]

IsContract(c) ==
  /\ c = [a \in DOMAIN c |-> c[a]] /\ c # Nothing
  /\ c.kind \in DOMAIN Attributes
  /\ DOMAIN c = {"kind", "domain", "name", "requires", "shaped"} \cup Attributes[c.kind]
  /\ c.shaped \in BOOLEAN
  /\ c.kind \in {"Entity", "Mixin"} =>
       /\ c.fields = [f \in DOMAIN c.fields |-> c.fields[f]]
       /\ \A f \in DOMAIN c.fields :
            DOMAIN c.fields[f] = {"type", "target", "display", "enum", "default"}
  /\ c.kind = "Entity" => c.mixins \in Seq(ToSet(c.mixins)) /\ c.bound = Nothing

ASSUME BuildAssumption ==
  /\ Nothing \notin Contract
  /\ \A b \in Builds :
       b = [n \in Contract |-> b[n]] /\ \A n \in Contract : IsContract(b[n])

VARIABLES
  source,        \* what each contract says
  misfiled,      \* contracts whose name is found in two files, or in none readable
  phase,
  ir             \* the nodes of the representation, by name

compilerVars == <<graphVars, source, misfiled, phase, ir>>

Named(x, kind) == {n \in DOMAIN x : x[n].kind = kind}

EntityOf(x, ref)   == ref \in Named(x, "Entity")
MixinOf(x, ref)    == ref \in Named(x, "Mixin")
WorkflowOf(x, ref) == ref \in Named(x, "Workflow")

-------------------------------------------------------------------------------
(***************************************************************************)
(* extract_semantic_dependencies and merge_dependencies: what a contract   *)
(* refers to by its meaning, what the side effects of its endpoints name   *)
(* (effects) included, and what it lists. A reference that does not look   *)
(* like a name of a contract is no edge.                                   *)
(***************************************************************************)
Targets(fields) == {fields[f].target : f \in DOMAIN fields}

Meaning(c) ==
  CASE c.kind = "Entity" -> ToSet(c.mixins) \cup {c.machine} \cup Targets(c.fields) \cup c.agents
    [] c.kind = "Mixin"  -> Targets(c.fields)
    [] c.kind = "Route"  -> {c.entity} \cup c.effects
    [] c.kind \in {"Page", "Agent"} -> {c.entity}
    [] OTHER -> {}

Requirements(c) == (c.requires \cup Meaning(c)) \cap (Contract \cup Ghost)

-------------------------------------------------------------------------------
(***************************************************************************)
(* The passes, each a function of the whole representation. The fields of  *)
(* the entity win over those of its mixins, and an earlier mixin over a    *)
(* later one.                                                              *)
(***************************************************************************)
Extended(f, g) == \* f, and what g has beside
  [a \in DOMAIN f \cup DOMAIN g |-> IF a \in DOMAIN f THEN f[a] ELSE g[a]]

OnKind(x, kind, F(_)) == [n \in DOMAIN x |-> IF x[n].kind = kind THEN F(x[n]) ELSE x[n]]

MixinFields(x, ref) == IF MixinOf(x, ref) THEN x[ref].fields ELSE <<>>

ExpandMixins(x) ==
  LET Expanded(e) ==
        LET applied[k \in 0..Len(e.mixins)] ==
              IF k = 0 THEN e.fields ELSE Extended(applied[k - 1], MixinFields(x, e.mixins[k]))
        IN [e EXCEPT !.fields = applied[Len(e.mixins)]]
  IN OnKind(x, "Entity", Expanded)

MultiDomain(x) == Cardinality({x[n].domain : n \in DOMAIN x} \ {Stdlib}) > 1

Prefixed(x, e, name) == IF MultiDomain(x) THEN e.domain \o name ELSE name

InferTables(x) ==
  LET Inferred(e) ==
        IF e.table = <<>> THEN [e EXCEPT !.table = Prefixed(x, e, Plural[e.name])] ELSE e
  IN OnKind(x, "Entity", Inferred)

\* The state field that the pass adds, and one that was written and is completed.
AddedState(w) ==
  [type |-> "string", target |-> Nothing, display |-> Nothing,
   enum |-> w.states, default |-> w.initial]

CompletedState(f, w) ==
  [f EXCEPT !.enum = w.states,
            !.default = IF f.default = Nothing THEN w.initial ELSE f.default]

\* mutant: the state field takes the states only when the pass adds it.
BoundWhereMissing(fields, w) == Extended(fields, [state |-> AddedState(w)])

BoundFields(fields, w) ==
  IF "state" \in DOMAIN fields
  THEN [fields EXCEPT !["state"] = CompletedState(fields["state"], w)]
  ELSE Extended(fields, [state |-> AddedState(w)])

BindMachines(x) ==
  LET Bound(e) ==
        IF ~WorkflowOf(x, e.machine) THEN e
        ELSE [e EXCEPT !.bound = x[e.machine],
                       !.fields = BoundFields(e.fields, x[e.machine])]
  IN OnKind(x, "Entity", Bound)

InferPaths(x) ==
  LET Inferred(r) ==
        IF r.path = <<>> /\ r.entity \in DOMAIN x
        THEN [r EXCEPT !.path = Plural[x[r.entity].name]] ELSE r
  IN OnKind(x, "Route", Inferred)

-------------------------------------------------------------------------------
(***************************************************************************)
(* validate_semantics: no error is found in any node, nor across them.     *)
(***************************************************************************)
\* mutant: the types of the mixins are compared with nothing.
EntityCoheresLoosely(x, e) ==
  /\ \A i \in DOMAIN e.mixins : MixinOf(x, e.mixins[i])
  /\ e.machine # Nothing => WorkflowOf(x, e.machine)
  /\ \A f \in DOMAIN e.fields :
       e.fields[f].target # Nothing =>
         /\ EntityOf(x, e.fields[f].target)
         /\ e.fields[f].display \in DOMAIN x[e.fields[f].target].fields
  /\ e.bound # Nothing =>
       \A g \in e.bound.guards : g.fields \subseteq DOMAIN e.fields

EntityCoheres(x, e) ==
  /\ \A i \in DOMAIN e.mixins :
       /\ MixinOf(x, e.mixins[i])
       /\ LET given == x[e.mixins[i]].fields
          IN \A f \in DOMAIN given \cap DOMAIN e.fields : given[f].type = e.fields[f].type
  /\ e.machine # Nothing => WorkflowOf(x, e.machine)
  /\ \A f \in DOMAIN e.fields :
       e.fields[f].target # Nothing =>
         /\ EntityOf(x, e.fields[f].target)
         /\ e.fields[f].display \in DOMAIN x[e.fields[f].target].fields
  /\ e.bound # Nothing =>
       \A g \in e.bound.guards : g.fields \subseteq DOMAIN e.fields

WorkflowCoheres(w) ==
  /\ w.initial \in w.states
  /\ w.transitions \subseteq w.states \X w.states
  /\ \A g \in w.guards : <<g.from, g.to>> \in w.transitions

PageCoheres(x, p) == p.entity # Nothing => EntityOf(x, p.entity)

RouteCoheres(x, r) ==
  r.entity # Nothing =>
    /\ EntityOf(x, r.entity)
    /\ r.required \subseteq DOMAIN x[r.entity].fields

(***************************************************************************)
(* _validate_identifier_uniqueness. Classes and modules are both named by  *)
(* the words of the name.                                                  *)
(***************************************************************************)
NamesDiffer(x) ==
  \A m, n \in Named(x, "Entity") : m # n =>
    /\ x[m].table # x[n].table
    /\ Prefixed(x, x[m], x[m].name) # Prefixed(x, x[n], x[n].name)

Coherent(x) ==
  /\ \A n \in Named(x, "Entity")   : EntityCoheres(x, x[n])
  /\ \A n \in Named(x, "Workflow") : WorkflowCoheres(x[n])
  /\ \A n \in Named(x, "Page")     : PageCoheres(x, x[n])
  /\ \A n \in Named(x, "Route")    : RouteCoheres(x, x[n])
  /\ NamesDiffer(x)

-------------------------------------------------------------------------------
(***************************************************************************)
(* Compiler.compile, stage by stage.                                       *)
(***************************************************************************)
CompilerInit ==
  /\ source \in Builds
  /\ misfiled \in {{}} \cup {{n} : n \in Contract}
  /\ requires = [n \in Contract |-> Requirements(source[n])]
  /\ declared = {n \in Contract : n \in source[n].requires}
  /\ GraphStart
  /\ phase = "load" /\ ir = <<>>

Goto(next) == phase' = next /\ UNCHANGED <<source, misfiled>>

\* load_all_contracts: an unreadable file, or a second file of one name, is an error.
Load ==
  /\ phase = "load"
  /\ Goto(IF misfiled = {} THEN "validate" ELSE "refused")
  /\ UNCHANGED <<graphVars, ir>>

\* validate_all: every contract has the shape its kind's meta-schema asks for.
Validate ==
  /\ phase = "validate"
  /\ Goto(IF \A n \in Contract : source[n].shaped THEN "graph" ELSE "refused")
  /\ UNCHANGED <<graphVars, ir>>

Arrange ==
  /\ phase = "graph" /\ GraphNext
  /\ UNCHANGED <<source, misfiled, phase, ir>>

Arranged ==
  /\ phase = "graph" /\ stage \in {"ordered", "refused"}
  /\ Goto(IF stage = "ordered" THEN "compile" ELSE "refused")
  /\ UNCHANGED <<graphVars, ir>>

(***************************************************************************)
(* _compile_node, in the order of the graph. A guard whose key is not a    *)
(* transition is left out and counts as an error once all are translated.  *)
(***************************************************************************)
Translated(c) ==
  IF c.kind = "Workflow"
  THEN [c EXCEPT !.guards = {g \in @ : g.legible}] ELSE c

CompileNode ==
  /\ phase = "compile" /\ Cardinality(DOMAIN ir) < Len(order)
  /\ LET n == order[Cardinality(DOMAIN ir) + 1]
     IN ir' = Extended(ir, [m \in {n} |-> Translated(source[n])])
  /\ UNCHANGED <<graphVars, source, misfiled, phase>>

Illegible ==
  \E n \in Contract : /\ source[n].kind = "Workflow"
                      /\ \E g \in source[n].guards : ~g.legible

Compiled ==
  /\ phase = "compile" /\ Cardinality(DOMAIN ir) = Len(order)
  /\ Goto(IF Illegible THEN "refused" ELSE "expand")
  /\ UNCHANGED <<graphVars, ir>>

Pass(from, to, result) ==
  /\ phase = from /\ Goto(to)
  /\ ir' = result
  /\ UNCHANGED graphVars

RunPasses ==
  \/ Pass("expand", "tables", ExpandMixins(ir))
  \/ Pass("tables", "bind", InferTables(ir))
  \/ Pass("bind", "paths", BindMachines(ir))
  \/ Pass("paths", "check", InferPaths(ir))

Judgement ==
  /\ phase = "check"
  /\ Goto(IF Coherent(ir) THEN "accepted" ELSE "refused")
  /\ UNCHANGED <<graphVars, ir>>

CompilerNext ==
  \/ Load \/ Validate \/ Arrange \/ Arranged
  \/ CompileNode \/ Compiled \/ RunPasses \/ Judgement

CompilerSpec == CompilerInit /\ [][CompilerNext]_compilerVars

-------------------------------------------------------------------------------
(***************************************************************************)
(* What a build must be, read off the contracts as their authors wrote     *)
(* them: nobody has to know in which order the passes run.                 *)
(***************************************************************************)
Is(ref, kind) == ref \in Contract /\ source[ref].kind = kind

\* The fields an entity has, who gives each, and the types they are given.
Declares(n) == {n} \cup {ref \in ToSet(source[n].mixins) : Is(ref, "Mixin")}

GivenBy(n, f) == {d \in Declares(n) : f \in DOMAIN source[d].fields}

Columns(n) ==
  (UNION {DOMAIN source[d].fields : d \in Declares(n)}) \cup
  (IF Is(source[n].machine, "Workflow") THEN {"state"} ELSE {})

TypesOf(n, f) == {source[d].fields[f].type : d \in GivenBy(n, f)}

Giver(n, f) ==
  LET givers == <<n>> \o source[n].mixins
      first  == CHOOSE i \in DOMAIN givers :
                  /\ givers[i] \in GivenBy(n, f)
                  /\ \A j \in 1..(i - 1) : givers[j] \notin GivenBy(n, f)
  IN givers[first]

EntityIsSound(n) ==
  LET c == source[n] IN
  /\ \A ref \in ToSet(c.mixins) : Is(ref, "Mixin")
  /\ c.machine # Nothing => Is(c.machine, "Workflow")
  /\ \A f \in Columns(n) : Cardinality(TypesOf(n, f)) <= 1
  /\ \A f \in {f \in Columns(n) : GivenBy(n, f) # {}} :
       LET field == source[Giver(n, f)].fields[f]
       IN field.target # Nothing =>
            Is(field.target, "Entity") /\ field.display \in Columns(field.target)
  /\ Is(c.machine, "Workflow") =>
       \A g \in source[c.machine].guards : g.fields \subseteq Columns(n)

TableOf(n) ==
  IF source[n].table # <<>> THEN source[n].table
  ELSE Prefixed(source, source[n], Plural[source[n].name])

Acyclic ==
  \A S \in (SUBSET Contract) \ {{}} : \E n \in S : requires[n] \cap (S \ {n}) = {}

BuildIsSound ==
  /\ misfiled = {} /\ ~Illegible
  /\ \A n \in Contract : source[n].shaped /\ n \notin source[n].requires
  /\ \A n \in Contract : requires[n] \subseteq Contract
  /\ Acyclic
  /\ \A n \in Contract :
       /\ source[n].kind = "Entity" => EntityIsSound(n)
       /\ source[n].kind = "Workflow" => WorkflowCoheres(source[n])
       /\ source[n].kind \in {"Route", "Page"} =>
            (source[n].entity # Nothing => Is(source[n].entity, "Entity"))
       /\ source[n].kind = "Route" /\ Is(source[n].entity, "Entity") =>
            source[n].required \subseteq Columns(source[n].entity)
  /\ \A m, n \in Contract : m # n /\ Is(m, "Entity") /\ Is(n, "Entity") =>
       /\ TableOf(m) # TableOf(n)
       /\ Prefixed(source, source[m], source[m].name) #
          Prefixed(source, source[n], source[n].name)

(***************************************************************************)
(* The compiler accepts a build exactly when it is sound, although no      *)
(* stage of it sees the whole question: the graph knows names and not      *)
(* kinds, the meta-schemas one contract at a time, and the last check a    *)
(* representation the passes have rewritten.                               *)
(***************************************************************************)
JudgedRightly ==
  /\ phase = "accepted" => BuildIsSound
  /\ phase = "refused" => ~BuildIsSound

(***************************************************************************)
(* What generators are given holds all that was written: each field of an  *)
(* entity and of its mixins with the one type it was given, the states of  *)
(* the workflow as the values of the state field, and the guards.          *)
(***************************************************************************)
NothingIsLost ==
  phase = "accepted" =>
    /\ DOMAIN ir = Contract
    /\ \A n \in Named(ir, "Entity") :
         /\ DOMAIN ir[n].fields = Columns(n)
         /\ \A f \in DOMAIN ir[n].fields : TypesOf(n, f) \subseteq {ir[n].fields[f].type}
         /\ source[n].machine # Nothing =>
              /\ ir[n].fields["state"].enum = source[source[n].machine].states
              /\ ir[n].bound.guards = source[source[n].machine].guards

(***************************************************************************)
(* "Catching this here means a colliding build fails to compile with a     *)
(* message naming both entities" (forge/ir/semantic.py): two routers with  *)
(* one prefix hide the endpoints of the second, as a duplicate module path *)
(* would. The base path alone is inferred without the domain.              *)
(***************************************************************************)
RoutersDiffer ==
  phase = "accepted" =>
    \A m, n \in Named(ir, "Route") :
      m # n /\ ir[m].path = ir[n].path => ir[m].entity = ir[n].entity

================================================================================

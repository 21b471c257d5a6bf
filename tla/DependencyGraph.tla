---------------------------- MODULE DependencyGraph ----------------------------
(***************************************************************************)
(* The dependency graph of the contracts (forge/parser/graph.py): who      *)
(* requires what, the cycles among them, and the order in which they are   *)
(* compiled. The compiler asks first for the cycles, by a depth-first      *)
(* search with a stack of its own, and for the order only when there are   *)
(* none, by Kahn's algorithm. An action is one turn of one of the loops.   *)
(*                                                                         *)
(* Contracts are numbers, in the order of their names.                     *)
(***************************************************************************)
EXTENDS Integers, Sequences, FiniteSets

CONSTANTS
  Contract,    \* the contracts that were loaded
  Ghost,       \* names that are required and were not loaded
  Unentered    \* the iterator of a frame that was pushed and not entered

ASSUME GraphAssumption ==
  Contract \subseteq Nat /\ IsFiniteSet(Contract) /\ Contract \cap Ghost = {}

ASSUME FrameAssumption == \A S \in SUBSET Contract : S # Unentered

VARIABLES
  requires,    \* what each contract requires, by its meaning or declared
  declared,    \* the contracts that list themselves in `requires`
  stage,       \* "search" or "order" or "ordered" or "refused"
  stack,       \* frames of the search: a contract and what is left of it
  path,        \* the contracts entered and not left, from the root
  visited,
  cycles,      \* the cycles found, each from a contract back to it
  pending,     \* Kahn: requirements not yet compiled
  ready,       \* Kahn: the heap
  order        \* Kahn: the contracts in compilation order

searchVars == <<stack, path, visited, cycles>>
kahnVars   == <<pending, ready, order>>
graphVars  == <<requires, declared, stage, searchVars, kahnVars>>

Elements(s) == {s[i] : i \in DOMAIN s}

(***************************************************************************)
(* build_dependency_graph. A contract that refers to itself by its meaning *)
(* adds no edge; one that lists itself is an error.                        *)
(***************************************************************************)
Edges(n) == requires[n] \ {n}

Deps(n) == Edges(n) \cap Contract

Dependents(n) == {m \in Contract : n \in Edges(m)}

Unresolved == {e \in Contract \X Ghost : e[2] \in Edges(e[1])}

Frame == [fqn : Contract, left : (SUBSET Contract) \cup {Unentered}]

GraphTypeOK ==
  /\ requires \in [Contract -> SUBSET (Contract \cup Ghost)]
  /\ declared \subseteq Contract
  /\ stage \in {"search", "order", "ordered", "refused"}
  /\ stack \in Seq(Frame)
  /\ path \in Seq(Contract)
  /\ visited \subseteq Contract
  /\ cycles \subseteq Seq(Contract)
  /\ pending \in [Contract -> Int]
  /\ ready \subseteq Contract
  /\ order \in Seq(Contract)

GraphStart ==
  /\ stage = "search"
  /\ stack = <<>> /\ path = <<>> /\ visited = {} /\ cycles = {}
  /\ pending = [n \in Contract |-> 0] /\ ready = {} /\ order = <<>>

GraphInit ==
  /\ requires \in [Contract -> SUBSET (Contract \cup Ghost)]
  /\ declared \in SUBSET {n \in Contract : n \in requires[n]}
  /\ GraphStart

-------------------------------------------------------------------------------
(***************************************************************************)
(* detect_cycles.                                                          *)
(***************************************************************************)
Top   == stack[Len(stack)]
Below == SubSeq(stack, 1, Len(stack) - 1)

Root ==
  /\ stage = "search" /\ stack = <<>>
  /\ \E n \in Contract \ visited : stack' = <<[fqn |-> n, left |-> Unentered]>>
  /\ UNCHANGED <<requires, declared, stage, path, visited, cycles, kahnVars>>

(***************************************************************************)
(* A contract on the path closes a cycle; one that was visited is done.    *)
(***************************************************************************)
CloseCycle ==
  /\ stage = "search" /\ stack # <<>> /\ Top.left = Unentered
  /\ Top.fqn \in Elements(path)
  /\ LET i == CHOOSE i \in DOMAIN path : path[i] = Top.fqn
     IN cycles' = cycles \cup {Append(SubSeq(path, i, Len(path)), Top.fqn)}
  /\ stack' = Below
  /\ UNCHANGED <<requires, declared, stage, path, visited, kahnVars>>

\* mutant: what was visited is skipped before it is looked for on the path.
SkipVisitedFirst ==
  /\ stage = "search" /\ stack # <<>> /\ Top.left = Unentered
  /\ Top.fqn \in visited
  /\ stack' = Below
  /\ UNCHANGED <<requires, declared, stage, path, visited, cycles, kahnVars>>

SkipVisited ==
  /\ stage = "search" /\ stack # <<>> /\ Top.left = Unentered
  /\ Top.fqn \in visited \ Elements(path)
  /\ stack' = Below
  /\ UNCHANGED <<requires, declared, stage, path, visited, cycles, kahnVars>>

Enter ==
  /\ stage = "search" /\ stack # <<>> /\ Top.left = Unentered
  /\ Top.fqn \notin visited
  /\ visited' = visited \cup {Top.fqn}
  /\ path' = Append(path, Top.fqn)
  /\ stack' = Append(Below, [Top EXCEPT !.left = Deps(Top.fqn)])
  /\ UNCHANGED <<requires, declared, stage, cycles, kahnVars>>

Follow ==
  /\ stage = "search" /\ stack # <<>> /\ Top.left \notin {Unentered, {}}
  /\ \E d \in Top.left :
       stack' = Append(Append(Below, [Top EXCEPT !.left = @ \ {d}]),
                       [fqn |-> d, left |-> Unentered])
  /\ UNCHANGED <<requires, declared, stage, path, visited, cycles, kahnVars>>

Leave ==
  /\ stage = "search" /\ stack # <<>> /\ Top.left = {}
  /\ path' = SubSeq(path, 1, Len(path) - 1)
  /\ stack' = Below
  /\ UNCHANGED <<requires, declared, stage, visited, cycles, kahnVars>>

(***************************************************************************)
(* The search is over: any error ends the build, otherwise the order is    *)
(* computed, from the contracts that require nothing.                      *)
(***************************************************************************)
Faultless == declared = {} /\ Unresolved = {} /\ cycles = {}

Judge ==
  /\ stage = "search" /\ stack = <<>> /\ visited = Contract
  /\ IF Faultless
     THEN /\ stage' = "order"
          /\ pending' = [n \in Contract |-> Cardinality(Deps(n))]
          /\ ready' = {n \in Contract : Deps(n) = {}}
     ELSE /\ stage' = "refused"
          /\ UNCHANGED <<pending, ready>>
  /\ UNCHANGED <<requires, declared, searchVars, order>>

-------------------------------------------------------------------------------
(***************************************************************************)
(* topological_order.                                                      *)
(***************************************************************************)
\* mutant: a dependent is released by the first of its requirements.
TakeEagerly ==
  /\ stage = "order"
  /\ \E n \in ready :
       /\ \A m \in ready : n <= m
       /\ order' = Append(order, n)
       /\ pending' = [m \in Contract |->
                        IF m \in Dependents(n) THEN pending[m] - 1 ELSE pending[m]]
       /\ ready' = (ready \ {n}) \cup
                   {m \in Dependents(n) : pending[m] > 0 /\ m \notin Elements(order)}
  /\ UNCHANGED <<requires, declared, stage, searchVars>>

Take ==
  /\ stage = "order"
  /\ \E n \in ready :
       /\ \A m \in ready : n <= m
       /\ order' = Append(order, n)
       /\ pending' = [m \in Contract |->
                        IF m \in Dependents(n) THEN pending[m] - 1 ELSE pending[m]]
       /\ ready' = (ready \ {n}) \cup {m \in Dependents(n) : pending[m] = 1}
  /\ UNCHANGED <<requires, declared, stage, searchVars>>

(***************************************************************************)
(* GraphCycleError when contracts are left over.                           *)
(***************************************************************************)
EndOrder ==
  /\ stage = "order" /\ ready = {}
  /\ stage' = IF Len(order) = Cardinality(Contract) THEN "ordered" ELSE "refused"
  /\ UNCHANGED <<requires, declared, searchVars, kahnVars>>

GraphNext ==
  \/ Root \/ CloseCycle \/ SkipVisited \/ Enter \/ Follow \/ Leave
  \/ Judge \/ Take \/ EndOrder

GraphSpec == GraphInit /\ [][GraphNext]_graphVars /\ WF_graphVars(GraphNext)

-------------------------------------------------------------------------------
(***************************************************************************)
(* The search finds a cycle exactly when there is one: a contract that     *)
(* requires itself through others. And each cycle it reports, for an       *)
(* author to read, goes from requirement to requirement back to its start. *)
(***************************************************************************)
Reach[k \in Nat] ==
  IF k = 0 THEN {e \in Contract \X Contract : e[2] \in Deps(e[1])}
  ELSE LET R == Reach[k - 1] IN
       R \cup {e \in Contract \X Contract :
                 \E b \in Contract : <<e[1], b>> \in R /\ <<b, e[2]>> \in R}

HasCycle == \E n \in Contract : <<n, n>> \in Reach[Cardinality(Contract)]

CyclesAreFound ==
  /\ stage # "search" => (cycles # {} <=> HasCycle)
  /\ \A c \in cycles :
       /\ Len(c) > 1 /\ c[1] = c[Len(c)]
       /\ \A i \in 1..(Len(c) - 1) : c[i + 1] \in Deps(c[i])

(***************************************************************************)
(* Whatever stands in the compilation order comes after everything it      *)
(* requires, and no contract comes twice.                                  *)
(***************************************************************************)
DependenciesFirst ==
  \A i \in DOMAIN order : \A d \in Deps(order[i]) : \E j \in 1..(i - 1) : order[j] = d

(***************************************************************************)
(* The two algorithms agree. A graph without a cycle is ordered to its     *)
(* last contract: topological_order raises no GraphCycleError once         *)
(* detect_cycles has found nothing.                                        *)
(***************************************************************************)
OrderIsComplete ==
  /\ CyclesAreFound
  /\ stage = "ordered" => Elements(order) = Contract /\ Len(order) = Cardinality(Contract)
  /\ stage = "refused" => ~Faultless

================================================================================

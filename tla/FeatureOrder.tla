----------------------------- MODULE FeatureOrder -----------------------------
(***************************************************************************)
(* The dependency graph of the Features of a dev container and the order   *)
(* they are installed in (src/internal/features/graph.go and order.go).    *)
(*                                                                         *)
(* A node is a reference: a Feature and the options it is asked for with.  *)
(* Two relations between references drive everything.  Same (nodesEqual)   *)
(* compares resource and options and decides what is a duplicate and what  *)
(* meets a hard dependency; Satisfies (nodeSatisfiesSoftDep) compares the  *)
(* resource and its legacy ids only and decides what meets a soft one.     *)
(***************************************************************************)
EXTENDS Integers, Sequences, FiniteSets, Functions

CONSTANTS
  Refs,       \* references that Features and configurations make
  Same,       \* pairs that nodesEqual holds of
  Satisfies,  \* pairs <<node, soft>> that nodeSatisfiesSoftDep holds of
  Rank,       \* the place of a reference in the order of compareNodes
  Inputs      \* the graphs, configurations and failures to start from

(* An input: what each Feature depends on (its dependsOn keys sorted) and  *)
(* installs after, the references of the configuration and of its          *)
(* overrideFeatureInstallOrder, and the ones that cannot be processed.     *)
InputsOf == [hard: [Refs -> Seq(Refs)], soft: [Refs -> SUBSET Refs],
             users: Seq(Refs), overrides: Seq(Refs), broken: SUBSET Refs]

ASSUME RelationsAssumption ==
  /\ IsFiniteSet(Refs)
  /\ Same \subseteq Refs \X Refs /\ \A r \in Refs : <<r, r>> \in Same
  /\ \A a, b \in Refs : <<a, b>> \in Same => <<b, a>> \in Same
  /\ Satisfies \subseteq Refs \X Refs
  /\ Rank \in [Refs -> Int]
ASSUME InputsAssumption == \A in \in Inputs : in \in InputsOf /\ in.users # << >>

VARIABLES
  input,     \* the input, fixed by Init
  pc,        \* "resolve", "override", "round" or the outcome
  worklist,  \* references still to process
  acc,       \* the nodes of the graph, in the order they were accepted
  turn,      \* the entry of the overrides applied next, from the last
  priority,  \* RoundPriority of each node
  waits,     \* the soft dependencies that were not pruned
  left,      \* nodes not installed yet
  order,     \* nodes installed, in order
  rounds     \* history: the rounds they were installed in

vars == <<input, pc, worklist, acc, turn, priority, waits, left, order, rounds>>

Nodes     == Range(acc)
Installed == Range(order)

Equal(a, b) == <<a, b>> \in Same
Meets(a, b) == <<a, b>> \in Satisfies

Init ==
  /\ input \in Inputs
  /\ pc = "resolve"
  /\ worklist = input.users
  /\ acc = << >>
  /\ turn = Len(input.overrides)
  /\ priority = [r \in Refs |-> 0]
  /\ waits = [r \in Refs |-> {}]
  /\ left = {} /\ order = << >> /\ rounds = << >>

(***************************************************************************)
(* resolveDependencyGraph                                                  *)
(***************************************************************************)

(* Bug: two references to a Feature with different options are duplicates. *)
ProcessByResource ==
  /\ pc = "resolve" /\ worklist # << >>
  /\ LET current == Head(worklist)
         duplicate == \E n \in Nodes : Meets(n, current)
     IN /\ worklist' = Tail(worklist) \o (IF duplicate THEN << >> ELSE input.hard[current])
        /\ acc' = IF duplicate THEN acc ELSE Append(acc, current)
  /\ UNCHANGED <<input, pc, turn, priority, waits, left, order, rounds>>

(* Bug: the dependencies of a duplicate are resolved once more.            *)
ProcessAgain ==
  /\ pc = "resolve" /\ worklist # << >>
  /\ LET current == Head(worklist)
     IN /\ worklist' = Tail(worklist) \o input.hard[current]
        /\ acc' = IF \E n \in Nodes : Equal(n, current) THEN acc ELSE Append(acc, current)
  /\ UNCHANGED <<input, pc, turn, priority, waits, left, order, rounds>>

(* A node for each hard dependency goes to the end of the worklist.        *)
Process ==
  /\ pc = "resolve" /\ worklist # << >>
  /\ LET current == Head(worklist)
         duplicate == \E n \in Nodes : Equal(n, current)
         fails == \/ current \in input.broken
                  \/ ~duplicate /\ input.soft[current] \cap input.broken # {}
     IN /\ pc' = IF fails THEN "unprocessed" ELSE "resolve"
        /\ IF fails \/ duplicate
           THEN worklist' = Tail(worklist) /\ acc' = acc
           ELSE /\ worklist' = Tail(worklist) \o input.hard[current]
                /\ acc' = Append(acc, current)
  /\ UNCHANGED <<input, turn, priority, waits, left, order, rounds>>

Resolved ==
  /\ pc = "resolve" /\ worklist = << >>
  /\ pc' = "override"
  /\ UNCHANGED <<input, worklist, acc, turn, priority, waits, left, order, rounds>>

(***************************************************************************)
(* applyOverrideFeatureInstallOrder, one entry at a time, from the last.   *)
(***************************************************************************)
OverrideBy(value) ==
  /\ pc = "override" /\ turn > 0
  /\ priority' = [r \in Refs |-> IF r \in Nodes /\ Meets(r, input.overrides[turn]) /\ value > priority[r]
                                 THEN value ELSE priority[r]]
  /\ turn' = turn - 1
  /\ UNCHANGED <<input, pc, worklist, acc, waits, left, order, rounds>>
(* Bug: the last entry gets the highest priority.                          *)
OverrideLastHighest == OverrideBy(turn)
Override ==
  /\ pc = "override" /\ turn > 0
  /\ LET entry == input.overrides[turn]
         value == Len(input.overrides) - turn + 1
     IN IF entry \in input.broken
        THEN pc' = "unprocessed" /\ UNCHANGED <<turn, priority>>
        ELSE /\ priority' = [r \in Refs |-> IF r \in Nodes /\ Meets(r, entry) /\ value > priority[r]
                                            THEN value ELSE priority[r]]
             /\ turn' = turn - 1
             /\ pc' = pc
  /\ UNCHANGED <<input, worklist, acc, waits, left, order, rounds>>

(***************************************************************************)
(* ComputeInstallationOrder                                                *)
(***************************************************************************)

(* Bug: no soft dependency is dropped.                                     *)
PruneNothing ==
  /\ pc = "override" /\ turn = 0
  /\ pc' = "round"
  /\ waits' = input.soft
  /\ left' = Nodes
  /\ UNCHANGED <<input, worklist, acc, turn, priority, order, rounds>>

(* Soft dependencies that no node of the graph meets are dropped.          *)
Prune ==
  /\ pc = "override" /\ turn = 0
  /\ pc' = "round"
  /\ waits' = [r \in Refs |-> {s \in input.soft[r] : r \in Nodes /\ \E n \in Nodes : Meets(n, s)}]
  /\ left' = Nodes
  /\ UNCHANGED <<input, worklist, acc, turn, priority, order, rounds>>

(* Bug: a hard dependency is met by the Feature with other options.        *)
CanInstallByResource(r) ==
  /\ \A d \in Range(input.hard[r]) : \E n \in Installed : Meets(n, d)
  /\ \A s \in waits[r] : \E n \in Installed : Meets(n, s)

CanInstall(r) ==
  /\ \A d \in Range(input.hard[r]) : \E n \in Installed : Equal(n, d)
  /\ \A s \in waits[r] : \E n \in Installed : Meets(n, s)

Ready == {r \in left : CanInstall(r)}

(* What can be installed and has the highest priority of all that can be.  *)
InRound == {r \in Ready : \A n \in Ready : priority[n] <= priority[r]}

(* A round in the order of compareNodes.                                   *)
Sorted(round, s) ==
  /\ s \in [1..Cardinality(round) -> round]
  /\ \A r \in round : \E i \in DOMAIN s : s[i] = r
  /\ \A i, j \in DOMAIN s : i < j => s[i] # s[j] /\ Rank[s[i]] <= Rank[s[j]]

Round ==
  /\ pc = "round" /\ Ready # {}
  /\ \E s \in [1..Cardinality(InRound) -> InRound] : Sorted(InRound, s) /\ order' = order \o s
  /\ left' = {n \in left : ~\E r \in InRound : Equal(n, r)}
  /\ rounds' = Append(rounds, InRound)
  /\ UNCHANGED <<input, pc, worklist, acc, turn, priority, waits>>

Circular ==
  /\ pc = "round" /\ left # {} /\ Ready = {}
  /\ pc' = "circular"
  /\ UNCHANGED <<input, worklist, acc, turn, priority, waits, left, order, rounds>>

Finished ==
  /\ pc = "round" /\ left = {}
  /\ pc' = "done"
  /\ UNCHANGED <<input, worklist, acc, turn, priority, waits, left, order, rounds>>

Outcomes == {"done", "circular", "unprocessed"}

Rest == pc \in Outcomes /\ UNCHANGED vars

Next == Process \/ Resolved \/ Override \/ Prune \/ Round \/ Circular \/ Finished \/ Rest

(* One goroutine runs from start to end.                                   *)
Spec == Init /\ [][Next]_vars /\ WF_vars(Next)

-----------------------------------------------------------------------------
(* The variables have their types (graph.go DependencyGraph, order.go      *)
(* FNode); RoundPriority never exceeds the number of override entries.     *)
TypeOK ==
  /\ input \in InputsOf
  /\ pc \in {"resolve", "override", "round"} \cup Outcomes
  /\ worklist \in Seq(Refs) /\ acc \in Seq(Refs) /\ order \in Seq(Refs)
  /\ rounds \in Seq(SUBSET Refs)
  /\ turn \in 0..Len(input.overrides)
  /\ priority \in [Refs -> 0..Len(input.overrides)]
  /\ waits \in [Refs -> SUBSET Refs]
  /\ left \subseteq Refs

Before(i) == {order[k] : k \in 1..(i - 1)}

(* order.go: a Feature is installed after every Feature it depends on, and *)
(* after one that meets each soft dependency that some node could meet.    *)
DependenciesFirst ==
  \A i \in DOMAIN order :
    /\ \A d \in Range(input.hard[order[i]]) : \E n \in Before(i) : Equal(n, d)
    /\ \A s \in input.soft[order[i]] :
         (\E n \in Nodes : Meets(n, s)) => \E n \in Before(i) : Meets(n, s)

(* graph.go and order.go: an order that is returned holds every Feature    *)
(* the configuration asks for and all they depend on, and none twice.      *)
CompleteOnce ==
  pc = "done" =>
    /\ \A r \in Range(input.users) \cup UNION {Range(input.hard[n]) : n \in Installed} :
         \E n \in Installed : Equal(n, r)
    /\ \A i, j \in DOMAIN order : i < j => ~Equal(order[i], order[j])

Blocks(r) ==
  {n \in left : \/ \E d \in Range(input.hard[r]) : Equal(n, d)
                \/ \E s \in waits[r] : Meets(n, s)}

(* order.go "circular dependency detected among": whatever is reported     *)
(* waits for something that is reported with it, so there is a cycle.      *)
CircularIsReal ==
  pc = "circular" => left # {} /\ \A r \in left : Blocks(r) # {}

(* What overrideFeatureInstallOrder asks for: the earlier an entry, the    *)
(* higher the priority of the Features that meet it.                       *)
Asked(r) ==
  LET entries == {i \in DOMAIN input.overrides : Meets(r, input.overrides[i])}
  IN IF entries = {} THEN 0
     ELSE Len(input.overrides) + 1 - (CHOOSE i \in entries : \A j \in entries : i <= j)

(* graph.go and order.go: a Feature of a higher priority is in a later     *)
(* round than one of a lower only when one of its dependencies is not met  *)
(* by the rounds before.                                                   *)
OverrideHonoured ==
  \A i, j \in DOMAIN rounds : i < j =>
    LET earlier == UNION {rounds[k] : k \in 1..(i - 1)}
    IN \A x \in rounds[i], y \in rounds[j] : Asked(x) < Asked(y) =>
         \/ \E d \in Range(input.hard[y]) : ~\E n \in earlier : Equal(n, d)
         \/ \E s \in input.soft[y] :
              (\E n \in Nodes : Meets(n, s)) /\ ~\E n \in earlier : Meets(n, s)

(***************************************************************************)
(* The inductive invariant behind the three: nothing that is wanted is     *)
(* lost by the worklist, and installed and left make up the graph.         *)
(***************************************************************************)
GraphInv ==
  /\ \A m, n \in Nodes : Equal(m, n) => m = n
  /\ pc # "unprocessed" =>
       \A r \in Range(input.users) \cup UNION {Range(input.hard[n]) : n \in Nodes} :
         r \in Range(worklist) \/ \E n \in Nodes : Equal(n, r)
  /\ pc \notin {"resolve", "unprocessed"} => worklist = << >>

OrderInv ==
  /\ \A i, j \in DOMAIN order : i # j => order[i] # order[j]
  /\ Installed \cap left = {}
  /\ pc \in {"resolve", "override", "unprocessed"} => order = << >> /\ left = {}
  /\ pc \in {"round", "done", "circular"} =>
       /\ Nodes = Installed \cup left
       /\ \A r \in Nodes : waits[r] = {s \in input.soft[r] : \E n \in Nodes : Meets(n, s)}
  /\ pc = "done" => left = {}
  /\ pc = "circular" => left # {} /\ Ready = {}

IInv == TypeOK /\ GraphInv /\ OrderInv /\ DependenciesFirst

(* A graph with a cycle does not keep the resolution going for ever.       *)
Terminates == <>(pc \in Outcomes)
=============================================================================

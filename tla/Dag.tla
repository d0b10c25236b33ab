---------------------------------- MODULE Dag ----------------------------------
(***************************************************************************)
(* The order in which the tasks of a plan are worked on (packages/domain   *)
(* dag.ts topologicalOrder): nodes whose dependencies are all in the order *)
(* are ready, and the least ready one is appended, until none is left; a   *)
(* plan some of whose nodes never get ready is refused.                    *)
(*                                                                         *)
(* The algorithm counts, for each node, the dependencies that are not yet  *)
(* in the order.  One turn of its loop is one step.                        *)
(***************************************************************************)
EXTENDS Integers, Sequences, FiniteSets

CONSTANTS
  Ids,      (* What nodes and dependencies are named by, ordered as        *)
            (* numbers; a dependency need not be a node.                   *)
  MaxNodes  (* Bound on the nodes of a plan.                               *)

ASSUME IdsAssumption == Ids \subseteq Int /\ IsFiniteSet(Ids) /\ MaxNodes \in Nat

VARIABLES
  dependsOn,  (* The plan: from its nodes to the sets of their dependencies.*)
  indegree,   (* The dependencies not yet in the order, counted.           *)
  ready,      (* The nodes without any, not in the order themselves.       *)
  ordered,    (* The order so far.                                         *)
  verdict     (* "indexing", "ordering", "ordered" or "refused".           *)

planVars == <<dependsOn, indegree, ready, ordered, verdict>>

Nodes == DOMAIN dependsOn
Placed == {ordered[i] : i \in DOMAIN ordered}

PlanInit ==
  /\ \E nodes \in SUBSET Ids :
       Cardinality(nodes) <= MaxNodes /\ dependsOn \in [nodes -> SUBSET Ids]
  /\ indegree = [n \in Nodes |-> 0]
  /\ ready = {} /\ ordered = << >> /\ verdict = "indexing"

(* indexNodes refuses unknown dependencies and dependencies on oneself.    *)
WellFormed == \A n \in Nodes : dependsOn[n] \subseteq Nodes /\ n \notin dependsOn[n]

Refuse ==
  /\ verdict = "indexing" /\ ~WellFormed
  /\ verdict' = "refused"
  /\ UNCHANGED <<dependsOn, indegree, ready, ordered>>

Index ==
  /\ verdict = "indexing" /\ WellFormed
  /\ indegree' = [n \in Nodes |-> Cardinality(dependsOn[n])]
  /\ ready' = {n \in Nodes : indegree'[n] = 0}
  /\ verdict' = "ordering"
  /\ UNCHANGED <<dependsOn, ordered>>

(* Mutated: a node is ready as soon as one of its dependencies is done. *)
PlaceEarly ==
  /\ verdict = "ordering" /\ ready # {}
  /\ LET current == CHOOSE n \in ready : \A m \in ready : n <= m
         dependents == {n \in Nodes : current \in dependsOn[n]}
     IN /\ ordered' = Append(ordered, current)
        /\ indegree' = [n \in Nodes |-> IF n \in dependents THEN indegree[n] - 1 ELSE indegree[n]]
        /\ ready' = (ready \ {current}) \cup {n \in dependents : indegree'[n] <= 1}
  /\ UNCHANGED <<dependsOn, verdict>>

(* One turn of the loop, the updates of all dependents included.           *)
Place ==
  /\ verdict = "ordering" /\ ready # {}
  /\ LET current == CHOOSE n \in ready : \A m \in ready : n <= m
         dependents == {n \in Nodes : current \in dependsOn[n]}
     IN /\ ordered' = Append(ordered, current)
        /\ indegree' = [n \in Nodes |-> IF n \in dependents THEN indegree[n] - 1 ELSE indegree[n]]
        /\ ready' = (ready \ {current}) \cup {n \in dependents : indegree'[n] = 0}
  /\ UNCHANGED <<dependsOn, verdict>>

(* Nodes are left over only where there is a cycle among them.             *)
Conclude ==
  /\ verdict = "ordering" /\ ready = {}
  /\ verdict' = IF Len(ordered) = Cardinality(Nodes) THEN "ordered" ELSE "refused"
  /\ UNCHANGED <<dependsOn, indegree, ready, ordered>>

PlanNext == Refuse \/ Index \/ Place \/ Conclude

PlanSpec == PlanInit /\ [][PlanNext]_planVars /\ WF_planVars(PlanNext)

-----------------------------------------------------------------------------
PlanTypeOK ==
  /\ Nodes \subseteq Ids /\ \A n \in Nodes : dependsOn[n] \subseteq Ids
  /\ indegree \in [Nodes -> Int]
  /\ ready \subseteq Nodes
  /\ ordered \in Seq(Nodes)
  /\ verdict \in {"indexing", "ordering", "ordered", "refused"}

(* No node precedes a dependency of its own, or is in the order twice.     *)
EachAfterItsOwn ==
  \A i \in DOMAIN ordered :
    /\ \A d \in dependsOn[ordered[i]] : \E j \in 1 .. i - 1 : ordered[j] = d
    /\ \A j \in DOMAIN ordered : ordered[i] = ordered[j] => i = j

(* There is an order of the plan: a numbering of its nodes by which every  *)
(* dependency comes first.                                                 *)
HasOrder ==
  \E rank \in [Nodes -> 1 .. MaxNodes] : \A n \in Nodes : \A d \in dependsOn[n] : rank[d] < rank[n]

(* The whole plan is ordered, each node after its dependencies and once;   *)
(* or it is refused, and only if it has no order: a dependency is no node, *)
(* or there is a cycle (topologicalOrder).                                 *)
OrderIsSound ==
  /\ EachAfterItsOwn
  /\ verdict = "ordered" => Placed = Nodes
  /\ verdict = "refused" => ~(WellFormed /\ HasOrder)
=============================================================================

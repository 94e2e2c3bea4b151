------------------------------ MODULE EditGraph ------------------------------
(***************************************************************************)
(* Edit graphs: how EditGraphBuilder assembles one, what create_edit_graph *)
(* and the second validator of the project store accept, how the store     *)
(* appends an exposure to a graph, and which graphs the renderer compiles. *)
(*                                                                         *)
(* Node ids are numbers, in the order of the strings; the candidates after *)
(* an id are its "-auto-1", "-auto-2", ... variants.  Exposure and curve   *)
(* nodes are both "adjust"; parameters, masks and spelling are left out.   *)
(* A definition maps ids to nodes, so no id occurs twice; inputs are a set *)
(* because a repeated input is refused.                                    *)
(*                                                                         *)
(* A definition named Operator_Defect is a faulty variant of Operator.     *)
(***************************************************************************)
EXTENDS Integers, Sequences, FiniteSets

CONSTANTS
  Ids,        \* node ids callers use
  MaxInputs,  \* bound on the inputs of a node in a definition
  MaxNodes    \* node limit of an edit graph (4096)

ASSUME GraphAssumption == Ids \subseteq Nat \ {0} /\ MaxInputs \in Nat /\ MaxNodes \in Nat

VARIABLES
  nodes,  \* the nodes of the builder
  graphs  \* the last graph that was built or stored, if any

vars == <<nodes, graphs>>

Kinds == {"source", "adjust", "output"}
Nodes == [kind : Kinds, inputs : {i \in SUBSET Ids : Cardinality(i) <= MaxInputs}]

Definition(n, s, o) == [nodes |-> n, source |-> s, output |-> o]
IdsOf(d) == DOMAIN d.nodes
Inputs(d, id) == d.nodes[id].inputs
OfKind(d, kind) == {id \in IdsOf(d) : d.nodes[id].kind = kind}

\* A worklist emptied in n rounds, each of which takes the state one step on.
Iterated(step, start, n) ==
  LET after[i \in 0..n] == IF i = 0 THEN start ELSE step[after[i - 1]]
  IN  after[n]

(***************************************************************************)
(* create_edit_graph                                                       *)
(***************************************************************************)

\* validate_node_shape: the number of inputs of each kind of node.
Arity(kind) == IF kind = "source" THEN 0 ELSE 1
WellShaped(d) == \A id \in IdsOf(d) : Cardinality(Inputs(d, id)) = Arity(d.nodes[id].kind)

EndsDeclared(d) ==
  /\ OfKind(d, "source") = {d.source}
  /\ OfKind(d, "output") = {d.output}

InputsPresent(d) == \A id \in IdsOf(d) : Inputs(d, id) \subseteq IdsOf(d)

\* The depth-first visit of validate_topology: the nodes from which it comes,
\* while those of visiting are open, to an open node.
MeetsCycle(d) ==
  LET meets[visiting \in SUBSET IdsOf(d)] ==
        {id \in IdsOf(d) :
           id \in visiting \/ \E input \in Inputs(d, id) : input \in meets[visiting \cup {id}]}
  IN  meets[{}] # {}

\* collect_ancestors, from the output
Ancestors(d) ==
  Iterated([seen \in SUBSET IdsOf(d) |-> seen \cup UNION {Inputs(d, id) : id \in seen}],
           {d.output}, Cardinality(IdsOf(d)))

\* Variant: nodes that do not lead to the output are not noticed.
ValidTopology_Unreachable(d) ==
  /\ EndsDeclared(d)
  /\ InputsPresent(d)
  /\ ~MeetsCycle(d)

ValidTopology(d) ==
  /\ EndsDeclared(d)
  /\ InputsPresent(d)
  /\ ~MeetsCycle(d)
  /\ Ancestors(d) = IdsOf(d)

CreateAccepts(d) ==
  /\ IdsOf(d) # {} /\ Cardinality(IdsOf(d)) <= MaxNodes
  /\ WellShaped(d)
  /\ ValidTopology(d)

\* nodes_in_topological_order: the inputs of a node, then the node, from the
\* output; in an accepted graph a node has at most one input.
OrderTo(d, output) ==
  LET order[id \in IdsOf(d)] ==
        IF Inputs(d, id) = {} THEN <<id>>
        ELSE Append(order[CHOOSE input \in Inputs(d, id) : TRUE], id)
  IN  order[output]

(***************************************************************************)
(* validate_canonical_edit_graph: the store parses the graph, which runs   *)
(* create_edit_graph, and then checks it a second time on its own          *)
(***************************************************************************)

\* Kahn's algorithm: a node is taken when all its inputs have been.
Peeled(d) ==
  Iterated([done \in SUBSET IdsOf(d) |->
              done \cup {id \in IdsOf(d) : Inputs(d, id) \subseteq done}],
           {}, Cardinality(IdsOf(d)))

\* Variant: a node may be declared source without being one.
StoreChecks_AnySource(d) ==
  /\ IdsOf(d) # {} /\ Cardinality(IdsOf(d)) <= MaxNodes
  /\ WellShaped(d)
  /\ d.source \in IdsOf(d) /\ d.output \in OfKind(d, "output")
  /\ \A id \in IdsOf(d) : Inputs(d, id) \subseteq IdsOf(d) \ {id}
  /\ Peeled(d) = IdsOf(d)
  /\ Ancestors(d) = IdsOf(d)

\* The checks that follow the parser's.
StoreChecks(d) ==
  /\ IdsOf(d) # {} /\ Cardinality(IdsOf(d)) <= MaxNodes
  /\ WellShaped(d)
  /\ Cardinality(OfKind(d, "source")) = 1 /\ Cardinality(OfKind(d, "output")) = 1
  /\ d.source \in OfKind(d, "source") /\ d.output \in OfKind(d, "output")
  /\ \A id \in IdsOf(d) : Inputs(d, id) \subseteq IdsOf(d) \ {id}
  /\ Peeled(d) = IdsOf(d)
  /\ Ancestors(d) = IdsOf(d)

StoreAccepts(d) == CreateAccepts(d) /\ StoreChecks(d)

(***************************************************************************)
(* compile_linear_chain: follows single inputs from the output; the empty  *)
(* sequence is a refusal.                                                  *)
(***************************************************************************)
Refuse == <<>>

\* One round of the loop: the input of the node reached is put before it.
Lengthened(d, chain) ==
  IF chain = Refuse THEN Refuse
  ELSE IF d.nodes[chain[1]].kind = "source" THEN chain
  ELSE IF \/ \E i \in 2..Len(chain) : chain[i] = chain[1]
          \/ Cardinality(Inputs(d, chain[1])) # 1
          \/ ~(Inputs(d, chain[1]) \subseteq IdsOf(d))
       THEN Refuse
  ELSE <<CHOOSE input \in Inputs(d, chain[1]) : TRUE>> \o chain

Compiled(d) ==
  LET chain == Iterated([part \in Seq(IdsOf(d)) |-> Lengthened(d, part)],
                        <<d.output>>, Cardinality(IdsOf(d)))
  IN  IF /\ chain # Refuse
         /\ d.nodes[d.output].kind = "output"
         /\ chain[1] = d.source /\ Inputs(d, d.source) = {}
         /\ Len(chain) = Cardinality(IdsOf(d))
      THEN chain ELSE Refuse

(***************************************************************************)
(* append_exposure_to_graph                                                *)
(***************************************************************************)
WithNode(d, id, input) ==
  [d EXCEPT !.nodes = [n \in IdsOf(d) \cup {id, d.output} |->
                         IF n = id THEN [kind |-> "adjust", inputs |-> {input}]
                         ELSE IF n = d.output THEN [kind |-> "output", inputs |-> {id}]
                         ELSE d.nodes[n]]]

\* Variant: the id asked for is used without a look.
Exposed_Collides(d, requested) ==
  WithNode(d, requested, CHOOSE i \in Inputs(d, d.output) : TRUE)

\* The id asked for or the first of its variants that is free.
FreeId(d, requested) ==
  CHOOSE k \in requested .. (requested + Cardinality(IdsOf(d))) :
    k \notin IdsOf(d) /\ \A j \in requested..(k - 1) : j \in IdsOf(d)

\* The first free candidate becomes the new input of the output.
Exposed(d, requested) ==
  WithNode(d, FreeId(d, requested), CHOOSE i \in Inputs(d, d.output) : TRUE)

(***************************************************************************)
(* The builder and the store                                               *)
(***************************************************************************)
Init == nodes = [id \in {} |-> 0] /\ graphs = {}

\* add_node: an id that is there is refused.
AddNode(id, node) ==
  /\ graphs = {}
  /\ id \notin DOMAIN nodes
  /\ nodes' = [n \in DOMAIN nodes \cup {id} |-> IF n = id THEN node ELSE nodes[n]]
  /\ UNCHANGED graphs

\* replace_node: the id stays.
ReplaceNode(id, node) ==
  /\ graphs = {}
  /\ id \in DOMAIN nodes
  /\ nodes' = [nodes EXCEPT ![id] = node]
  /\ UNCHANGED graphs

RemoveNode(id) ==
  /\ graphs = {}
  /\ id \in DOMAIN nodes
  /\ nodes' = [n \in DOMAIN nodes \ {id} |-> nodes[n]]
  /\ UNCHANGED graphs

\* build, with the ends set_source_node_id and set_output_node_id gave; the
\* graph replaces what the project had and the builder is dropped.
Build(s, o) ==
  /\ graphs = {}
  /\ CreateAccepts(Definition(nodes, s, o))
  /\ graphs' = {Definition(nodes, s, o)}
  /\ nodes' = [id \in {} |-> 0]

\* adjust.exposure on a v2 project: what validate_canonical_edit_graph refuses
\* is not stored.
AdjustExposure(requested) ==
  /\ \E g \in graphs :
       /\ StoreAccepts(Exposed(g, requested))
       /\ graphs' = {Exposed(g, requested)}
  /\ UNCHANGED nodes

Next ==
  \/ \E id \in Ids, node \in Nodes : AddNode(id, node) \/ ReplaceNode(id, node)
  \/ \E id \in Ids : RemoveNode(id) \/ AdjustExposure(id)
  \/ \E s, o \in Ids : Build(s, o)

Spec == Init /\ [][Next]_vars

(***************************************************************************)
(* Properties                                                              *)
(***************************************************************************)

\* The two validators, one visiting depth first and one peeling nodes off,
\* accept the same graphs: the store refuses no graph a caller could build, and
\* its own checks let no graph pass that create_edit_graph would refuse.
ValidatorsAgree ==
  \A s, o \in Ids : CreateAccepts(Definition(nodes, s, o)) <=> StoreChecks(Definition(nodes, s, o))

\* Every accepted graph is one chain from source to output, so the renderer
\* refuses none of them as branched, cyclic or incomplete, and it applies the
\* nodes in the order nodes_in_topological_order gives.
AcceptedIsCompiled ==
  \A s, o \in Ids :
    LET d == Definition(nodes, s, o) IN
      CreateAccepts(d) =>
        /\ Compiled(d) = OrderTo(d, o)
        /\ {Compiled(d)[i] : i \in DOMAIN Compiled(d)} = IdsOf(d)

\* An exposure is refused only at the node limit, and otherwise becomes the last
\* adjustment of the chain, the rest staying as it was, whatever ids the
\* caller's graph uses.
ExposureIsLast ==
  \A g \in graphs, requested \in Ids :
    LET e == Exposed(g, requested)
        n == Len(Compiled(g))
    IN  /\ StoreAccepts(e) <=> Cardinality(IdsOf(g)) < MaxNodes
        /\ StoreAccepts(e) =>
             /\ Len(Compiled(e)) = n + 1
             /\ SubSeq(Compiled(e), 1, n - 1) = SubSeq(Compiled(g), 1, n - 1)
             /\ Compiled(e)[n + 1] = g.output
=============================================================================

---------------------------- MODULE GraphDocuments ----------------------------
(***************************************************************************)
(* Edit graphs as documents.  A caller writes the nodes in any order and   *)
(* zero with either sign; what is stored, hashed and compared is one       *)
(* canonical text.  It is produced in three places that have to agree to   *)
(* the byte: the document library, graph.replace, and the store, which     *)
(* appends exposures to the text itself.                                   *)
(*                                                                         *)
(* A text is its content: the ends and the list of nodes, each with one    *)
(* number for its parameters (1 where none is free).  Its hash is the text *)
(* itself.  The limit on its bytes (4 MiB) is left out.                    *)
(*                                                                         *)
(* A definition named Operator_Defect is a faulty variant of Operator.     *)
(***************************************************************************)
EXTENDS EditGraph

\* What a caller may write for a number.
Numbers == {"-0", "0", "1"}

\* normalized_number
Normalized(number) == IF number = "-0" THEN "0" ELSE number

\* The nodes of a graph, written down in some order.
Document(d, order, numbers) ==
  [source |-> d.source,
   output |-> d.output,
   nodes  |-> [i \in DOMAIN order |->
                 [id     |-> order[i],
                  kind   |-> d.nodes[order[i]].kind,
                  inputs |-> d.nodes[order[i]].inputs,
                  number |-> numbers[order[i]]]]]

\* The graph a document describes.
Described(document) ==
  LET at(id) == CHOOSE i \in DOMAIN document.nodes : document.nodes[i].id = id
      ids    == {document.nodes[i].id : i \in DOMAIN document.nodes}
  IN  Definition([id \in ids |-> [kind   |-> document.nodes[at(id)].kind,
                                  inputs |-> document.nodes[at(id)].inputs]],
                 document.source, document.output)

\* The place of an id when the ids are put in order.
Place(ids, id) == Cardinality({other \in ids : other <= id})

\* The nodes of a list, no two of which have the same id, by id.
ById(list) ==
  LET ids == {list[k].id : k \in DOMAIN list} IN
    [i \in DOMAIN list |-> list[CHOOSE k \in DOMAIN list : Place(ids, list[k].id) = i]]

Plain(list) == [i \in DOMAIN list |-> [list[i] EXCEPT !.number = Normalized(@)]]

\* parse_edit_graph_json and the end of create_edit_graph: numbers normalised,
\* nodes sorted.
Parsed(document) == [document EXCEPT !.nodes = ById(Plain(document.nodes))]

\* canonical_edit_graph_json: the nodes as the graph has them.
Canonical(graph) == [graph EXCEPT !.nodes = Plain(graph.nodes)]

\* validate_graph_replace_parameters: the canonical text is parsed once more
\* and hashed.
ReplaceAccepts(document, hash) ==
  /\ CreateAccepts(Described(document))
  /\ Canonical(Parsed(Canonical(Parsed(document)))) = hash

\* validate_canonical_edit_graph on a text.
StoreAcceptsText(text) ==
  /\ CreateAccepts(Described(text))
  /\ Canonical(Parsed(text)) = text
  /\ \A i, j \in DOMAIN text.nodes : i < j => text.nodes[i].id < text.nodes[j].id
  /\ \A i \in DOMAIN text.nodes : text.nodes[i].number # "-0"
  /\ StoreChecks(Described(text))

\* Variant: the new node stays at the end of the list.
Appended_Unsorted(text, requested, number) ==
  LET id       == FreeId(Described(text), requested)
      at       == CHOOSE i \in DOMAIN text.nodes : text.nodes[i].id = text.output
      exposure == [id |-> id, kind |-> "adjust", inputs |-> text.nodes[at].inputs,
                   number |-> Normalized(number)]
  IN  [text EXCEPT !.nodes = Append([@ EXCEPT ![at].inputs = {id}], exposure)]

\* append_exposure_to_graph: the output takes its input from a new node, which
\* is put in its place among the others.
Appended(text, requested, number) ==
  LET id       == FreeId(Described(text), requested)
      at       == CHOOSE i \in DOMAIN text.nodes : text.nodes[i].id = text.output
      exposure == [id |-> id, kind |-> "adjust", inputs |-> text.nodes[at].inputs,
                   number |-> Normalized(number)]
  IN  [text EXCEPT !.nodes = ById(Append([@ EXCEPT ![at].inputs = {id}], exposure))]

(***************************************************************************)
(* Properties                                                              *)
(***************************************************************************)

\* The orders callers list the nodes of their graphs in, all ways to write the
\* numbers, and the nodes by id.
Orders(d) ==
  IF ~(IdsOf(d) \subseteq Ids) THEN {}
  ELSE {order \in [1..Cardinality(IdsOf(d)) -> IdsOf(d)] :
          {order[i] : i \in DOMAIN order} = IdsOf(d)}
Writings(d) ==
  {numbers \in [IdsOf(d) -> Numbers] :
     \A id \in IdsOf(d) : d.nodes[id].kind # "adjust" => numbers[id] = "1"}
Increasing(d) ==
  [i \in 1..Cardinality(IdsOf(d)) |-> CHOOSE id \in IdsOf(d) : Place(IdsOf(d), id) = i]

\* However a caller writes a graph down, one text comes of it: the store takes
\* it, graph.replace finds the hash the writer of any other form computed, and
\* so no retry is taken for another request.  An exposure appended to the text
\* gives exactly the text the document library gives the longer graph, so the
\* store refuses none but at the node limit and open accepts what was stored.
StoredIsCanonical ==
  \A g \in graphs : \A numbers \in Writings(g) :
    LET stored == Document(g, Increasing(g), [id \in IdsOf(g) |-> Normalized(numbers[id])]) IN
      /\ StoreAcceptsText(stored)
      /\ \A order \in Orders(g) :
           LET document == Document(g, order, numbers) IN
             Canonical(Parsed(document)) = stored /\ ReplaceAccepts(document, stored)
      /\ \A requested \in Ids, number \in Numbers :
           LET longer == Appended(stored, requested, number) IN
             /\ Described(longer) = Exposed(g, requested)
             /\ StoreAcceptsText(longer) <=> Cardinality(IdsOf(g)) < MaxNodes
=============================================================================

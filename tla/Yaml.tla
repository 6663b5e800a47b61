-------------------------------- MODULE Yaml --------------------------------
(***************************************************************************)
(* YAML documents, as yaml-cpp hands them to the program (external): a node*)
(* is a record of its kind and a scalar's text, the items of a sequence or *)
(* the values of a map by their keys.                                      *)
(***************************************************************************)
Scalar(text) == [kind |-> "scalar", text |-> text]
List(items) == [kind |-> "seq", items |-> items]
Map(keys) == [kind |-> "map", keys |-> keys]
Has(node, key) == node.kind = "map" /\ key \in DOMAIN node.keys
=============================================================================

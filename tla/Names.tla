------------------------------- MODULE Names --------------------------------
(***************************************************************************)
(* The names of functions in URLs, alerts, metric labels and lists.  A     *)
(* name is the sequence of what its dots separate: "f" is <<f>>, "f.ns" is *)
(* <<f, ns>>.                                                              *)
(***************************************************************************)
EXTENDS Integers, Sequences

CONSTANTS
  Segments,
  NoNamespace     \* the empty string, where function_namespace is not set

ASSUME NamesAssumption == NoNamespace \in Segments

Names == Seq(Segments) \ {<<>>}

(* pkg/middleware: everything behind the last dot is the namespace. *)
GetNamespace(default, full) ==
  IF Len(full) > 1
  THEN [name |-> SubSeq(full, 1, Len(full) - 1), namespace |-> full[Len(full)]]
  ELSE [name |-> full, namespace |-> default]

(* "%s.%s" of a function's name and namespace, as in the keys of the       *)
(* caches and of mixIn.                                                    *)
FullName(f) == Append(f.name, f.namespace)

(* The namespace is appended even to a name that has one. *)
LabelOfAny(default, called) ==
  IF default # NoNamespace THEN Append(called, default) ELSE called

(* What PrometheusFunctionNotifier makes of a name in a URL. *)
LabelOf(default, called) ==
  IF default # NoNamespace /\ Len(called) = 1 THEN Append(called, default) ELSE called
=============================================================================

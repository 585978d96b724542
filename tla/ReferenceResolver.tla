-------------------------- MODULE ReferenceResolver --------------------------
(***************************************************************************)
(* How a controller finds the object that belongs to a resource            *)
(* (pkg/controller/refresolver.go): by the reference in the status of the  *)
(* resource, else by labels.  listed is the set of objects in the informer *)
(* cache and labels[o] those of object o.  What is found is a set: empty   *)
(* for a nil object, and an AmbiguousReferenceError when it has more than  *)
(* one member.  The listers read memory, where nothing but not-found fails. *)
(***************************************************************************)
EXTENDS Naturals

NoRef == 0  \* a nil LocalObjectReference

ListByName(listed, name)               == listed \cap {name}
ListBySelector(listed, selector, labels) == {o \in listed : selector \subseteq labels[o]}

GetObjectFromReference(listed, ref) ==
  IF ref = NoRef THEN {} ELSE ListByName(listed, ref)

GetObjectFromLabels(listed, selector, labels) == ListBySelector(listed, selector, labels)

\* Mutant: the reference is not looked at.
GetObjectFromSelectorOnly(listed, ref, selector, labels) ==
  GetObjectFromLabels(listed, selector, labels)

GetObjectFromReferenceOrSelector(listed, ref, selector, labels) ==
  LET referenced == GetObjectFromReference(listed, ref)
  IN  IF referenced # {} THEN referenced ELSE GetObjectFromLabels(listed, selector, labels)

IsAmbiguousReference(found) == \E o, p \in found : o # p
=============================================================================

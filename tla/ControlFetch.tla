---------------------------- MODULE ControlFetch ----------------------------
(***************************************************************************)
(* Fetching a community's control plane from relays: what ControlFold      *)
(* folds is whatever editions have come in, in the order they came.        *)
(***************************************************************************)
EXTENDS ControlFold

CONSTANT Limit          \* what one fetch returns at most

vars == fetched

(* A fetch: each relay returns what it has, in its order, up to the limit;  *)
(* what came before stays.  The next fetch begins from nothing.             *)
Init == fetched = <<>>

Receive(e) ==
  /\ e \notin ToSet(fetched) /\ Len(fetched) < Limit
  /\ fetched' = Append(fetched, e)

Refetch == fetched # <<>> /\ fetched' = <<>>

Next == Refetch \/ \E e \in Edition : Receive(e)

Spec == Init /\ [][Next]_vars
=============================================================================

------------------------------- MODULE KVStore -------------------------------
(***************************************************************************)
(* What the in-memory index of StateDB promises its callers (db::set_value, *)
(* db::delete_key and db::get_object): a dictionary.  A key is bound to at  *)
(* most one value; set(k, v) leaves k bound to v, delete(k) leaves it bound  *)
(* to nothing, and neither touches the binding of another key.  A call that *)
(* ends the process instead has bound and unbound nothing.                  *)
(*                                                                         *)
(* call is the call that was made last, so a step is held to the arguments  *)
(* it was given: a set that is lost, or binds another key, is no step.      *)
(***************************************************************************)
CONSTANTS Key,      \* the hashes under which db stores its objects
          Val,      \* the objects
          NoValue   \* the null pointer that tree::get returns

VARIABLES store,    \* what each key is bound to, NoValue if to nothing
          call,     \* the call made last
          crashed   \* whether it ended the process

vars == <<store, call, crashed>>

NoCall == [op |-> "none"]
SetCall(k, v) == [op |-> "set", key |-> k, val |-> v]
DeleteCall(k) == [op |-> "delete", key |-> k]

Init ==
    /\ store = [k \in Key |-> NoValue]
    /\ call = NoCall
    /\ ~crashed

\* What a call leaves k bound to.
Leaves(k, bound) ==
    store' = IF crashed' THEN store ELSE [store EXCEPT ![k] = bound]

Set(k, v) ==
    /\ ~crashed
    /\ call' = SetCall(k, v)
    /\ Leaves(k, v)

Delete(k) ==
    /\ ~crashed
    /\ call' = DeleteCall(k)
    /\ Leaves(k, NoValue)

Next == \E k \in Key : Delete(k) \/ \E v \in Val : Set(k, v)

Spec == Init /\ [][Next]_vars
==============================================================================

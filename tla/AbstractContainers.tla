-------------------------- MODULE AbstractContainers --------------------------
(***************************************************************************)
(* What the containers of the engine promise to their callers, as the      *)
(* traits Set (common/set.rs) and Map (common/map.rs) and the users of     *)
(* RedoLog (cc/mod.rs) rely on it: a set of items and two maps from keys   *)
(* to Option<value>, with no order, position or duplicate in sight.        *)
(* `last` is the call that was made last: it is what makes a step of an    *)
(* implementation answer for a particular call.                            *)
(***************************************************************************)
CONSTANTS Keys, Values, None

VARIABLES members,   \* the items of the set
          pending,   \* the redo log: key -> value buffered for it, or None
          store,     \* the map: key -> value, or None
          last       \* the last call

vars == <<members, pending, store, last>>

Calls == [op : {"insert", "update", "remove"}, key : Keys,
          val : Values \cup {None}]

Init ==
    /\ members = {}
    /\ pending = [k \in Keys |-> None]
    /\ store   = [k \in Keys |-> None]
    /\ last    = None

\* Set::insert(k), RedoLog::insert(k, v), Map::insert(k, v)
Insert(k, v) ==
    /\ members' = members \cup {k}
    /\ pending' = [pending EXCEPT ![k] = v]
    /\ store'   = [store EXCEPT ![k] = v]
    /\ last'    = [op |-> "insert", key |-> k, val |-> v]

\* RedoLog::update(k, v): only a key that has an entry is changed
Update(k, v) ==
    /\ pending' = IF pending[k] = None THEN pending
                  ELSE [pending EXCEPT ![k] = v]
    /\ last'    = [op |-> "update", key |-> k, val |-> v]
    /\ UNCHANGED <<members, store>>

\* Set::remove(k), RedoLog::remove(k), Map::remove(k)
Remove(k) ==
    /\ members' = members \ {k}
    /\ pending' = [pending EXCEPT ![k] = None]
    /\ store'   = [store EXCEPT ![k] = None]
    /\ last'    = [op |-> "remove", key |-> k, val |-> None]

Next == \E k \in Keys : \/ Remove(k)
                        \/ \E v \in Values : Insert(k, v) \/ Update(k, v)

Spec == Init /\ [][Next]_vars
=============================================================================

----------------------------- MODULE KeyedStore -----------------------------
(* What a keyed container promises: a map from keys to values, of which a call *)
(* changes one key, and in which nothing changes but by a call.               *)
CONSTANTS Keys, Values, NoValue

VARIABLES store, last  \* the map, and the last call

Put(k, v) == last' = <<"put", k, v>> /\ store' = [store EXCEPT ![k] = v]
Drop(k) == last' = <<"drop", k, NoValue>> /\ store' = [store EXCEPT ![k] = NoValue]

Init == store = [k \in Keys |-> NoValue] /\ last = <<"none">>

Next == \E k \in Keys : Drop(k) \/ \E v \in Values : Put(k, v)

Spec == Init /\ [][Next]_<<store, last>>
=============================================================================

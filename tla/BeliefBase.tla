----------------------------- MODULE BeliefBase -----------------------------
(***************************************************************************)
(* What the engine of core.py promises its callers, said as the design it  *)
(* does NOT have: a table with one stored current state per (scope,        *)
(* belief).  A row moves only forward in the ordering contract; a write    *)
(* whose key does not sort after the row's changes nothing here; a row is  *)
(* retracted only while active, with its own payload, and never in the     *)
(* world scope.                                                            *)
(***************************************************************************)
EXTENDS Naturals

CONSTANTS Scopes, World, Beliefs, Payloads, Events, StateIds

VARIABLE base   \* <<scope, belief>> -> {} or the set of its current state

Later(x, y) == x.event > y.event \/ (x.event = y.event /\ x.id > y.id)

Rows(status, p) ==
  [id : StateIds, scope : Scopes, belief : Beliefs, event : Events,
   payload : {p}, status : {status}]

Put(k, x) ==
  /\ <<x.scope, x.belief>> = k
  /\ \A y \in base[k] : Later(x, y)
  /\ base' = [base EXCEPT ![k] = {x}]

Assert(k) == \E p \in Payloads : \E x \in Rows("active", p) : Put(k, x)

Retract(k) ==
  /\ k[1] # World
  /\ \E y \in base[k] : /\ y.status = "active"
                        /\ \E x \in Rows("retracted", y.payload) : Put(k, x)

Init == base = [k \in Scopes \X Beliefs |-> {}]

Next == \E k \in Scopes \X Beliefs : Assert(k) \/ Retract(k)

Spec == Init /\ [][Next]_base
=============================================================================

------------------------------- MODULE LocMap -------------------------------
(***************************************************************************)
(* What the location index promises its callers (spec section 3.1, "Index *)
(* invariants", and the set operation of section 4.1): for each key it     *)
(* holds the newest timestamp ever accepted, and a Set call changes it     *)
(* only by offering its own timestamp, once, at an instant between the     *)
(* call and its return; the higher timestamp wins.  Reads and resizes do   *)
(* not change it.  Timestamps are positive; 0 means absent.                *)
(***************************************************************************)
EXTENDS Naturals

CONSTANTS
  Keys,        \* the keys callers use
  Timestamps,  \* the timestamps a Set may carry (all > 0)
  Callers      \* the goroutines calling Set

VARIABLES
  index,  \* key -> newest accepted timestamp (0: absent)
  call    \* caller -> the Set it is in: key and timestamp (ts 0: none)

vars == <<index, call>>

NoCall == [k |-> CHOOSE k \in Keys : TRUE, ts |-> 0]

\* index after the Set of caller p took effect: the higher timestamp wins.
Applied(p) ==
  [index EXCEPT ![call[p].k] = IF call[p].ts > @ THEN call[p].ts ELSE @]

Init ==
  /\ index = [k \in Keys |-> 0]
  /\ call = [p \in Callers |-> NoCall]

Invoke(p) ==
  /\ call[p].ts = 0
  /\ \E k \in Keys, ts \in Timestamps : call' = [call EXCEPT ![p] = [k |-> k, ts |-> ts]]
  /\ UNCHANGED index

\* The instant the Set takes effect.
Apply(p) ==
  /\ call[p].ts # 0
  /\ index' = Applied(p)
  /\ UNCHANGED call

\* The return, in the same instant as the effect or after it.
Return(p) ==
  /\ call[p].ts # 0
  /\ index' \in {index, Applied(p)}
  /\ call' = [call EXCEPT ![p] = NoCall]

Next == \E p \in Callers : Invoke(p) \/ Apply(p) \/ Return(p)

Spec == Init /\ [][Next]_vars
=============================================================================

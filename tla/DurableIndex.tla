---------------------------- MODULE DurableIndex ----------------------------
(***************************************************************************)
(* What a store promises about its index across a restart (spec 4.1 and   *)
(* 4.2, "Recovery"): while it runs, the index is the LocMap contract, a   *)
(* Write or Delete taking effect once between its call and its return,    *)
(* the newer timestamp winning.  Part of the index is on disk (disk); it  *)
(* only grows, and never past the index.  A crash ends every call in      *)
(* progress and leaves an index between what is on disk and what was     *)
(* there before.                                                           *)
(***************************************************************************)
EXTENDS Naturals

CONSTANTS Keys, Timestamps, Callers

VARIABLES index, call, disk

vars == <<index, call, disk>>

Run == INSTANCE LocMap

Init == Run!Init /\ disk = [k \in Keys |-> 0]

\* A write, its effect or its return, as in LocMap; nothing reaches disk.
Step == Run!Next /\ UNCHANGED disk

\* More of the index reaches disk (a TOC file is finished).
Persist ==
    /\ \A k \in Keys : disk[k] <= disk'[k] /\ disk'[k] <= index[k]
    /\ UNCHANGED <<index, call>>

\* The process dies and restarts: every call is gone, the index falls back
\* to no less than the disk and no more than it was.
Crash ==
    /\ \A k \in Keys : disk[k] <= index'[k] /\ index'[k] <= index[k]
    /\ call' = [p \in Callers |-> Run!NoCall]
    /\ UNCHANGED disk

Next == Step \/ Persist \/ Crash

\* [A]_vars written with the stuttering disjunct first, so that an
\* implementation step that leaves these variables alone is matched at once.
Spec == Init /\ [][UNCHANGED vars \/ Next]_vars
=============================================================================

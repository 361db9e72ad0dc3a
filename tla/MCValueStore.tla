---------------------------- MODULE MCValueStore ----------------------------
(* Model values and sets for checking ValueStore with TLC.                 *)
EXTENDS ValueStore, TLC

CONSTANTS c1, c2, f1, f2

MCClients     == {c1, c2}
MCOneClient   == {c1}
MCFlushers    == {f1}
MCTwoFlushers == {f1, f2}
MCClientSymmetry == Permutations(MCClients)

\* A state constraint for the TOC re-creation scenario: the one Flush call
\* starts only after every write has returned.  It prunes the interleavings
\* of writes with the Flush, which that scenario does not need.
MCFlushAfterWrites ==
    \A f \in Flushers : fl[f].pc # "idle" =>
        nwrites = MaxWrites /\ \A c \in Clients : cl[c].pc = "idle"
=============================================================================

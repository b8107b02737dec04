----------------------------- MODULE MCTxEngine -----------------------------
(***************************************************************************)
(* The engine for TLC, with words of a few lanes.                          *)
(***************************************************************************)
EXTENDS TxEngineRefinement

AllConfigs == LegalConfigs(2, {0, 1, WORD - 1, WORD + 2})

\* Sequences that end, and loops that rotate the pattern.
StreamConfigs == { c \in AllConfigs : Streamable(c) }

\* A phase that fits into one word less a lane is sent twice in some words:
\* only a loop comes that far.
FitsOneWord(c) == c.repeat = 1 /\ c.len = SHORT_LEN /\ c.gap = 0

\* Loops over a phase that does not rotate.
FixedLoops == { c \in AllConfigs : c.loop /\ ~c.shift /\ ~FitsOneWord(c) }

\* Loops over the shortest phase.
ShortestLoops == { c \in AllConfigs : c.loop /\ FitsOneWord(c) }
=============================================================================

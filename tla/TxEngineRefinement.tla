------------------------- MODULE TxEngineRefinement -------------------------
(***************************************************************************)
(* The engine of TxEngine as an implementation of PatternStream.  The      *)
(* configuration and the position of the stream are what the registers     *)
(* tell of them.                                                           *)
(***************************************************************************)
EXTENDS TxEngine

\* The sequences the engine sends as the stream has them.  A loop that does not
\* rotate shifts the pattern each round all the same, and in one over a phase of
\* WORD - 1 bits some words hold two boundaries.
Streamable(c) == c.loop => c.shift /\ c.repeat * c.len + c.gap >= WORD

GapLength == active.gap_end - active.gap_start
ActiveConfig ==
  [ len |-> active.len, repeat |-> (active.phase_total - GapLength) \div active.len,
    insert |-> active.gap_start \div active.len, gap |-> GapLength,
    shift |-> active.shift, loop |-> active.loop ]

NoConf == [len |-> 0]

Stream == INSTANCE PatternStream WITH
  conf    <- IF running THEN ActiveConfig ELSE NoConf,
  sent    <- IF running THEN phase_offset * active.phase_total + phase_pos ELSE 0,
  active  <- phase_active,
  trigger <- phase_start_pulse

\* Every word, trigger, busy and done the engine puts out is that of the
\* stream: its word-parallel arithmetic sends the bits in order, none twice
\* and none lost, at every alignment of phase, gap and word.
ImplementsStream == Stream!Spec
=============================================================================

--------------------------- MODULE PatternStream ---------------------------
(***************************************************************************)
(* What the transmitter is to send, bit by bit and without any of the      *)
(* engine's registers: bit n of a sequence belongs to phase n \div total,  *)
(* a phase is the pattern rotated by its number and repeated, with a gap   *)
(* that consumes no pattern bits.  Words are cut from that stream.         *)
(***************************************************************************)
EXTENDS Integers

CONSTANTS
  WORD,     \* bits of a word
  Configs,  \* the configurations of a sequence
  NoBit,    \* what a gap, or the time after the end, carries
  NoConf    \* no sequence is being sent

VARIABLES
  conf,     \* the configuration of the sequence being sent
  sent,     \* bits of the current round already sent
  word, active, trigger, busy, done

vars == <<conf, sent, word, active, trigger, busy, done>>

Lanes == 0 .. WORD - 1
Blank == [lane \in Lanes |-> NoBit]

Total(c)  == c.repeat * c.len + c.gap
Phases(c) == IF c.shift THEN c.len ELSE 1
Round(c)  == Phases(c) * Total(c)

\* A sequence that does not loop has one round of bits.
Exists(c, n) == c.loop \/ n < Round(c)

Symbol(c, n) ==
  LET phase == (n \div Total(c)) % Phases(c)
      pos   == n % Total(c)
      gap   == c.insert * c.len
  IN  IF ~Exists(c, n) \/ (gap <= pos /\ pos < gap + c.gap) THEN NoBit
      ELSE IF pos < gap THEN (phase + pos) % c.len
      ELSE (phase + pos - c.gap) % c.len

Silent == word' = Blank /\ active' = FALSE /\ trigger' = FALSE

Init ==
  /\ conf = NoConf /\ sent = 0
  /\ word = Blank /\ active = FALSE /\ trigger = FALSE
  /\ busy = FALSE /\ done = FALSE

Begin(c) ==
  /\ conf' = c /\ sent' = 0
  /\ Silent /\ busy' = TRUE /\ done' = FALSE

\* The next WORD bits.  trigger marks a word in which a phase begins, done is
\* raised with the word that completes a round.
Emit ==
  /\ conf # NoConf
  /\ word' = [lane \in Lanes |-> Symbol(conf, sent + lane)]
  /\ trigger' = (\E lane \in Lanes : Exists(conf, sent + lane)
                                      /\ (sent + lane) % Total(conf) = 0)
  /\ active' = TRUE /\ busy' = TRUE
  /\ done' = (done \/ sent + WORD >= Round(conf))
  /\ \/ /\ Exists(conf, sent + WORD)
        /\ sent' = (sent + WORD) % Round(conf) /\ UNCHANGED conf
     \/ /\ ~Exists(conf, sent + WORD)
        /\ sent' = 0 /\ conf' = NoConf

\* Nothing is sent: because the sequence is over, is stopped, or is reset.
Rest ==
  /\ conf' = NoConf /\ sent' = 0
  /\ Silent /\ busy' = FALSE
  /\ done' \in {done, FALSE}

Next == (\E c \in Configs : Begin(c)) \/ Emit \/ Rest

Spec == Init /\ [][Next]_vars /\ WF_vars(Emit)
=============================================================================

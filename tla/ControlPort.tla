----------------------------- MODULE ControlPort -----------------------------
(***************************************************************************)
(* What the FPGA may expect of the firmware: its control signals change by *)
(* one named operation at a time, and so do the stored configurations.     *)
(* The one control word behind the signals does not appear here.           *)
(***************************************************************************)
EXTENDS Naturals

CONSTANT Indices   \* of the configurations

VARIABLES
  config_index, source_sel, direct_len_sel,  \* what to load and to send
  apply_toggle, enable, soft_reset,
  rate_id, rate_req_toggle,
  store    \* the configuration at each index

choice  == <<config_index, source_sel, direct_len_sel>>
request == <<rate_id, rate_req_toggle>>
signals == <<choice, apply_toggle, enable, soft_reset, request>>

\* A bus is the set of its lines that are 1.
Zero ==
  /\ config_index = {} /\ source_sel = FALSE /\ direct_len_sel = FALSE
  /\ apply_toggle = FALSE /\ enable = FALSE /\ soft_reset = FALSE
  /\ rate_id = {} /\ rate_req_toggle = FALSE

Init == Zero

-----------------------------------------------------------------------------
\* A start of the firmware: every signal returns to 0, whatever it was.
Clear == Zero' /\ UNCHANGED store

\* Nothing but its end interrupts a soft reset.
Operate == ~soft_reset /\ UNCHANGED store

\* A configuration, its source and its length are chosen together.
Select ==
  /\ Operate
  /\ UNCHANGED <<apply_toggle, enable, soft_reset, request>>

FlipApply ==
  /\ Operate /\ apply_toggle' = ~apply_toggle
  /\ UNCHANGED <<choice, enable, soft_reset, request>>

SetEnable(on) ==
  /\ Operate /\ enable' = on
  /\ UNCHANGED <<choice, apply_toggle, soft_reset, request>>

\* A rate arrives together with the flip that announces it, and is one of the
\* two that exist: 1 and 2.
AskRate(id) ==
  /\ Operate /\ rate_id' = id /\ rate_req_toggle' = ~rate_req_toggle
  /\ UNCHANGED <<choice, apply_toggle, enable, soft_reset>>

SoftReset(on) ==
  /\ soft_reset' = on /\ UNCHANGED store
  /\ UNCHANGED <<choice, apply_toggle, enable, request>>

\* One configuration is rewritten, and not while a reset is on.
Store(i) ==
  /\ ~soft_reset /\ UNCHANGED signals
  /\ store' = [store EXCEPT ![i] = store'[i]]

Next ==
  \/ Clear \/ Select \/ FlipApply
  \/ \E on \in BOOLEAN : SetEnable(on) \/ SoftReset(on)
  \/ \E id \in {{0}, {1}} : AskRate(id)
  \/ \E i \in Indices : Store(i)

Spec == Init /\ [][Next]_<<signals, store>>
=============================================================================

---------------------------- MODULE MCPollSteps ----------------------------
(***************************************************************************)
(* A device with up to three values of all decoding types, whose registers *)
(* repeat, touch and overlap.                                              *)
(***************************************************************************)
EXTENDS PollSteps

Value(id, decoding, type, registers) ==
  [id |-> id, decoding |-> decoding, type |-> type, registers |-> registers, parses |-> TRUE,
   multiplier |-> 1, signed |-> FALSE, bit |-> 3]

Shift(id, type, r) == Value(id, "ComaShift", type, <<r>>)
Satec(id, hi, lo) == Value(id, "SatecDoubleRegistersInt32", "holding", <<hi, lo>>)

ManyValues ==
  {Shift(i, "holding", r) : i \in 1 .. 3, r \in 4 .. 6}
    \cup {Shift(i, "inputs", 4) : i \in 1 .. 2} \cup {Shift(i, "input", 5) : i \in 1 .. 2}
    \cup {Satec(i, 4, 5) : i \in 1 .. 3} \cup {Satec(i, 6, 5) : i \in 1 .. 3}
    \cup {Satec(2, 4, 6), Satec(3, 5, 5), [Satec(3, 3, 4) EXCEPT !.signed = TRUE]}
    \cup {Value(i, "BitInWord", "holding", <<r>>) : i \in {1, 3}, r \in {0, 5}}
    \cup {[Shift(2, "holding", 9) EXCEPT !.parses = FALSE], Value(3, "Float", "holding", <<4>>)}

\* Different in every register, with high words on both sides of 32767; coils and
\* discrete inputs hold a bit.
Words ==
  [type \in Range(RegTypes) |->
     [r \in 0 .. 65535 |->
        IF type \in {"coils", "discrete"} THEN r % 2
        ELSE ((r + 1) * 20011 + (IF type = "input" THEN 777 ELSE 0)) % 65536]]

\* The values of this model are among those OwnRegisters is proved for.
ASSUME MCSettingsFit == SettingsFit
=============================================================================

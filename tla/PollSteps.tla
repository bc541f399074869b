----------------------------- MODULE PollSteps -----------------------------
(***************************************************************************)
(* PollValueIterator and the decoding plugins: the values of a device are  *)
(* sorted by kind of register and laid into read steps, one per run of     *)
(* consecutive registers or one per register; a poll goes through the      *)
(* steps and every value of a step takes its registers out of the answer   *)
(* by the positions found when the steps were made.                        *)
(*                                                                         *)
(* A value is lost, or shows another register, without any message, when   *)
(* the steps do not fit.  The steps outlive the poll, and one that the     *)
(* device refused is passed over until they are made anew.                 *)
(*                                                                         *)
(* A measure is a number and the power of ten it is divided by; the Modbus *)
(* protocol is external and answers as many words as it was asked for.     *)
(***************************************************************************)
EXTENDS Integers, Sequences, SequencesExt, FiniteSets

CONSTANTS
  Values,    \* ValueRead: decoding type, settings and id
  MaxValues, \* bound: values of a device
  Memory     \* kind of register -> register -> the word the device holds

VARIABLES
  configured, \* the values of the device, as the database gives them
  by_group,   \* DeviceRead.read_by_group
  pool,       \* kind of register -> its steps
  broken,     \* ReadStep.broken: the places of the steps that are marked
  cursor,     \* PoolValueRefIterator: curr_type and curr_index
  measures,   \* what the poll has collected, with the step and the value it comes of
  stage,      \* reading, done or panicked
  silent      \* history: the steps that were broken when the poll began

deviceVars == <<configured, by_group, pool>>
stepsVars == <<deviceVars, broken, cursor, measures, stage, silent>>

\* In the order they are read in.
RegTypes == <<"coils", "discrete", "holding", "input">>

\* check_type: what is none of the four is Coils.
CheckType(reg_type) == IF reg_type \in Range(RegTypes) THEN reg_type ELSE "coils"

-----------------------------------------------------------------------------
(* Plugins.                                                                  *)

MaxWord == 65535 \* u16::MAX

Known(value) == value.decoding \in {"ComaShift", "SatecDoubleRegistersInt32", "BitInWord"}

\* Ids are counted from 1, a plugin of two registers asks for two, and a register
\* holds 16 bits.
ASSUME PollStepsAssumption ==
  /\ MaxValues \in Nat
  /\ \A v \in Values :
       /\ v.id \in Nat \ {0} /\ {v.parses, v.signed} \subseteq BOOLEAN
       /\ v.registers \in Seq(Int)
       /\ Known(v) =>
            Len(v.registers) = IF v.decoding = "SatecDoubleRegistersInt32" THEN 2 ELSE 1
  /\ Memory \in [Range(RegTypes) -> [0 .. MaxWord -> 0 .. MaxWord]]

\* A plugin whose settings do not parse stays in its default: value 0, register 0.
Default(decoding) ==
  [decoding |-> decoding, id |-> 0, type |-> "holding", divisor |-> 0, signed |-> FALSE, bit |-> 0,
   registers |-> IF decoding = "SatecDoubleRegistersInt32" THEN <<0, 0>> ELSE <<0>>]

\* get_plugin and init; the settings of a bit have no multiplier.
Plugin(value) ==
  IF ~value.parses THEN Default(value.decoding)
  ELSE [decoding |-> value.decoding, id |-> value.id, type |-> CheckType(value.type),
        divisor |-> IF value.decoding = "BitInWord" THEN 1 ELSE 10 ^ value.multiplier,
        signed |-> value.signed, bit |-> value.bit, registers |-> value.registers]

\* The registers a value asks for; none when its settings do not parse.
Asks(value) == IF value.parses THEN value.registers ELSE <<>>

\* find_your_registers: all of them are in the dataset.
Finds(plugin, dataset) == Range(plugin.registers) \subseteq Range(dataset)

Position(register, dataset) == (CHOOSE i \in DOMAIN dataset : dataset[i] = register) - 1

\* The plugin of the i-th value with the positions it remembers.
Placed(i, value, dataset) ==
  LET registers == Plugin(value).registers
  IN  [value |-> i, plugin |-> Plugin(value),
       pos |-> [k \in DOMAIN registers |-> Position(registers[k], dataset)]]

Int16(word) == IF word >= 32768 THEN word - 65536 ELSE word

\* 2 ^ 0 to 2 ^ 15, the bits of a word.
BitValue ==
  <<1, 2, 4, 8, 16, 32, 64, 128, 256, 512, 1024, 2048, 4096, 8192, 16384, 32768>>

\* <<high, low>> stands for the number high * 65536 + low, which TLC cannot hold.
Decode(plugin, words) ==
  CASE plugin.decoding = "ComaShift" -> <<0, Int16(words[1])>>
    [] plugin.decoding = "BitInWord" -> <<0, (words[1] \div BitValue[plugin.bit + 1]) % 2>>
    [] plugin.decoding = "SatecDoubleRegistersInt32" /\ plugin.signed ->
         <<0, (IF words[1] > 32767 THEN -words[1] ELSE words[1]) + words[2]>>
    [] plugin.decoding = "SatecDoubleRegistersInt32" /\ ~plugin.signed -> words

Fits(unit, answer) == \A i \in DOMAIN unit.pos : unit.pos[i] < Len(answer)

\* get_value
GetValue(unit, answer) ==
  [id |-> unit.plugin.id, divisor |-> unit.plugin.divisor, failed |-> FALSE,
   number |-> Decode(unit.plugin, [i \in DOMAIN unit.pos |-> answer[unit.pos[i] + 1]])]

\* fail: f64::MIN
FailValue(unit) == [id |-> unit.plugin.id, divisor |-> 1, failed |-> TRUE, number |-> <<0, 0>>]

-----------------------------------------------------------------------------
(* Steps.                                                                    *)

\* ReadStep::new; start and length are u16.
ReadStep(dataset, units) ==
  [start |-> dataset[1] % (MaxWord + 1), length |-> Len(dataset) % (MaxWord + 1), values |-> units]

\* Mutant: a value already placed is not passed over.
LaidAgain(values, mine, datasets) ==
  [d \in DOMAIN datasets |->
     ReadStep(datasets[d],
              {Placed(i, values[i], datasets[d]) :
                 i \in {k \in mine : Finds(Plugin(values[k]), datasets[d])}})]

\* Both sorts go through the datasets: each makes a step of the values that find
\* their registers in it and in none before.
Laid(values, mine, datasets) ==
  LET finds(i, d) == Finds(Plugin(values[i]), datasets[d])
      first(d) == {i \in mine : finds(i, d) /\ \A e \in 1 .. d - 1 : ~finds(i, e)}
  IN  [d \in DOMAIN datasets |->
         ReadStep(datasets[d], {Placed(i, values[i], datasets[d]) : i \in first(d)})]

\* Vec::sort: the k-th is the one that k - 1 are before.
Sorted(registers) ==
  LET upTo(i) == {j \in DOMAIN registers :
                    \/ registers[j] < registers[i]
                    \/ registers[j] = registers[i] /\ j <= i}
      place(k) == CHOOSE i \in DOMAIN registers : Cardinality(upTo(i)) = k
  IN  [k \in DOMAIN registers |-> registers[place(k)]]

\* Mutant: a register that comes twice does not end the run.
RegSortLenient(registers) ==
  LET sorted == Sorted(registers)
      groups[i \in 0 .. Len(sorted)] ==
        IF i = 0 THEN <<>>
        ELSE LET res == groups[i - 1]
             IN  IF i > 1 /\ sorted[i] <= sorted[i - 1] + 1
                 THEN [res EXCEPT ![Len(res)] = Append(@, sorted[i])]
                 ELSE Append(res, <<sorted[i]>>)
  IN  groups[Len(sorted)]

\* reg_sort: runs of consecutive registers; one that comes twice starts a run.
RegSort(registers) ==
  LET sorted == Sorted(registers)
      groups[i \in 0 .. Len(sorted)] ==
        IF i = 0 THEN <<>>
        ELSE LET res == groups[i - 1]
             IN  IF i > 1 /\ sorted[i] = sorted[i - 1] + 1
                 THEN [res EXCEPT ![Len(res)] = Append(@, sorted[i])]
                 ELSE Append(res, <<sorted[i]>>)
  IN  groups[Len(sorted)]

\* single_sort: every register is a step of its own.
Singles(registers) == [i \in DOMAIN registers |-> <<registers[i]>>]

\* init_plugins: unknown decoding types are left out, the rest go by type.
Mine(values, type) ==
  {i \in DOMAIN values : Known(values[i]) /\ Plugin(values[i]).type = type}

Registers(values, type) ==
  FlattenSeq([i \in DOMAIN values |-> IF i \in Mine(values, type) THEN Asks(values[i]) ELSE <<>>])

\* group_create and single_create
StepsOf(values, type, grouped) ==
  LET registers == Registers(values, type)
  IN  Laid(values, Mine(values, type), IF grouped THEN RegSort(registers) ELSE Singles(registers))

\* PollValueIterator.init
PoolOf(values, grouped) == [type \in Range(RegTypes) |-> StepsOf(values, type, grouped)]

-----------------------------------------------------------------------------
(* A poll.                                                                   *)

FirstStep == [type |-> 1, index |-> 0]

StepsInit ==
  /\ configured \in {s \in SeqOf(Values, MaxValues) :
                       \A i, j \in DOMAIN s : i < j => s[i].id < s[j].id}
  /\ by_group \in BOOLEAN
  /\ pool = PoolOf(configured, by_group)
  /\ broken = {} /\ silent = {}
  /\ cursor = FirstStep /\ measures = {} /\ stage = "reading"

Step == pool[RegTypes[cursor.type]][cursor.index + 1]
HasStep == cursor.index < Len(pool[RegTypes[cursor.type]])
Reads == stage = "reading" /\ HasStep /\ cursor \notin broken

\* The words of a Modbus answer.
Answer(type, step) == [i \in 1 .. step.length |-> Memory[type][step.start + i - 1]]

\* The measures of the units of a step.
Collect(results) ==
  measures' = measures \cup {[at |-> cursor, value |-> u.value, measure |-> results[u]] :
                               u \in DOMAIN results}

\* The step is read and every value of it decoded; one that does not fit panics.
\* No device answers a request for no registers or for one beyond the last.
ReadSucceeds ==
  LET answer == Answer(RegTypes[cursor.type], Step)
      units == Step.values
  IN  /\ Reads /\ Step.length > 0 /\ Step.start + Step.length <= MaxWord + 1
      /\ IF \A u \in units : Fits(u, answer)
         THEN Collect([u \in units |-> GetValue(u, answer)]) /\ UNCHANGED stage
         ELSE stage' = "panicked" /\ UNCHANGED measures
      /\ cursor' = [cursor EXCEPT !.index = @ + 1]
      /\ UNCHANGED <<deviceVars, broken, silent>>

\* Every try timed out: every value of the step is reported as failed.
ReadFails ==
  /\ Reads
  /\ Collect([u \in Step.values |-> FailValue(u)])
  /\ cursor' = [cursor EXCEPT !.index = @ + 1]
  /\ UNCHANGED <<deviceVars, broken, stage, silent>>

\* RemoveStep: the device refuses the registers.  Every value of the step is reported
\* as failed, once.
MarkBroken ==
  /\ Reads
  /\ broken' = broken \cup {cursor}
  /\ Collect([u \in Step.values |-> FailValue(u)])
  /\ cursor' = [cursor EXCEPT !.index = @ + 1]
  /\ UNCHANGED <<deviceVars, stage, silent>>

\* A broken step is passed over and its values are not reported.
SkipBroken ==
  /\ stage = "reading" /\ HasStep /\ cursor \in broken
  /\ cursor' = [cursor EXCEPT !.index = @ + 1]
  /\ UNCHANGED <<deviceVars, broken, measures, stage, silent>>

\* The iterator goes on to the next kind of register, or is at its end.
NextType ==
  /\ stage = "reading" /\ ~HasStep
  /\ IF cursor.type < Len(RegTypes)
     THEN cursor' = [type |-> cursor.type + 1, index |-> 0] /\ UNCHANGED stage
     ELSE stage' = "done" /\ UNCHANGED cursor
  /\ UNCHANGED <<deviceVars, broken, measures, silent>>

\* The next poll of the device with the same steps; the last one is done, or was given
\* up with the connection.
NextPoll ==
  /\ stage # "panicked"
  /\ cursor' = FirstStep /\ measures' = {} /\ stage' = "reading"
  /\ silent' = broken
  /\ UNCHANGED <<deviceVars, broken>>

StepsNext == ReadSucceeds \/ ReadFails \/ MarkBroken \/ SkipBroken \/ NextType \/ NextPoll

StepsSpec == StepsInit /\ [][StepsNext]_stepsVars

-----------------------------------------------------------------------------
(* Properties.                                                               *)

\* Registers that a step can hold together whatever else is configured.
Adjacent(registers) == \A i, j \in DOMAIN registers : registers[i] - registers[j] \in -1 .. 1

OneRegister(registers) == \A i, j \in DOMAIN registers : registers[i] = registers[j]

Served(value) == Cardinality({m \in measures : m.measure.id = value.id})

\* The step of the i-th value was broken when the poll began.
Silent(i) ==
  \E p \in silent : \E u \in pool[RegTypes[p.type]][p.index + 1].values : u.value = i

\* A poll gives every value that can be read one measure, good or failed, however
\* registers repeat, touch or overlap: in groups all whose registers are adjacent,
\* register by register those of one register; a value of two registers is not read
\* then (pool_iterator.rs:119-198).  None is ever given two.  The values of a step that
\* the device refuses have a failed measure in that poll, and none in any later one; no
\* step is silenced by timeouts (read_master_struct.rs:150-153, 203-230).
ServedOnce ==
  /\ \A i \in DOMAIN configured : configured[i].parses => Served(configured[i]) <= 1
  /\ stage = "done" =>
       \A i \in DOMAIN configured :
         LET v == configured[i]
             reported == IF Silent(i) THEN 0 ELSE 1
         IN  Known(v) /\ v.parses =>
               CASE by_group /\ Adjacent(v.registers) -> Served(v) = reported
                 [] ~by_group -> Served(v) = IF OneRegister(v.registers) THEN reported ELSE 0
                 [] OTHER -> TRUE

\* The words that the registers of a value hold in the device.
OwnWords(value) ==
  [k \in DOMAIN value.registers |-> Memory[CheckType(value.type)][value.registers[k]]]

SignedSatec(value) == value.decoding = "SatecDoubleRegistersInt32" /\ value.signed

\* The number a value must read.
Meant(value) ==
  LET word == OwnWords(value)
      bit == BitValue[value.bit + 1]
  IN  CASE value.decoding = "ComaShift" ->
             <<0, IF word[1] < 32768 THEN word[1] ELSE word[1] - 65536>>
        [] value.decoding = "BitInWord" -> <<0, (word[1] % (2 * bit)) \div bit>>
        [] OTHER -> <<word[1], word[2]>>

\* Settings that address registers of 16 bits and bits of a word; the code does not
\* check them (read_steps.rs:20, bit_in_word.rs).
SettingsFit ==
  \A v \in Values : Known(v) /\ v.parses =>
    Range(v.registers) \subseteq 0 .. MaxWord /\ v.bit \in 0 .. 15

\* Every good measure of a value is decoded from its own registers, never from those of
\* a neighbour in the same answer, and no plugin looks behind the end of an answer,
\* where it would panic and end the task of the node (pool_iterator.rs:157-180,
\* get_value of the plugins).  It is the number those registers hold, but for a signed
\* SatecDoubleRegistersInt32: of that the code makes the high word, negated above 32767,
\* plus the low word (satec_double_register.rs:91-93).
OwnRegisters ==
  stage # "panicked" /\ \A c \in measures, i \in DOMAIN configured :
    LET m == c.measure
        v == configured[i]
    IN  m.id = v.id /\ ~m.failed /\ v.parses =>
          /\ m.number = Decode(Plugin(v), OwnWords(v))
          /\ ~SignedSatec(v) => m.number = Meant(v)
          /\ m.divisor = IF v.decoding = "BitInWord" THEN 1 ELSE 10 ^ v.multiplier
=============================================================================

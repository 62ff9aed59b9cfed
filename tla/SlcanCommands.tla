--------------------------- MODULE SlcanCommands ---------------------------
(***************************************************************************)
(* The commands that set bit rates and sample points, as the driver and    *)
(* the four libraries write them, and what slcandx's checks and tables     *)
(* make of one: they are all that the repository says of the adapter.      *)
(* Rates are in kbit/s, sample points in tenths of a percent.              *)
(***************************************************************************)
EXTENDS Naturals

CONSTANTS NominalRates, DataRates, SamplePoints     \* the values that are set
ASSUME RatesAssumption ==
    NominalRates \subseteq Nat /\ DataRates \subseteq Nat /\ SamplePoints \subseteq Nat

Settings ==
    [what: {"nominal"}, value: NominalRates]
    \cup [what: {"data"}, value: DataRates]
    \cup [what: {"sample", "dataSample"}, value: SamplePoints]

(* A command is its letter, and its argument: its value, and the characters *)
(* that is written in, where 2 stands for any number from 2 on.             *)
NoCommand == [letter |-> "none"]
Hex(letter, n) == [letter |-> letter, value |-> n, chars |-> IF n < 16 THEN 1 ELSE 2]
Decimal(letter, n) == [letter |-> letter, value |-> n, chars |-> IF n < 10 THEN 1 ELSE 2]

NominalTable == [i \in 0..8 |-> <<10, 20, 50, 100, 125, 250, 500, 800, 1000>>[i + 1]]
DataTable == [i \in 0..15 |-> IF i = 15 THEN 16000 ELSE 1000 * i]
IndexIn(table, rate) == {i \in DOMAIN table : rate # 0 /\ table[i] = rate}

SampleLetter(s) == IF s.what = "sample" THEN "p" ELSE "P"
Clamped(n) == IF n > 1000 THEN 1000 ELSE n

---------------------------------------------------------------------------
(* slcan_configure_nominal and slcan_configure_fd refuse a rate that is not *)
(* in their table, index 0 of the second among them.                        *)
DecimalDataCmd(s) ==                          \* mutant: the index in decimal, as by the libraries
    {Decimal("Y", i) : i \in IndexIn(DataTable, s.value)}
KernelDataCmd(s) == {Hex("Y", i) : i \in IndexIn(DataTable, s.value)}
KernelCommand(s) ==
    CASE s.what = "nominal" -> {Decimal("S", i) : i \in IndexIn(NominalTable, s.value)}
      [] s.what = "data" -> KernelDataCmd(s)
      [] OTHER -> IF s.value = 0 THEN {} ELSE {Decimal(SampleLetter(s), Clamped(s.value))}

(* The C++, Rust and Python libraries send a rate they have no index for as *)
(* it is, and count data rates in steps of 1 Mbit/s.                        *)
LibNominal(s) ==
    IF IndexIn(NominalTable, s.value) = {} THEN {Decimal("y", s.value)}
    ELSE {Decimal("S", i) : i \in IndexIn(NominalTable, s.value)}
LibData(s) ==
    {Decimal("Y", i) : i \in {n \in 1..15 : s.value = 1000 * n}}
CppCommand(s) ==
    CASE s.what = "nominal" -> LibNominal(s)
      [] s.what = "data" -> LibData(s)
      [] OTHER -> IF s.value = 0 THEN {} ELSE {Decimal(SampleLetter(s), s.value)}
ScriptCommand(s) ==                           \* Rust and Python
    CASE s.what = "nominal" -> LibNominal(s)
      [] s.what = "data" -> LibData(s)
      [] OTHER -> {Decimal(SampleLetter(s), s.value)}

(* The C# library is given the bit rate, or the index of a data rate; it    *)
(* has no sample points.                                                    *)
CsCommand(s) ==
    CASE s.what = "nominal" -> {Decimal("y", s.value)}
      [] s.what = "data" -> {Decimal("Y", i) : i \in IndexIn(DataTable, s.value)}
      [] OTHER -> {}

CommandOf(impl, s) ==
    LET cmds == CASE impl \in {"kernel", "kernel68"} -> KernelCommand(s)
                  [] impl = "cpp" -> CppCommand(s)
                  [] impl \in {"rust", "py"} -> ScriptCommand(s)
                  [] impl = "cs" -> CsCommand(s)
    IN  IF cmds = {} THEN NoCommand ELSE CHOOSE c \in cmds : TRUE

---------------------------------------------------------------------------
(* What slcandx says of a command: the setting, or that it is invalid. *)
Invalid == [what |-> "invalid", value |-> 0]

FdSpeedValid(cmd) == cmd.chars = 1 /\ cmd.value \in 0..15
FdSpeed(cmd) == IF cmd.value = 15 THEN 16000 ELSE 1000 * cmd.value

Meaning(cmd) ==
    CASE cmd.letter = "S" /\ cmd.chars = 1 /\ cmd.value \in 0..8 ->
            [what |-> "nominal", value |-> NominalTable[cmd.value]]
      [] cmd.letter = "y" /\ cmd.value \in 5..1000 -> [what |-> "nominal", value |-> cmd.value]
      [] cmd.letter = "Y" /\ FdSpeedValid(cmd) -> [what |-> "data", value |-> FdSpeed(cmd)]
      [] cmd.letter = "p" /\ cmd.value \in 750..875 -> [what |-> "sample", value |-> cmd.value]
      [] cmd.letter = "P" /\ cmd.value \in 750..875 -> [what |-> "dataSample", value |-> cmd.value]
      [] OTHER -> Invalid

=============================================================================

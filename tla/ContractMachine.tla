-------------------------- MODULE ContractMachine --------------------------
(***************************************************************************)
(* The contract machine (contract_machine/contractparse.cpp,               *)
(* machinestack.cpp): RunContract cuts its input into op codes and data,   *)
(* pushes them on two stacks and lets RunMachine pop the codes.            *)
(* Nothing in the programs calls it yet.                                   *)
(*                                                                         *)
(* A machine is a record: the input as a sequence of bytes, the position   *)
(* in it, the two stacks (bottom first) and the phase.  A datum is known   *)
(* by its size, the only thing RunMachine looks at.                        *)
(***************************************************************************)
EXTENDS Integers, Sequences

CONTRACT_HASH_SIZE == 32

\* Operators whose name starts with Bad are faulty variants of the definition
\* that follows, kept to see that the properties tell them apart.

\* 0x11 .. 0x13 (contracts), 0x21 .. 0x23 (assets), 0x31 .. 0x34 (transfers) and
\* so on.
OpCodeCount == <<3, 3, 4, 6, 5, 2, 4>>
IsOpCode(b) == b \div 16 \in 1 .. 7 /\ b % 16 \in 1 .. OpCodeCount[b \div 16]
OfferCode == 17         \* C1

\* The size of std::to_string of a byte.
DecimalSize(b) == IF b < 10 THEN 1 ELSE IF b < 100 THEN 2 ELSE 3

PushCode(m, b) == [m EXCEPT !.codes = Append(@, b)]
PushData(m, n) == [m EXCEPT !.data = Append(@, n)]

Parsing(input) ==
    [phase |-> "parse", input |-> input, position |-> 0, codes |-> << >>, data |-> << >>]

\* One turn of RunContract's loop.  The byte after a length of 1 is a code or a
\* datum, and the position stays; any other length n repeats the byte n further
\* on n times, and that byte is the next length.  at() throws beyond the end.
BadParse(m) ==
    LET n == m.input[m.position + 1]
        b == m.input[m.position + n + 1]
    IN  IF m.position >= Len(m.input) THEN [m EXCEPT !.phase = "run"]
        ELSE IF n > 0 /\ m.position + n >= Len(m.input) THEN [m EXCEPT !.phase = "thrown"]
        ELSE [IF n = 1 /\ IsOpCode(b) THEN PushCode(m, b) ELSE PushData(m, n * DecimalSize(b))
              EXCEPT !.position = m.position + n + 1]
Parse(m) ==
    LET n == m.input[m.position + 1]
        b == m.input[m.position + n + 1]
    IN  IF m.position >= Len(m.input) THEN [m EXCEPT !.phase = "run"]
        ELSE IF n > 0 /\ m.position + n >= Len(m.input) THEN [m EXCEPT !.phase = "thrown"]
        ELSE IF n = 1
             THEN IF IsOpCode(b) THEN PushCode(m, b) ELSE PushData(m, DecimalSize(b))
        ELSE [PushData(m, n * DecimalSize(b)) EXCEPT !.position = m.position + n]

\* RunMachine: the codes are popped, and C1 wants to be the last one and the
\* datum below it to be a hash.
BadRunMachine(codes, data) ==
    LET run[n \in 0 .. Len(codes)] ==
            IF n = 0 THEN "OK"
            ELSE IF codes[n] # OfferCode THEN run[n - 1]
            ELSE IF Len(data) # 1 \/ data[1] # CONTRACT_HASH_SIZE THEN "FORMAT_ERROR"
            ELSE run[n - 1]
    IN  run[Len(codes)]
RunMachine(codes, data) ==
    LET run[n \in 0 .. Len(codes)] ==
            IF n = 0 THEN "OK"
            ELSE IF codes[n] # OfferCode THEN run[n - 1]
            ELSE IF n # 1 \/ Len(data) # 1 THEN "FORMAT_ERROR"
            ELSE IF data[1] # CONTRACT_HASH_SIZE THEN "FORMAT_ERROR"
            ELSE run[n - 1]
    IN  run[Len(codes)]
=============================================================================

------------------------------ MODULE TxRoles ------------------------------
(***************************************************************************)
(* Who is who in a token transaction.  Nothing in an OP_RETURN payload     *)
(* names the contract, the sending and the receiving party of a transfer:  *)
(* scanblock infers them from the addresses and the values of the inputs   *)
(* and outputs (ResponseActionT2, ResponseActionT4 of parsetx.cpp).        *)
(*                                                                         *)
(* vin is the sequence of inputs [tx, n, addr] (addr: the address of the   *)
(* output the input spends), vout the sequence of the outputs that carry   *)
(* an address, [addr, value].  NoAddress is the empty string a role keeps  *)
(* when no output gave it a value.                                         *)
(***************************************************************************)
EXTENDS Integers, Sequences, SequencesExt

CONSTANT NoAddress

\* Operators whose name starts with Bad are faulty variants of the definition
\* that follows, kept to see that the properties tell them apart.

InputAddresses(vin) == {vin[i].addr : i \in 1 .. Len(vin)}

\* The address of the last output whose index is in S: a later assignment in
\* the loop over the outputs overwrites an earlier one.
LastAddress(vout, S) ==
    IF S = {} THEN NoAddress
    ELSE vout[CHOOSE i \in S : \A j \in S : j <= i].addr

\* The value of the last output to an address that pays no input, the one that
\* makes its address the contract.
BadT2Currency(vin, vout) == IF vout = << >> THEN 0 ELSE vout[Len(vout)].value
T2Currency(vin, vout) ==
    LET paid == {i \in 1 .. Len(vout) : vout[i].addr \notin InputAddresses(vin)}
    IN  IF paid = {} THEN 0
        ELSE vout[CHOOSE i \in paid : \A j \in paid : j <= i].value

\* Outputs to an address that pays no input go to the contract; of the others,
\* the one to the fee address of the payload goes to the sender, any other one
\* to the receiver.
BadT2Roles(vin, vout, fee_address) ==
    LET change == {i \in 1 .. Len(vout) : vout[i].addr \in InputAddresses(vin)}
    IN  [contract |-> LastAddress(vout, (1 .. Len(vout)) \ change),
         send     |-> LastAddress(vout, change),
         recv     |-> LastAddress(vout, change)]
T2Roles(vin, vout, fee_address) ==
    LET change == {i \in 1 .. Len(vout) : vout[i].addr \in InputAddresses(vin)}
        fee == {i \in change : vout[i].addr = fee_address}
    IN  [contract |-> LastAddress(vout, (1 .. Len(vout)) \ change),
         send     |-> LastAddress(vout, fee),
         recv     |-> LastAddress(vout, change \ fee)]

\* The contract is the address of the last input; the loop over the outputs
\* compares each value with the largest one seen (pos is never advanced, so the
\* branch that would move the old sender to the receiver is dead).
T4Contract(vin) == vin[Len(vin)].addr

BadT4Step(roles, out, contract) ==
    IF out.addr = contract THEN roles
    ELSE IF out.value > roles.value
         THEN [send |-> out.addr, recv |-> roles.recv, value |-> out.value]
    ELSE [roles EXCEPT !.send = roles.recv, !.recv = out.addr]
T4Step(roles, out, contract) ==
    IF out.addr = contract THEN roles
    ELSE IF out.value > roles.value
         THEN [roles EXCEPT !.send = out.addr, !.value = out.value]
    ELSE IF roles.recv = NoAddress
         THEN [roles EXCEPT !.recv = out.addr]
    ELSE [roles EXCEPT !.send = roles.recv, !.recv = out.addr]

T4Roles(vin, vout) ==
    FoldLeft(LAMBDA roles, out : T4Step(roles, out, T4Contract(vin)),
             [send |-> NoAddress, recv |-> NoAddress, value |-> 0], vout)
=============================================================================

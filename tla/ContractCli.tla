---------------------------- MODULE ContractCli ----------------------------
(***************************************************************************)
(* What contractcli builds (internal/handlercli.cpp) and signs             *)
(* (ContractObject::CreateTransaction, SignTransaction): the transaction   *)
(* of one client for a C1 or an A1, and the two-party transaction of a T2, *)
(* which the sender of the tokens builds and signs in part and the         *)
(* receiver completes.                                                     *)
(*                                                                         *)
(* A transaction's payments are a map from addresses to amounts, as        *)
(* BuildTx.map_vout: the later of two assignments to one address stays.    *)
(* Signatures are, for each input, the address whose key signed it, or     *)
(* NoAddress.                                                              *)
(***************************************************************************)
EXTENDS TxRoles

CONSTANT
    Micro       \* the finest amount std::to_string prints, in units of amounts

ASSUME MicroAssumption == Micro \in Nat \ {0}

\* Operators whose name starts with Bad are faulty variants of the definition
\* that follows, kept to see that the properties tell them apart.

\* BuildTransaction: funds is what the coins of the list are worth.
BuildTransaction(contract, issuer, funds, contract_fee, miner_fee) ==
    [a \in {contract, issuer} |->
        IF a = issuer THEN funds - contract_fee - miner_fee ELSE contract_fee]

\* TokenSend: the receiver of the tokens pays for them and pays the contract's
\* fee, the sender pays the miner.
BadTokenSend(contract, send, recv, send_funds, recv_funds, currency, contract_fee, miner_fee) ==
    [a \in {contract, send, recv} |->
        IF a = recv THEN recv_funds - currency
        ELSE IF a = send THEN send_funds - miner_fee
        ELSE currency + contract_fee]
TokenSend(contract, send, recv, send_funds, recv_funds, currency, contract_fee, miner_fee) ==
    [a \in {contract, send, recv} |->
        IF a = recv THEN recv_funds - currency - contract_fee
        ELSE IF a = send THEN send_funds - miner_fee
        ELSE currency + contract_fee]

\* p is how an amount is printed with six decimals: the nearest multiple of
\* Micro (of two, the one the binary representation is nearer to).
Prints(p, amount) == p % Micro = 0 /\ 2 * (p - amount) \in (-Micro) .. Micro

\* What CreateTransaction reads back; a minus sign is not a digit, and an amount
\* that cannot be read stays 0.
ReadsAs(p, amount) == IF amount < 0 THEN p = 0 ELSE Prints(p, amount)

\* The signatures after CreateTransaction: all inputs, or the positions given.
CreateTransaction(inputs, positions, key) ==
    [i \in 1 .. inputs |-> IF i \in positions THEN key ELSE NoAddress]

\* SignTransaction signs the inputs that are too short to hold a signature.
BadSignTransaction(signer, key) == [i \in DOMAIN signer |-> key]
SignTransaction(signer, key) ==
    [i \in DOMAIN signer |-> IF signer[i] = NoAddress THEN key ELSE signer[i]]
=============================================================================

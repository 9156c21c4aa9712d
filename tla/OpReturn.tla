------------------------------ MODULE OpReturn ------------------------------
(***************************************************************************)
(* The OP_RETURN payload of a token transaction: what FormatOpReturnData   *)
(* (contract/contract.cpp) writes and UnSerializeOperation                 *)
(* (contract_machine/action.cpp) reads.  The writer appends the fields one *)
(* after the other with whatever length they have; the reader cuts them    *)
(* out at fixed offsets.                                                   *)
(*                                                                         *)
(* A payload is a sequence of hexadecimal digits, and a digit is known by  *)
(* the field it was written for and its position in it: <<name, k>>.  What *)
(* the digits are is left out; a field is read right when its own digits   *)
(* are read, all of them and in order.                                     *)
(***************************************************************************)
EXTENDS Integers, Sequences, SequencesExt

\* Operators whose name starts with Bad are faulty variants of the definition
\* that follows, kept to see that the properties tell them apart.

\* An op code as text, which the payload carries in its prefix field.
CodeSerialize == [
    C1 |-> <<1, 1>>, C2 |-> <<1, 2>>, C3 |-> <<1, 3>>,
    A1 |-> <<2, 1>>, A2 |-> <<2, 2>>, A3 |-> <<2, 3>>,
    T1 |-> <<3, 1>>, T2 |-> <<3, 2>>, T3 |-> <<3, 3>>, T4 |-> <<3, 4>>,
    G1 |-> <<4, 1>>, G2 |-> <<4, 2>>, G3 |-> <<4, 3>>,
    G4 |-> <<4, 4>>, G5 |-> <<4, 5>>, G6 |-> <<4, 6>>,
    E1 |-> <<5, 1>>, E2 |-> <<5, 2>>, E3 |-> <<5, 3>>, E4 |-> <<5, 4>>, E5 |-> <<5, 5>>,
    M1 |-> <<6, 1>>, M2 |-> <<6, 2>>,
    R1 |-> <<7, 1>>, R2 |-> <<7, 2>>, R3 |-> <<7, 3>>, R4 |-> <<7, 4>>]

CodeUnSerialize(text) ==
    LET codes == {code \in DOMAIN CodeSerialize : CodeSerialize[code] = text}
    IN  IF codes = {} THEN "ERROR_CODE" ELSE CHOOSE code \in codes : TRUE

\* The op codes both programs have a layout for.
Codes == {"C1", "C2", "A1", "A2", "T2", "T4"}

-----------------------------------------------------------------------------
(* The writer. *)

Terms == <<"governing_law", "jurisdiction">>
Powers == <<"authorization_flag", "voting_system">>
Threshold == <<"initialtive_threshold", "initialtive_threshold_currency", "restricted_qty">>
Asset == <<"asset_type", "asset_id">>
Fees == <<"contract_fee_currency", "contract_fee_var", "contract_fee_fixed">>

\* The fields in the order they are appended.  The names of a contract and its
\* file are hashed first, so both are 32 bytes long.
ContractLayout == [
    C1 |-> <<"contract_name", "contract_file_hash">> \o Terms
           \o <<"contract_expriration", "url", "issuer_id", "issuer_type">>
           \o Powers \o Threshold,
    C2 |-> <<"contract_name", "contract_file_hash">> \o Terms
           \o <<"timestamp", "contract_expriration", "url", "contrac_revision",
                "issuer_id", "issuer_type", "contract_operator_id">>
           \o Powers \o Threshold]

AssetLayout == [
    A1 |-> Asset \o Powers \o <<"vote_multiplier", "qty">> \o Fees \o <<"payload">>,
    A2 |-> Asset \o <<"asset_revision", "timestamp">> \o Powers
           \o <<"vote_multiplier", "qty">> \o Fees \o <<"payload">>]

\* The variable exchange fee of a T2 is written twice, the fixed one never.
TransferLayout == [
    T2 |-> <<"party1_asset_type", "party1_asset_id", "party1_token_qty",
             "offer_valid_until", "exchange_fee_currency", "exchange_fee_var",
             "exchange_fee_var", "exchange_fee_address">>,
    T4 |-> Asset \o <<"party1_token_qty", "party2_token_qty", "timestamp">>]

Layout == [code \in Codes |-> CASE code \in {"C1", "C2"} -> ContractLayout[code]
                                [] code \in {"A1", "A2"} -> AssetLayout[code]
                                [] code \in {"T2", "T4"} -> TransferLayout[code]]

\* The digits of a field of n bytes, and of a list of fields of given sizes.
Digits(name, n) == [k \in 1 .. 2 * n |-> <<name, k>>]

Written(fields, size) ==
    FlattenSeq([i \in 1 .. Len(fields) |-> Digits(fields[i], size[fields[i]])])

\* The digits of the prefix are known by the op code they spell.
Prefix(code) == [k \in 1 .. 4 |-> <<CodeSerialize[code], k>>]

BadFormatOpReturnData(code, size) ==
    Written(<<"symbol">>, size) \o Prefix(code) \o Written(Layout[code], size)
FormatOpReturnData(code, size) ==
    Written(<<"symbol">>, size) \o Prefix(code) \o Written(<<"version">> \o Layout[code], size)

-----------------------------------------------------------------------------
(* The reader. *)

At(name, from, n) == [name |-> name, from |-> from, digits |-> n]

\* substr(from, digits) for each field.  A float takes the first 8 digits of what
\* it is given, an uint64_t 16, an uint16_t 4.
ContractAt == {At("contract_name", 14, 64), At("contract_file_hash", 78, 64),
               At("governing_law", 142, 10), At("jurisdiction", 152, 10)}

UnSerializeContract == [
    C1 |-> ContractAt \cup
           {At("contract_expriration", 162, 16), At("url", 178, 140),
            At("issuer_id", 318, 32), At("issuer_type", 350, 2),
            At("authorization_flag", 352, 4), At("voting_system", 356, 2),
            At("initialtive_threshold", 358, 8),
            At("initialtive_threshold_currency", 366, 6), At("restricted_qty", 372, 16)},
    C2 |-> ContractAt \cup
           {At("timestamp", 162, 16), At("contract_expriration", 178, 16),
            At("url", 194, 140), At("contrac_revision", 334, 4),
            At("issuer_id", 338, 32), At("issuer_type", 370, 2),
            At("contract_operator_id", 372, 32), At("authorization_flag", 404, 4),
            At("voting_system", 408, 2), At("initialtive_threshold", 410, 8),
            At("initialtive_threshold_currency", 418, 6), At("restricted_qty", 424, 16)}]

AssetAt == {At("asset_type", 14, 6), At("asset_id", 20, 64)}

UnSerializeAsset == [
    A1 |-> AssetAt \cup
           {At("authorization_flag", 84, 4), At("voting_system", 88, 2),
            At("vote_multiplier", 90, 2), At("qty", 92, 16),
            At("contract_fee_currency", 108, 6), At("contract_fee_var", 114, 8),
            At("contract_fee_fixed", 122, 8), At("payload", 130, 38)},
    A2 |-> AssetAt \cup
           {At("asset_revision", 84, 4), At("timestamp", 88, 16),
            At("authorization_flag", 104, 4), At("voting_system", 108, 2),
            At("vote_multiplier", 110, 2), At("qty", 112, 16),
            At("contract_fee_currency", 128, 6), At("contract_fee_var", 134, 8),
            At("contract_fee_fixed", 142, 8), At("payload", 150, 38)}]

UnSerializeTransfer == [
    T2 |-> {At("party1_asset_type", 14, 6), At("party1_asset_id", 20, 64),
            At("party1_token_qty", 84, 16), At("offer_valid_until", 100, 16),
            At("exchange_fee_currency", 116, 6), At("exchange_fee_var", 122, 8),
            At("exchange_fee_fixed", 138, 8), At("exchange_fee_address", 138, 84)},
    T4 |-> AssetAt \cup
           {At("party1_token_qty", 84, 16), At("party2_token_qty", 100, 16),
            At("timestamp", 116, 16)}]

\* The version comes first in all of them.
UnSerialize ==
    [code \in Codes |-> {At("version", 12, 2)} \cup
        CASE code \in {"C1", "C2"} -> UnSerializeContract[code]
          [] code \in {"A1", "A2"} -> UnSerializeAsset[code]
          [] code \in {"T2", "T4"} -> UnSerializeTransfer[code]]

\* Shorter payloads are refused.
BadMinDigits == [C1 |-> 162, C2 |-> 440, A1 |-> 168, A2 |-> 188, T2 |-> 222, T4 |-> 84]
MinDigits == [C1 |-> 388, C2 |-> 440, A1 |-> 168, A2 |-> 188, T2 |-> 222, T4 |-> 122]

\* substr takes what there is when the payload ends inside the field.
Read(payload, r) ==
    SubSeq(payload, r.from + 1,
           IF r.from + r.digits <= Len(payload) THEN r.from + r.digits ELSE Len(payload))

\* The operation a payload states.
OpCode(payload) ==
    LET digits == Read(payload, At("prefix", 8, 4))
    IN  IF Len(digits) < 4 THEN "ERROR_CODE" ELSE CodeUnSerialize(digits[1][1])

\* A payload of another protocol, of an operation without a layout, or too short.
Refused(payload) ==
    \/ Read(payload, At("symbol", 0, 8)) # Digits("symbol", 4)
    \/ OpCode(payload) \notin Codes
    \/ Len(payload) < MinDigits[OpCode(payload)]

\* The fields read from the payload of another, by name.
UnSerializeOperation(payload) ==
    [name \in {r.name : r \in UnSerialize[OpCode(payload)]} |->
        Read(payload, CHOOSE r \in UnSerialize[OpCode(payload)] : r.name = name)]
=============================================================================

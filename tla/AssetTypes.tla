----------------------------- MODULE AssetTypes -----------------------------
(***************************************************************************)
(* The payload of an asset definition by asset type                        *)
(* (contract_machine/assettypes.cpp): what Serialize writes and            *)
(* UnSerialize reads, with the digits of OpReturn.  Only a test case that  *)
(* is commented out calls them; the programs leave the payload of an A1    *)
(* and an A2 at its default.                                               *)
(***************************************************************************)
EXTENDS OpReturn

PayloadHeader == <<"version", "trading_restricion">>

Validity == <<"valid_from", "expiration_timestamp">>

\* The fields of each type, in the order they are appended.
PayloadLayout == [
    SHC |-> <<"dividend_type", "dividend_var", "dividend_fixed", "disttribution_interval",
              "guaranteed", "ticker", "ISIN", "description">>,
    MOV |-> <<"age_restriction", "venue">> \o Validity \o <<"description">>,
    TIC |-> <<"age_restriction">> \o Validity \o <<"description">>,
    COU |-> <<"age_restriction">> \o Validity \o <<"description">>]

\* Serialize has SerializeSHC, SerializeMOV, SerializeTIC or SerializeCOU append the
\* fields of the type to a local string, and returns without it.
Serialize(ty, size) == Written(PayloadHeader, size)

\* UnSerialize.
HeaderAt == {At("version", 0, 2), At("trading_restricion", 2, 6)}

\* UnSerializeSHC.
ShcAt ==
    {At("dividend_type", 8, 2), At("dividend_var", 10, 8), At("dividend_fixed", 18, 8),
     At("disttribution_interval", 26, 2), At("guaranteed", 28, 2), At("ticker", 30, 8),
     At("ISIN", 38, 24), At("description", 62, 226)}

\* UnSerializeMOV, which reads half of each of its two uint64_t.
MovAt ==
    {At("age_restriction", 8, 10), At("venue", 18, 64), At("valid_from", 82, 8),
     At("expiration_timestamp", 90, 8), At("description", 98, 190)}

\* A TIC is read as a MOV; of a COU only the header.
PayloadAt == [SHC |-> HeaderAt \cup ShcAt, MOV |-> HeaderAt \cup MovAt,
              TIC |-> HeaderAt \cup MovAt, COU |-> HeaderAt]

\* substr throws when a field begins beyond the end of the payload.
PayloadThrows(ty, payload) == \E r \in PayloadAt[ty] : r.from > Len(payload)

UnSerializePayload(ty, payload) ==
    [name \in {r.name : r \in PayloadAt[ty]} |->
        Read(payload, CHOOSE r \in PayloadAt[ty] : r.name = name)]
=============================================================================

------------------------------- MODULE Encoding --------------------------------
(***************************************************************************)
(* The bytes money moves by: RLP, ABI words and EVM transactions, the      *)
(* address formats of the three networks, and what each network's signer   *)
(* accepts (packages/blockchain evm/ and address/, apps/signer sign.ts,    *)
(* evm.ts).                                                                *)
(*                                                                         *)
(* Bytes are sequences over 0..255.  RLP, EIP-155 and CRC16 are the code's *)
(* to the bit; word, address and checksum lengths are scaled down, a hash  *)
(* is an injective tag or, where only some bits of it count, a small       *)
(* function of its input.                                                  *)
(***************************************************************************)
EXTENDS Integers, FiniteSets, SequencesExt, Bitwise

WordLen    == 3     \* 32 in the code
AddressLen == 2     \* 20, and 20 and 32 for the account of TRON and TON
CheckLen   == 1     \* 4

HexError == <<-1>>      \* refused, thrown or null: no sequence of bytes

-----------------------------------------------------------------------------
(* hex.ts: quantities, RLP, ABI *)

BytesToInt(bytes) == FoldLeft(LAMBDA n, b : 256 * n + b, 0, bytes)

Digits(n, base) ==
    LET Of[m \in Nat] == IF m = 0 THEN <<>> ELSE Append(Of[m \div base], m % base)
    IN  Of[n]

\* Big-endian, no leading zero; zero is the empty array.
BigIntToBytes(n) == Digits(n, 256)

BigIntToBytesPadded_Truncates(n, width) ==
    LET bytes == [i \in 1..width |-> 0] \o BigIntToBytes(n)
    IN  SubSeq(bytes, Len(bytes) - width + 1, Len(bytes))
BigIntToBytesPadded(n, width) ==
    LET bytes == BigIntToBytes(n)
    IN  IF Len(bytes) > width THEN HexError
        ELSE [i \in 1..(width - Len(bytes)) |-> 0] \o bytes

\* A quantity as a node may render it: what the text is, and its digits.
ToQuantity(n) == [form |-> "hex", digits |-> IF n = 0 THEN <<0>> ELSE Digits(n, 16)]

ParseQuantity(text) ==
    LET Value(base) == FoldLeft(LAMBDA n, d : base * n + d, 0, text.digits)
    IN  CASE text.form \in {"", "0x"} -> 0
          [] text.form = "hex" /\ text.digits # <<>> -> Value(16)
          [] text.form = "decimal" /\ \A d \in ToSet(text.digits) : d < 10 -> Value(10)
          [] OTHER -> HexError

EncodeLength(length, offset) ==
    IF length < 56 THEN <<length + offset>>
    ELSE LET bytes == BigIntToBytes(length)
         IN  <<Len(bytes) + offset + 55>> \o bytes

\* Leaves are byte strings; the only lists are a transaction and its empty
\* access list, so one operator for each depth.
RlpBytes(bytes) ==
    IF Len(bytes) = 1 /\ bytes[1] < 128 THEN bytes
    ELSE EncodeLength(Len(bytes), 128) \o bytes

EmptyList == <<-2>>

RlpList(items) ==
    LET Item(item) == IF item = EmptyList THEN EncodeLength(0, 192) ELSE RlpBytes(item)
        content == FlattenSeq([i \in DOMAIN items |-> Item(items[i])])
    IN  EncodeLength(Len(content), 192) \o content

Selector == <<169, 5, 156, 187>>       \* transfer(address,uint256)

EncodeErc20Transfer(to, amount) ==
    LET word == BigIntToBytesPadded(amount, WordLen)
    IN  IF Len(to) # AddressLen \/ word = HexError THEN HexError
        ELSE Selector \o [i \in 1..(WordLen - AddressLen) |-> 0] \o to \o word

\* An empty answer is zero, a short one the number it spells.
DecodeUint256(data) ==
    BytesToInt(IF Len(data) < WordLen THEN data ELSE SubSeq(data, 1, WordLen))

DecodeAddressWord(word) ==
    IF Len(word) < AddressLen THEN HexError
    ELSE SubSeq(word, Len(word) - AddressLen + 1, Len(word))

\* What a node or a contract is told is what was meant: an amount that does not
\* fit its word is refused, never truncated.
AbiReadsBack(to, amount) ==
    LET data == EncodeErc20Transfer(to, amount)
        At(i) == SubSeq(data, i, i + WordLen - 1)
    IN  /\ (data = HexError) <=> (BytesToInt([i \in 1..WordLen |-> 255]) < amount)
        /\ data # HexError =>
             /\ DecodeAddressWord(At(5)) = to
             /\ DecodeUint256(At(5 + WordLen)) = amount
             /\ DecodeUint256(BigIntToBytes(amount)) = amount
        /\ amount = ParseQuantity(ToQuantity(amount))
        /\ BigIntToBytes(amount) # <<>> => BigIntToBytes(amount)[1] # 0

-----------------------------------------------------------------------------
(* transaction.ts *)

AssertRequest(r) ==
    /\ r.chainId > 0 /\ r.gasLimit > 0
    /\ Len(r.to) = AddressLen
    /\ IF r.type = "legacy" THEN r.gasPrice > 0
       ELSE r.maxFeePerGas > 0 /\ r.maxPriorityFeePerGas <= r.maxFeePerGas

Unsigned == [yParity |-> -1]

Fields(r, signature) ==
    LET Q(n) == BigIntToBytes(n)
        legacy == <<Q(r.nonce), Q(r.gasPrice), Q(r.gasLimit), r.to, Q(r.value), r.data>>
        typed  == <<Q(r.chainId), Q(r.nonce), Q(r.maxPriorityFeePerGas),
                    Q(r.maxFeePerGas), Q(r.gasLimit), r.to, Q(r.value), r.data, EmptyList>>
    IN  IF r.type = "legacy"
        THEN legacy \o (IF signature = Unsigned THEN <<Q(r.chainId), <<>>, <<>> >>
                        ELSE <<Q(signature.yParity + r.chainId * 2 + 35),
                               Q(signature.r), Q(signature.s)>>)
        ELSE typed \o (IF signature = Unsigned THEN <<>>
                       ELSE <<Q(signature.yParity), Q(signature.r), Q(signature.s)>>)

Envelope(r, signature) ==
    (IF r.type = "legacy" THEN <<>> ELSE <<2>>) \o RlpList(Fields(r, signature))

SerializeUnsigned(r) == IF AssertRequest(r) THEN Envelope(r, Unsigned) ELSE HexError

SerializeSigned(r, signature) ==
    IF /\ AssertRequest(r)
       /\ signature.yParity \in {0, 1} /\ signature.r > 0 /\ signature.s > 0
    THEN Envelope(r, signature) ELSE HexError

\* The chain a legacy v is valid on: what a node recovers under EIP-155.
ChainOfV(v) == (v - 35) \div 2

\* No two requests are hashed or broadcast as the same bytes, nor is a signed one
\* the unsigned form of another, and a legacy signature names one chain.
SerializationIsFaithful(requests, sigs) ==
    LET Good == {r \in requests : AssertRequest(r)}
        Out  == {SerializeUnsigned(r) : r \in Good}
                  \cup {SerializeSigned(r, s) : r \in Good, s \in sigs}
    IN  /\ Cardinality(Out) = Cardinality(Good) * (1 + Cardinality(sigs))
        /\ \A r \in Good, s \in sigs : r.type = "legacy" =>
               ChainOfV(BytesToInt(Fields(r, s)[7])) = r.chainId

-----------------------------------------------------------------------------
(* sign.ts, evm.ts of the signer: what a payload must be to be signed *)

ChainId == [mainnet |-> 56, testnet |-> 97]

\* toRequest: the payload's fields, none of them trusted.
ToRequest(payload) ==
    /\ payload.kind = "evm-transaction" /\ payload.type \in {"legacy", "eip1559"}
    /\ Len(payload.to) = AddressLen

\* key: the address its bytes derive, and the one it is filed under.
SignEvm(payload, key, env) ==
    CASE ~ToRequest(payload) -> "INVALID_PAYLOAD"
      [] ToRequest(payload) /\ payload.chainId # ChainId[env] -> "CHAIN_ID_MISMATCH"
      [] OTHER ->
           CASE key.length # 32 -> "INVALID_KEY"
             [] key.length = 32 /\ key.derives # key.address -> "IDENTITY_MISMATCH"
             [] OTHER ->
                  CASE ~AssertRequest(payload) -> "HexError"
                    [] AssertRequest(payload)
                         /\ SerializeUnsigned(payload) # payload.unsignedHex -> "DIGEST_MISMATCH"
                    [] OTHER -> "signed"

\* sha256 is a tag: injective, and no raw data is its own hash.
Sha256(data) == <<"sha256", data>>

SignTron(payload, key) ==
    CASE payload.rawData = HexError \/ payload.txID = HexError -> "INVALID_PAYLOAD"
      [] payload.rawData # HexError /\ payload.txID \notin {HexError, Sha256(payload.rawData)} ->
           "DIGEST_MISMATCH"
      [] OTHER -> IF key.length # 32 THEN "INVALID_KEY" ELSE "signed"

SignTon(payload, key) ==
    CASE payload.cellHash = HexError -> "TON_ADAPTER_REQUIRED"
      [] payload.cellHash # HexError /\ key.length \notin {32, 64} -> "INVALID_KEY"
      [] OTHER -> "signed"

SignTransaction(network, env, payload, key) ==
    CASE key.network # network \/ key.env # env -> "IDENTITY_MISMATCH"
      [] OTHER -> CASE network = "tron" -> SignTron(payload, key)
                    [] network = "ton"  -> SignTon(payload, key)
                    [] network = "bsc"  -> SignEvm(payload, key, env)

\* Whatever single field of a built payload is changed before the signer, nothing
\* is signed; unchanged, it is signed for its own chain only.
NothingElseIsSigned(request, others, key, env) ==
    LET built == request @@ [kind |-> "evm-transaction", unsignedHex |-> SerializeUnsigned(request)]
        Result(payload) == SignTransaction("bsc", env, payload, key)
    IN  AssertRequest(request) =>
        /\ (Result(built) = "signed") <=>
              /\ request.chainId = ChainId[env] /\ key.derives = key.address
              /\ key.network = "bsc" /\ key.env = env /\ key.length = 32
        /\ \A other \in others : request.type = other.type =>
              \A field \in DOMAIN request : other[field] # request[field] =>
                  Result([built EXCEPT ![field] = other[field]]) # "signed"

\* TRON signs the raw data its txID names; TON only a cell somebody built.
OnlyWhatIsNamed(raw, others, key) ==
    /\ \A other \in others :
         SignTransaction("tron", key.env, [rawData |-> raw, txID |-> Sha256(other)], key) = "signed"
            => raw = other /\ key.network = "tron" /\ key.length = 32
    /\ SignTransaction("ton", key.env, [cellHash |-> HexError], key) # "signed"

=============================================================================

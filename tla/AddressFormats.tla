---------------------------- MODULE AddressFormats -----------------------------
(***************************************************************************)
(* The address formats of the three networks (packages/blockchain          *)
(* address/): what text is accepted, the one form each account is stored   *)
(* and compared by, and what a mistyped character does.                    *)
(*                                                                         *)
(* Texts and bytes are sequences of numbers, with the lengths of Encoding. *)
(***************************************************************************)
EXTENDS Encoding

Invalid == [valid |-> FALSE]
Valid(canonical, display) ==
    [valid |-> TRUE, canonical |-> canonical, display |-> display]

-----------------------------------------------------------------------------
(* base58.ts: a text is a sequence of digits 0..57 *)

LeadingZeros(s) ==
    Cardinality({i \in DOMAIN s : \A j \in 1..i : s[j] = 0})
Zeros(s) == [i \in 1..LeadingZeros(s) |-> 0]

Base58Encode(bytes) == Zeros(bytes) \o Digits(BytesToInt(bytes), 58)

Base58Decode(text) ==
    Zeros(text) \o Digits(FoldLeft(LAMBDA n, d : 58 * n + d, 0, text), 256)

\* The checksum: a hash of which only CheckLen bytes count.
DoubleSha256(data) ==
    <<FoldLeft(LAMBDA h, b : (31 * h + 7 * b + 11) % 251, 0, data)>>

Base58CheckEncode(data) == Base58Encode(data \o DoubleSha256(data))

\* HexError: null.
Base58CheckDecode(text) ==
    LET decoded == Base58Decode(text)
        data    == SubSeq(decoded, 1, Len(decoded) - CheckLen)
    IN  IF Len(decoded) < CheckLen + 1 THEN HexError
        ELSE IF DoubleSha256(data) = SubSeq(decoded, Len(data) + 1, Len(decoded))
             THEN data ELSE HexError

-----------------------------------------------------------------------------
(* tron.ts *)

TronPrefix == 65
TronLen == 1 + AddressLen
TextLen == 6       \* 34 in the code: what TronLen + CheckLen bytes encode to

TronHexToBase58(bytes) ==
    IF Len(bytes) = TronLen /\ bytes[1] = TronPrefix
    THEN Base58CheckEncode(bytes) ELSE HexError

TronBase58ToHex(text) ==
    LET data == Base58CheckDecode(text)
    IN  IF data = HexError THEN HexError
        ELSE IF Len(data) # TronLen \/ data[1] # TronPrefix THEN HexError ELSE data

\* input: a hex or a base58 text, as its digits.
ValidateTron(input) ==
    LET base58 == IF input.form = "hex" THEN TronHexToBase58(input.text) ELSE input.text
    IN  CASE input.form = "hex" /\ base58 # HexError -> Valid(base58, base58)
          [] /\ input.form = "base58" /\ Len(base58) = TextLen
             /\ TronBase58ToHex(base58) # HexError -> Valid(base58, base58)
          [] OTHER -> Invalid

-----------------------------------------------------------------------------
(* ton.ts *)

Shift(crc) == (crc * 2) % 65536
Crc16(data) ==
    LET Bit(crc, i) == IF crc >= 32768 THEN Shift(crc) ^^ 4129 ELSE Shift(crc)
        Byte(crc, b) == FoldLeft(Bit, crc ^^ (b * 256), <<1, 2, 3, 4, 5, 6, 7, 8>>)
    IN  FoldLeft(Byte, 0, data)

\* 0x11 bounceable, 0x51 not, 0x80 more for test-only.
Tag(bounceable, testOnly) ==
    (IF bounceable THEN 17 ELSE 81) + (IF testOnly THEN 128 ELSE 0)

TonToFriendly(parts, bounceable) ==
    LET head == <<Tag(bounceable, parts.testOnly), IF parts.workchain = -1 THEN 255 ELSE 0>>
                  \o parts.hash
    IN  head \o <<Crc16(head) \div 256, Crc16(head) % 256>>

ParseFriendly(bytes) ==
    LET head == SubSeq(bytes, 1, Len(bytes) - 2)
    IN  IF Len(bytes) # AddressLen + 4 THEN Invalid
        ELSE IF \/ Crc16(head) # BytesToInt(SubSeq(bytes, Len(head) + 1, Len(bytes)))
                \/ bytes[1] % 128 \notin {17, 81} \/ bytes[2] \notin {0, 255}
             THEN Invalid
             ELSE [workchain  |-> IF bytes[2] = 255 THEN -1 ELSE 0,
                   hash       |-> SubSeq(head, 3, Len(head)),
                   bounceable |-> bytes[1] % 128 = 17, testOnly |-> bytes[1] >= 128]

ParseRaw(workchain, hash) ==
    IF workchain \notin {0, -1} \/ Len(hash) # AddressLen THEN Invalid
    ELSE [workchain |-> workchain, hash |-> hash, bounceable |-> TRUE, testOnly |-> FALSE]

ParseTonAddress(input) ==
    IF input.form = "raw" THEN ParseRaw(input.workchain, input.text)
    ELSE ParseFriendly(input.text)

ValidateTon(input) ==
    LET parts == ParseTonAddress(input)
    IN  IF parts = Invalid THEN Invalid
        ELSE Valid([workchain |-> parts.workchain, hash |-> parts.hash],
                   TonToFriendly(parts, TRUE))

-----------------------------------------------------------------------------
(* evm.ts: a text is a sequence of hex digits, each with its case *)

Letter(d) == d >= 10
LowerCase(text) == [i \in DOMAIN text |-> [digit |-> text[i].digit, upper |-> FALSE]]

\* keccak256 of the lower-case digits: which of them it sets in upper case.
ToChecksumAddress(text) ==
    LET Hash(i) == FoldLeft(LAMBDA h, c : (5 * h + c.digit + i) % 16, 3, text)
    IN  [i \in DOMAIN text |-> [digit |-> text[i].digit,
                                upper |-> Letter(text[i].digit) /\ Hash(i) >= 8]]

ChecksumState(text) ==
    LET cases == {c.upper : c \in {c \in ToSet(text) : Letter(c.digit)}}
    IN  CASE cases # BOOLEAN -> "unchecked"
          [] cases = BOOLEAN /\ ToChecksumAddress(text) = text -> "valid"
          [] OTHER -> "invalid"

ValidateEvm(text) ==
    IF Len(text) # 2 * AddressLen \/ ChecksumState(text) = "invalid" THEN Invalid
    ELSE Valid(LowerCase(text), ToChecksumAddress(text))

EvmAddressFromPublicKey(hash) ==
    ToChecksumAddress(SubSeq(hash, Len(hash) - (2 * AddressLen) + 1, Len(hash)))

ValidateAddress(network, input) ==
    CASE network = "tron" -> IF input.form \in {"hex", "base58"} THEN ValidateTron(input) ELSE Invalid
      [] network = "ton"  -> IF input.form \in {"raw", "friendly"} THEN ValidateTon(input) ELSE Invalid
      [] network = "bsc"  -> IF input.form = "0x" THEN ValidateEvm(input.text) ELSE Invalid

-----------------------------------------------------------------------------

\* Every text of one account is stored as one address, and no text of another as it.
OneAddressPerAccount(network, texts) ==
    LET Canonical(account) == {ValidateAddress(network, text) : text \in texts[account]}
        Stored(account) == {v.canonical : v \in Canonical(account) \ {Invalid}}
    IN  /\ \A account \in DOMAIN texts :
             Cardinality(Stored(account)) = 1 /\ Invalid \notin Canonical(account)
        /\ Cardinality(UNION {Stored(account) : account \in DOMAIN texts})
             = Cardinality(DOMAIN texts)

\* Bytes survive base58, leading zeros included.
Base58ReadsBack(data) ==
    /\ Base58Decode(Base58Encode(data)) = data
    /\ Base58CheckDecode(Base58CheckEncode(data)) = (IF data = <<>> THEN HexError ELSE data)

\* One wrong byte in a friendly TON address, whichever it is, is noticed.
TypoIsNoticed(parts, byte) ==
    LET text == TonToFriendly(parts, parts.bounceable)
    IN  \A i \in DOMAIN text : byte # text[i] =>
            ParseFriendly([text EXCEPT ![i] = byte]) = Invalid

=============================================================================

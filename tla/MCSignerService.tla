--------------------------- MODULE MCSignerService ---------------------------
(* Small instances of SignerService for TLC, and the inputs over which the       *)
(* functions of Encoding, AddressFormats and Keystore are evaluated.             *)
EXTENDS SignerService, AddressFormats, TLC

K == INSTANCE Keystore

\* Calls and intents are interchangeable: no action or invariant names one.
Symmetry == Permutations(Calls) \cup Permutations(Intents)

Legacy == [type : {"legacy"}, chainId : {56, 97}, nonce : {0, 127, 128, 256}, to : {<<1, 2>>, <<0, 0>>},
           value : {0, 1}, data : {<<>>, <<0>>, <<129>>, [i \in 1..56 |-> i]},
           gasLimit : {0, 1}, gasPrice : {1, 300}]
Typed == [type : {"eip1559"}, chainId : {56, 97}, nonce : {0, 256}, to : {<<1, 2>>}, value : {0, 1},
          data : {<<>>, <<0>>, [i \in 1..250 |-> 0]}, gasLimit : {1, 2},
          maxFeePerGas : {0, 1, 2}, maxPriorityFeePerGas : {0, 1, 2}]
Signatures == [yParity : {0, 1}, r : {1, 128}, s : {1}]

KeyRecords == [network : {"bsc", "ton"}, env : {"mainnet", "testnet"}, length : {31, 32},
               derives : {1, 2}, address : {1}]

Payload == {r \in Legacy : r.nonce \in {0, 256} /\ Len(r.data) < 2 /\ r.to[1] = 1}
             \cup {r \in Typed : Len(r.data) < 2}

Accounts == {<<0, 0>>, <<0, 7>>, <<65, 200>>}
TonParts == [workchain : {0, -1}, hash : Accounts, bounceable : BOOLEAN, testOnly : BOOLEAN]

TronTexts ==
    [a \in Accounts |-> {[form |-> "hex", text |-> <<TronPrefix>> \o a],
                         [form |-> "base58", text |-> TronHexToBase58(<<TronPrefix>> \o a)]}]
TonTexts ==
    [id \in {0, -1} \X Accounts |->
        {[form |-> "raw", workchain |-> id[1], text |-> id[2]]}
          \cup {[form |-> "friendly", text |-> TonToFriendly(p, p.bounceable)] :
                p \in {p \in TonParts : p.workchain = id[1] /\ p.hash = id[2]}}]

Nibbles == {<<0, 0, 0, 0>>, <<10, 11, 12, 13>>, <<1, 15, 10, 0>>}
Cased(digits, upper) == [i \in DOMAIN digits |-> [digit |-> digits[i], upper |-> upper /\ Letter(digits[i])]]
EvmTexts ==
    [d \in Nibbles |-> {[form |-> "0x", text |-> t] :
        t \in {Cased(d, FALSE), Cased(d, TRUE), ToChecksumAddress(Cased(d, FALSE))}}]

\* Up to four commands over two addresses, one of them on two networks.
Commands ==
    {c \in K!Commands :
        c.name = "add" =>
          /\ c.identity.env = "mainnet" /\ c.key # "p2"
          /\ c.key = "malformed" => c.identity.address = 2
          /\ c.identity.address = 2 => c.identity.network = "ton"}
Managed == UNION {[1..n -> Commands] : n \in 0..3}
             \cup {<<c, d, e, f>> : c, d \in {x \in Commands : x.name = "add"}, e, f \in Commands}

EncodingHolds ==
    /\ K!KeystoreSound(Managed, {s \in K!Secrets : s.bytes = "k1" /\ s.rest = "more"})
    /\ \A to \in {<<0, 0>>, <<9, 8>>}, amount \in {0, 1, 255, 256, 65536, 16777215, 16777216} :
          AbiReadsBack(to, amount)
    /\ SerializationIsFaithful(Legacy \cup Typed, Signatures)
    /\ \A request \in Payload, key \in KeyRecords, env \in DOMAIN ChainId :
          NothingElseIsSigned(request, Payload, key, env)
    /\ \A key \in [network : {"tron", "ton"}, env : {"mainnet"}, length : {31, 32}] :
          OnlyWhatIsNamed(<<1, 2>>, {<<1, 2>>, <<1, 3>>}, key)
    /\ \A n \in 0..3 : \A data \in [1..n -> {0, 1, 57, 58, 127}] : Base58ReadsBack(data)
    /\ OneAddressPerAccount("tron", TronTexts) /\ OneAddressPerAccount("ton", TonTexts)
    /\ OneAddressPerAccount("bsc", EvmTexts)
    /\ \A parts \in TonParts, byte \in {0, 17, 81, 145, 255} : TypoIsNoticed(parts, byte)

\* What is signed is what the payload declares and nothing else can be; bytes, words
\* and quantities read back; each account has one stored address, and a wrong byte in
\* a TON address is noticed; and the keystore yields the key that was added for an
\* identity under the current master key, and nothing else.  No state matters to these functions: the initial one
\* asks for them once.
EncodingSound == Init => EncodingHolds
=============================================================================

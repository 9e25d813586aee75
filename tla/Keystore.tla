------------------------------- MODULE Keystore -------------------------------
(***************************************************************************)
(* The signer's encrypted keystore and the command line that manages it    *)
(* (apps/signer/src/keystore.ts, cli/keystore.ts): what is stored under an *)
(* address can be used under that address alone, and survives a rotation   *)
(* of the master key.                                                      *)
(*                                                                         *)
(* AES-256-GCM is a box that opens with the key and the associated data it *)
(* was closed with, or not at all.  A command runs alone, from the file to *)
(* the file; what a running signer does with it is in SignerService.       *)
(***************************************************************************)
EXTENDS Integers, FiniteSets, SequencesExt

Failed == [key |-> "none"]

\* SIGNER_MASTER_KEY: the first 32 bytes of what it decodes to.
Secrets == [bytes : {"k1", "k2"}, rest : {"", "more"}, short : BOOLEAN]
MasterKey(secret) == IF secret.short THEN "refused" ELSE secret.bytes

Identities == [network : {"tron", "ton"}, env : {"mainnet", "testnet"}, address : {1, 2}]
Aad(entry) == <<entry.network, entry.env, entry.address>>

Box(key, aad, content) == [key |-> key, aad |-> aad, content |-> content]
Damaged == Box("nobody", <<>>, 0)

EncryptKeyMaterial(privateKey, identity, secret) ==
    Box(MasterKey(secret), Aad(identity), privateKey)

\* The private key, or "none": a wrong master key, a damaged or a moved entry.
DecryptKeyMaterial(material, identity, secret) ==
    IF ~secret.short /\ material.key = MasterKey(secret) /\ material.aad = Aad(identity)
    THEN [key |-> material.content] ELSE Failed

-----------------------------------------------------------------------------
(* Keystore: a sequence of entries *)

Identity(entry) == [network |-> entry.network, env |-> entry.env, address |-> entry.address]
Entry(identity, material) ==
    [network |-> identity.network, env |-> identity.env, address |-> identity.address,
     material |-> material]

\* Addresses only.
List(entries) == [i \in DOMAIN entries |-> Identity(entries[i])]

Find(entries, identity, secret) ==
    LET matches == SelectSeq(entries, LAMBDA e : Identity(e) = identity)
    IN  IF matches = <<>> THEN Failed
        ELSE DecryptKeyMaterial(Head(matches).material, Head(matches), secret)

\* An address is kept once, whatever the network.
Add(entries, identity, privateKey, secret) ==
    IF secret.short \/ \E i \in DOMAIN entries : entries[i].address = identity.address
    THEN entries
    ELSE Append(entries, Entry(identity, EncryptKeyMaterial(privateKey, identity, secret)))

RemoveEntry(entries, address) == SelectSeq(entries, LAMBDA e : e.address # address)

\* All or nothing: one entry that does not open, or a new key too short, and the
\* file stays as it is.
Rotate(entries, secret, new) ==
    LET opened == [i \in DOMAIN entries |->
                     DecryptKeyMaterial(entries[i].material, entries[i], secret)]
    IN  IF entries # <<>> /\ (new.short \/ \E i \in DOMAIN opened : opened[i] = Failed)
        THEN entries
        ELSE [i \in DOMAIN entries |->
                Entry(entries[i], EncryptKeyMaterial(opened[i].key, entries[i], new))]

\* The command line: `add` takes a key of 32 to 64 bytes for tron or ton alone.
Commands ==
    [name : {"add"}, identity : Identities, key : {"p1", "p2", "malformed"}]
      \cup [name : {"remove"}, address : {1, 2}]
      \cup [name : {"rotate"}, new : {s \in Secrets : s.rest = ""}]

Run(entries, command, secret) ==
    CASE command.name = "add"    -> IF command.key = "malformed" THEN entries
                                    ELSE Add(entries, command.identity, command.key, secret)
      [] command.name = "remove" -> RemoveEntry(entries, command.address)
      [] OTHER                   -> Rotate(entries, secret, command.new)

-----------------------------------------------------------------------------
\* What an operator means who sets SIGNER_MASTER_KEY after every rotation to the key
\* that it was rotated to.
Operated(commands, secret) ==
    LET Step(s, c) ==
            LET after == Run(s.entries, c, s.secret)
            IN  [entries |-> after,
                 secret |-> IF c.name = "rotate" /\ ~c.new.short THEN c.new ELSE s.secret,
                 keys |-> CASE c.name = "add" /\ after # s.entries ->
                                 s.keys \cup {<<c.identity, c.key>>}
                            [] c.name = "remove" -> {k \in s.keys : k[1].address # c.address}
                            [] OTHER -> s.keys]
    IN  FoldLeft(Step, [entries |-> <<>>, secret |-> secret, keys |-> {}], commands)

\* Whatever is added, removed and rotated: an address is there once, every identity
\* has the key that was added for it and no other, under the current master key; under the other master key,
\* moved to another identity, or damaged, no entry yields a key; and a rotation under
\* a wrong master key changes nothing.
KeystoreSound(histories, secrets) ==
    \A commands \in histories, secret \in secrets :
        LET s == Operated(commands, secret)
            Keys(id) == {k[2] : k \in {p \in s.keys : p[1] = id}}
            other == [s.secret EXCEPT !.bytes = IF @ = "k1" THEN "k2" ELSE "k1"]
        IN  /\ ToSet(List(s.entries)) = {k[1] : k \in s.keys}
            /\ Cardinality({k[1].address : k \in s.keys}) = Len(s.entries)
            /\ \A id \in Identities :
                 /\ Keys(id) = {} => Find(s.entries, id, s.secret) = Failed
                 /\ \A key \in Keys(id) : Find(s.entries, id, s.secret) = [key |-> key]
                 /\ Find(s.entries, id, other) = Failed
            /\ \A i \in DOMAIN s.entries, id \in Identities :
                 \A material \in {s.entries[i].material, Damaged} :
                    (material = Damaged \/ id # Identity(s.entries[i])) =>
                        DecryptKeyMaterial(material, id, s.secret) = Failed
            /\ s.entries # <<>> => Rotate(s.entries, other, s.secret) = s.entries
=============================================================================

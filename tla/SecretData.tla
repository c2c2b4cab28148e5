----------------------------- MODULE SecretData -----------------------------
(***************************************************************************)
(* The values the secret delivery service handles: clear texts, sealed     *)
(* texts and signatures, the encrypted secrets clients keep, the envelopes *)
(* a rewrap answers with, and the requests and configurations they come    *)
(* in.  Cryptography is symbolic: a ciphertext or a signature is a record  *)
(* of who made it, under which key, over which text, and of the nonce that *)
(* makes it unlike every other one.                                        *)
(***************************************************************************)
EXTENDS Naturals, Sequences

CONSTANTS
    Requests,       \* the HTTP requests of a behaviour
    Words,          \* what clear texts say
    EmptyWord,      \* the empty text
    Base64Words,    \* the words that happen to be valid base64 themselves
    KeyNames,       \* the well-formed key names clients use
    BadKeyName,     \* a key name validateKeyName refuses
    Keys,           \* 32-byte contents of local key files
    ShortKey,       \* the content of a key file of another length
    NoKey,          \* stands where a backend uses no key
    StorageDirs,    \* storage directories a Vault token may carry
    RewrapKeys,     \* RSA public keys of at least 2048 bits
    BadRewrapKey,   \* anything PublicKeyFromString refuses
    Null,           \* a JSON null in a list of items
    MaxItems        \* bound: items in one request

-----------------------------------------------------------------------------
(* Clear text.  depth says how many times the text is base64 encoded; the   *)
(* empty text encoded is the empty text.                                    *)

EmptyText == [word |-> EmptyWord, depth |-> 0]

Texts == [word : Words, depth : 0..1] \ {[EmptyText EXCEPT !.depth = 1]}

\* What base64.StdEncoding.DecodeString accepts: every encoded text, and the
\* plain texts that look encoded (the empty text is one of them).
IsBase64(t) == t.depth = 1 \/ t.word \in Base64Words

\* seal encodes the clear text unless it can already be decoded.
Normalise(t) == IF IsBase64(t) THEN t ELSE [t EXCEPT !.depth = 1]

-----------------------------------------------------------------------------
(* Sealed texts: ciphertexts and signatures have the same shape. *)

Backends == {"none", "localkey", "vault"}

Materials == Keys \union KeyNames \union {ShortKey, NoKey}

NoNonce == << >>

\* A nonce is drawn for one item of one request and never drawn again.
Nonces == (Requests \X (1..MaxItems)) \union {NoNonce}

Seals == [by : Backends, key : Materials, text : Texts, n : Nonces]

Seal(backend, key, text, nonce) ==
    [by |-> backend, key |-> key, text |-> text, n |-> nonce]

\* The empty string where the code keeps a storage directory.
NoDir == "nodir"

\* The CipherText field: the ciphertext itself (dir is NoDir), or the path
\* dir/v1-secrets/sha256(ct) of the Vault object that holds it.  SHA-256 has no
\* collisions here, so the ciphertext stands for its digest.
CipherTexts == [dir : StorageDirs \union {NoDir}, ct : Seals]

Raw(ct) == [dir |-> NoDir, ct |-> ct]

-----------------------------------------------------------------------------
(* What clients send and receive. *)

Names == KeyNames \union {BadKeyName}

BackendNames == Backends \union {"other"}

UnencryptedSecrets ==
    [backend : BackendNames, keyName : Names, clearText : Texts]

EncryptedSecrets ==
    [backend : BackendNames, keyName : Names,
     cipherText : CipherTexts, signature : Seals]

\* One rewrapped secret: the text under a key drawn for the request (tmp), that
\* key under the client's RSA key (to).
Envelopes == [to : RewrapKeys, tmp : Requests, text : Texts]

ListsOf(Items) == {list \in Seq(Items) : Len(list) <= MaxItems}

\* A decoded request.  A request for a single secret is a list of one item that
\* is not null; only the bulk routes carry other lists.
Inputs ==
    [op : {"create"}, items : ListsOf(UnencryptedSecrets \union {Null}),
     rewrapKey : {BadRewrapKey}]
    \union
    [op : {"rewrap", "purge"}, items : ListsOf(EncryptedSecrets \union {Null}),
     rewrapKey : RewrapKeys \union {BadRewrapKey}]

\* A body decodeJSONBody refuses, and a request that has not arrived.
Unreadable == [op |-> "unreadable", items |-> << >>, rewrapKey |-> BadRewrapKey]

NoInput == [op |-> "none", items |-> << >>, rewrapKey |-> BadRewrapKey]

-----------------------------------------------------------------------------
(* Configuration: which backends a process may use.  vault is "off", or the *)
(* storage directory of the token, NoDir when the token carries none.       *)

AllConfigs ==
    [none : BOOLEAN, local : BOOLEAN, vault : StorageDirs \union {"off", NoDir}]

ASSUME DataAssumption ==
    /\ EmptyWord \in Base64Words /\ Base64Words \subseteq Words
    /\ MaxItems \in Nat
    /\ BadKeyName \notin KeyNames
    /\ BadRewrapKey \notin RewrapKeys
    /\ ShortKey \notin Keys
    /\ {"off", NoDir} \intersect StorageDirs = {}
    /\ Null \notin UnencryptedSecrets \union EncryptedSecrets
=============================================================================

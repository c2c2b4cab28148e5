---------------------------- MODULE VaultBackend ----------------------------
(***************************************************************************)
(* The Vault backend.  Every item looks the token up (and with it the      *)
(* storage directory), then calls Vault's transit engine and, when the     *)
(* token carries a storage_dir, Vault's storage: the ciphertext is written *)
(* to a path named after its digest and the client gets the path.          *)
(*                                                                         *)
(* A call that reads no shared state (lookup-self, encrypt, decrypt, hmac, *)
(* verify) is part of the step it serves; the calls on the storage are     *)
(* steps of their own.  Any call may fail.  A failed write or delete may   *)
(* still be on its way: the client gave up after 30 seconds, Vault has not.*)
(* The client library may also repeat a write or delete Vault answered     *)
(* with a server error, while the first attempt is on its way.             *)
(***************************************************************************)
EXTENDS SecretRequests

CONSTANTS
    MaxFaults,           \* bound: failed Vault calls
    Repeating            \* whether the client library repeats failed calls
                         \* (api.DefaultConfig and VAULT_MAX_RETRIES say)

VARIABLES
    stored,              \* the paths that exist in Vault's storage
    late,                \* writes and deletes Vault may still carry out
    faults,              \* how many calls have failed
    repeated             \* history: the creates whose writes were repeated

vaultVars == <<stored, late, faults, repeated>>

ASSUME VaultAssumption == MaxFaults \in Nat /\ Repeating \in BOOLEAN

Paths == [dir : StorageDirs, ct : Seals]

\* The number of failures so far tells a repeated attempt from the one before.
Call(kind, path, r) == [call |-> kind, path |-> path, by |-> r, attempt |-> faults]

LateCalls ==
    [call : {"put", "delete"}, path : Paths, by : Requests, attempt : 0..MaxFaults]

InitVault == stored = {} /\ late = {} /\ faults = 0 /\ repeated = {}

-----------------------------------------------------------------------------
\* The storage directory of the client made for the item.
Storing == config.vault # NoDir

\* Mutant: the storage directory is left out of the path.
PathWithoutDir(r) == cur[r].cipherText

\* The path storeSecretInVault writes to.
PathOf(r) == [cur[r].cipherText EXCEPT !.dir = config.vault]

\* validateStoragePath: a path this service made in the configured directory.
InStorageDir(cipherText) == Storing /\ cipherText.dir = config.vault

NoFault == UNCHANGED <<late, faults, repeated, disturbed>>

\* Mutant: the error of an item is logged and the next item follows.
VaultFailsQuietly(r, pending) ==
    /\ faults < MaxFaults
    /\ faults' = faults + 1
    /\ late' \in {late, late \union pending}
    /\ disturbed' = disturbed \union {r}
    /\ FinishItem(r, << >>)
    /\ UNCHANGED <<stored, repeated>>

\* A call fails, with what Vault may still do about it.
VaultFails(r, pending) ==
    /\ faults < MaxFaults
    /\ faults' = faults + 1
    /\ late' \in {late, late \union pending}
    /\ disturbed' = disturbed \union {r}
    /\ Abort(r)
    /\ UNCHANGED <<stored, repeated>>

\* A failed lookup, or a failed call that writes nothing.
VaultCallFails(r) ==
    /\ \E step \in Steps : At(r, step, "vault")
    /\ VaultFails(r, {})

\* The library sends a call again and the request waits on; Vault may carry out
\* the attempt that failed before, after, or besides the next one.
VaultRepeats(call) ==
    /\ Repeating /\ faults < MaxFaults
    /\ faults' = faults + 1
    /\ late' = late \union {call}
    /\ UNCHANGED <<requestVars, stored>>

VaultRepeatStore(r) ==
    /\ At(r, "store", "vault")
    /\ VaultRepeats(Call("put", PathOf(r), r))
    /\ repeated' = repeated \union {r}

VaultRepeatDelete(r) ==
    /\ At(r, "delete", "vault") /\ InStorageDir(Item(r).cipherText)
    /\ VaultRepeats(Call("delete", Item(r).cipherText, r))
    /\ UNCHANGED repeated

-----------------------------------------------------------------------------
VaultEncrypt(r) ==
    /\ At(r, "encrypt", "vault")
    /\ GoTo(r, IF Storing THEN "store" ELSE "sign",
            [cur[r] EXCEPT !.cipherText =
                Raw(Seal("vault", Item(r).keyName, cur[r].clearText, Nonce(r)))])
    /\ NoFault
    /\ UNCHANGED stored

\* Mutant: the error of the write is not looked at.
VaultStoreUnchecked(r) ==
    /\ At(r, "store", "vault")
    /\ stored' \in {stored, stored \union {PathOf(r)}}
    /\ GoTo(r, "sign", [cur[r] EXCEPT !.cipherText = PathOf(r)])
    /\ NoFault

VaultStore(r) ==
    /\ At(r, "store", "vault")
    /\ \/ /\ stored' = stored \union {PathOf(r)}
          /\ GoTo(r, "sign", [cur[r] EXCEPT !.cipherText = PathOf(r)])
          /\ NoFault
       \/ VaultFails(r, {Call("put", PathOf(r), r)})

\* Mutant: the text is signed as the client gave it.
VaultSignGiven(r) ==
    /\ At(r, "sign", "vault")
    /\ SealItem(r, Seal("vault", Item(r).keyName, Item(r).clearText, Nonce(r)))
    /\ NoFault
    /\ UNCHANGED stored

\* A random nonce, then the HMAC of nonce and text.
VaultSign(r) ==
    /\ At(r, "sign", "vault")
    /\ SealItem(r, Seal("vault", Item(r).keyName, cur[r].clearText, Nonce(r)))
    /\ NoFault
    /\ UNCHANGED stored

\* Mutant: the path is read, and then decrypted in place of what it holds.
VaultFetchKeepsPath(r) ==
    /\ At(r, "fetch", "vault")
    /\ LET sent == Item(r).cipherText
       IN  IF Storing /\ (~InStorageDir(sent) \/ sent \notin stored)
           THEN Abort(r)
           ELSE GoTo(r, "decrypt", [cur[r] EXCEPT !.cipherText = sent])
    /\ NoFault
    /\ UNCHANGED stored

\* With a storage directory the ciphertext is read from the path the client
\* sent; without one, what the client sent is the ciphertext.
VaultFetch(r) ==
    /\ At(r, "fetch", "vault")
    /\ LET sent == Item(r).cipherText
       IN  IF Storing /\ (~InStorageDir(sent) \/ sent \notin stored)
           THEN Abort(r)
           ELSE GoTo(r, "decrypt", [cur[r] EXCEPT !.cipherText =
                    IF Storing THEN Raw(sent.ct) ELSE sent])
    /\ NoFault
    /\ UNCHANGED stored

\* Vault decrypts its own ciphertexts under the key named; secretString takes an
\* empty plaintext for a missing one.
VaultDecrypt(r) ==
    /\ At(r, "decrypt", "vault")
    /\ LET sent == cur[r].cipherText
       IN  IF /\ sent.dir = NoDir
              /\ sent.ct.by = "vault"
              /\ sent.ct.key = Item(r).keyName
              /\ sent.ct.text # EmptyText
           THEN GoTo(r, "verify", [cur[r] EXCEPT !.clearText = sent.ct.text])
           ELSE Abort(r)
    /\ NoFault
    /\ UNCHANGED stored

\* Mutant: a good signature by the right key will do, whatever it signs.
VaultVerifyAnyText(r) ==
    /\ At(r, "verify", "vault")
    /\ LET signature == Item(r).signature
       IN  IF signature.by = "vault" /\ signature.key = Item(r).keyName
           THEN WrapItem(r, cur[r].clearText)
           ELSE Abort(r)
    /\ NoFault
    /\ UNCHANGED stored

VaultVerify(r) ==
    /\ At(r, "verify", "vault")
    /\ LET signature == Item(r).signature
       IN  IF /\ signature.by = "vault"
              /\ signature.key = Item(r).keyName
              /\ signature.text = cur[r].clearText
           THEN WrapItem(r, cur[r].clearText)
           ELSE Abort(r)
    /\ NoFault
    /\ UNCHANGED stored

\* Mutant: a bulk purge deletes its first item again and again.
VaultDeleteFirst(r) ==
    /\ At(r, "delete", "vault")
    /\ IF Storing THEN stored' = stored \ {input[r].items[1].cipherText}
                  ELSE UNCHANGED stored
    /\ FinishItem(r, << >>)
    /\ NoFault

\* Without a storage directory there is nothing to delete.
VaultDelete(r) ==
    /\ At(r, "delete", "vault")
    /\ LET path == Item(r).cipherText
       IN  \/ /\ ~Storing
              /\ FinishItem(r, << >>)
              /\ NoFault
              /\ UNCHANGED stored
           \/ /\ Storing /\ ~InStorageDir(path)
              /\ Abort(r)
              /\ NoFault
              /\ UNCHANGED stored
           \/ /\ InStorageDir(path)
              /\ stored' = stored \ {path}
              /\ FinishItem(r, << >>)
              /\ NoFault
           \/ /\ InStorageDir(path)
              /\ VaultFails(r, {Call("delete", path, r)})

VaultRequestStep(r) ==
    \/ VaultCallFails(r) \/ VaultRepeatStore(r) \/ VaultRepeatDelete(r)
    \/ VaultEncrypt(r) \/ VaultStore(r) \/ VaultSign(r)
    \/ VaultFetch(r) \/ VaultDecrypt(r) \/ VaultVerify(r)
    \/ VaultDelete(r)

\* Vault carries out a call the service had given up on.
VaultLate ==
    \E c \in late :
        /\ late' = late \ {c}
        /\ stored' = IF c.call = "put" THEN stored \union {c.path}
                                       ELSE stored \ {c.path}
        /\ UNCHANGED <<faults, repeated>>

\* The calls on the storage that may be under way.
Underway ==
    {Call("put", PathOf(r), r) :
        r \in {q \in Requests : At(q, "store", "vault")}}
    \union
    {Call("delete", Item(r).cipherText, r) :
        r \in {q \in Requests : At(q, "delete", "vault") /\ InStorageDir(Item(q).cipherText)}}

\* The process dies in the middle of them; Vault may carry them out all the same.
VaultOutlivesCrash ==
    /\ late' \in {late \union kept : kept \in SUBSET Underway}
    /\ UNCHANGED <<stored, faults, repeated>>
=============================================================================

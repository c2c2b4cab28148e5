--------------------------- MODULE SecretDelivery ---------------------------
(***************************************************************************)
(* The secret delivery service with its three backends: requests that      *)
(* create, rewrap and purge secrets run side by side, against a Vault that *)
(* may fail or answer late and a key directory that may change under them, *)
(* in a process that may die and be started again.                         *)
(***************************************************************************)
EXTENDS VaultBackend, LocalKeyBackend, NoneBackend

vars == <<serviceVars, vaultVars, fileVars>>

Init == InitService /\ InitVault /\ InitFiles

\* Everything the server itself does for request r.
RequestStep(r) ==
    \/ HandlerStep(r) /\ UNCHANGED <<vaultVars, fileVars>>
    \/ VaultRequestStep(r) /\ UNCHANGED <<processVars, fileVars>>
    \/ LocalRequestStep(r) /\ UNCHANGED <<processVars, vaultVars, fileVars>>
    \/ NoneRequestStep(r) /\ UNCHANGED <<processVars, vaultVars, fileVars>>

Arrival(r) ==
    /\ CreateSecret(r) \/ RewrapSecret(r) \/ DeleteSecret(r) \/ RejectBody(r)
    /\ UNCHANGED <<vaultVars, fileVars>>

Environment ==
    \/ Crash /\ VaultOutlivesCrash /\ UNCHANGED fileVars
    \/ (\E c \in Configs : Restart(c)) /\ UNCHANGED <<vaultVars, fileVars>>
    \/ VaultLate /\ UNCHANGED <<serviceVars, fileVars>>
    \/ /\ \E k \in KeyNames, file \in KeyFiles : ReplaceKeyFile(k, file)
       /\ UNCHANGED <<processVars, input, pc, pos, cur, out, reply, vaultVars>>

\* Every request of the behaviour is over.
Quiet == up /\ (\A r \in Requests : pc[r] \in Finished) /\ UNCHANGED vars

Next ==
    \/ \E r \in Requests : Arrival(r) \/ RequestStep(r)
    \/ Environment
    \/ Quiet

Spec == Init /\ [][Next]_vars

\* A goroutine that can run eventually runs, a Vault call ends within its
\* timeout, and a reply is written or its write times out.
Fairness == \A r \in Requests : WF_vars(RequestStep(r))

FairSpec == Spec /\ Fairness

-----------------------------------------------------------------------------
(* Type invariant. *)

\* The state stays well typed, within its bounds.
TypeOK ==
    /\ up \in BOOLEAN
    /\ config \in Configs
    /\ restarts \in 0..MaxRestarts
    /\ input \in [Requests -> Inputs \union {Unreadable, NoInput}]
    /\ pc \in [Requests -> Places]
    /\ pos \in [Requests -> 0..MaxItems]
    /\ cur \in [Requests -> [checked : BOOLEAN, cipherText : CipherTexts, clearText : Texts]]
    /\ out \in [Requests -> Seq(EncryptedSecrets \union Envelopes)]
    /\ reply \in [Requests -> {0, 200, 204, 400}]
    /\ disturbed \subseteq Requests
    /\ stored \subseteq Paths
    /\ late \subseteq LateCalls
    /\ faults \in 0..MaxFaults
    /\ repeated \subseteq Requests
    /\ keyFile \in [KeyNames -> KeyFiles]
    /\ replacements \in 0..MaxReplacements

-----------------------------------------------------------------------------
(* Safety. *)

\* The text the client asked to seal with the given nonce, as it is sealed.
SealedText(n) == Normalise(input[n[1]].items[n[2]].clearText)

Named(r, cipherText) ==
    \E i \in DOMAIN input[r].items :
        input[r].items[i] # Null /\ input[r].items[i].cipherText = cipherText

\* Some purge, finished or not, names the secret.
PurgeAttempted(s) ==
    \E r \in Requests : input[r].op = "purge" /\ Named(r, s.cipherText)

\* The secret's ciphertext is an object in Vault's storage.
InStorage(s) == s.backend = "vault" /\ s.cipherText.dir # NoDir

\* A rewrap that succeeds answers, item by item, the very text that was sealed
\* in the ciphertext and signed in the signature sent, under the client's key:
\* whatever was mixed up in the request, replaced or restarted since, a 200 never
\* carries another secret's text or leaves an item out.
RewrapReturnsWhatWasSealed ==
    \A r \in Requests : input[r].op = "rewrap" /\ reply[r] = 200 =>
        /\ Len(out[r]) = Len(input[r].items)
        /\ \A i \in DOMAIN out[r] :
            LET item == input[r].items[i]
            IN  /\ out[r][i].to = input[r].rewrapKey
                /\ \A n \in {item.cipherText.ct.n, item.signature.n} \ {NoNonce} :
                    out[r][i].text = SealedText(n)

\* A create whose success reached the client has told it of every object it left
\* in Vault: an object nobody can purge comes only from a request that failed,
\* lost its reply or died, even when Vault carries out a write late.
AckedObjectsAreHeld ==
    \A p \in stored : LET c == p.ct.n[1] IN
        pc[c] = "delivered" /\ reply[c] = 200 =>
            \E s \in ToSet(out[c]) : s.cipherText = p

\* A secret a client holds stays in Vault's storage until a purge names it; no
\* failure of another request, restart or late call takes it away.
HeldIsStored ==
    \A s \in Held : InStorage(s) /\ ~PurgeAttempted(s) => s.cipherText \in stored

\* The creator of a ciphertext.
Creator(p) == p.ct.n[1]

\* What a purge has got past is gone for good, in a purge that was acknowledged
\* and in a bulk purge that stopped half way alike, unless the library repeated
\* the write that made it.
PurgedIsGone ==
    \A r \in Requests : input[r].op = "purge" =>
        \A i \in 1..pos[r] : LET s == input[r].items[i] IN
            InStorage(s) /\ Creator(s.cipherText) \notin repeated =>
                s.cipherText \notin stored

\* An acknowledged purge is final, also for what took two attempts to write.
AckedPurgeIsFinal ==
    \A r \in Requests : input[r].op = "purge" /\ reply[r] = 204 =>
        \A i \in DOMAIN input[r].items : LET s == input[r].items[i] IN
            InStorage(s) => s.cipherText \notin stored

\* Both parts of a secret a client holds are made from the text it asked to seal,
\* under one key: the one it named (vault), or one content of the key file (local
\* key), unless that file was replaced while the request worked on it.
SealedAsAsked ==
    \A s \in Held : s.backend # "none" =>
        /\ s.cipherText.ct.text = SealedText(s.cipherText.ct.n)
        /\ s.signature.text = s.cipherText.ct.text
        /\ s.backend = "vault" => {s.cipherText.ct.key, s.signature.key} = {s.keyName}
        /\ s.backend = "localkey" => \/ s.signature.key = s.cipherText.ct.key
                                     \/ s.cipherText.ct.n[1] \in disturbed

\* What may keep a secret a client holds from being rewrapped.
Unusable(item) ==
    \/ item = Null
    \/ item \notin Held
    \/ PurgeAttempted(item)
    \/ item.backend = "vault" /\ item.cipherText.ct.text = EmptyText
    \/ item.backend = "localkey" /\ replacements > 0

\* While no restart changes the configuration, a rewrap that meets no failure and
\* names only secrets as they were delivered is not refused, unless a purge
\* named one, Vault holds an empty text in it or its key file was replaced.
HeldIsRewrappable ==
    \A r \in Requests :
        /\ restarts = 0
        /\ input[r].op = "rewrap" /\ reply[r] = 400
        /\ input[r].rewrapKey \in RewrapKeys
        /\ r \notin disturbed
        => \E i \in DOMAIN input[r].items : Unusable(input[r].items[i])

\* Some content of its key file rewraps a local key secret a client holds.
CreatedIsRewrappable ==
    \A s \in Held : s.backend = "localkey" =>
        \E key \in Keys : key = s.cipherText.ct.key /\ key = s.signature.key

\* What a rewrap delivers of a text given plain is that text encoded, so that
\* decoding it gives back what the client asked to seal.
RewrapDecodesToTextGiven ==
    \A r \in Requests : input[r].op = "rewrap" /\ reply[r] = 200 =>
        \A i \in DOMAIN out[r] : LET text == out[r][i].text IN
            text # EmptyText => text.depth = 1

-----------------------------------------------------------------------------
(* Refinement. *)

\* What clients see of a request.
StateOf(r) ==
    IF pc[r] \in Finished \union {"idle"} THEN pc[r]
    ELSE IF pc[r] = "answer" THEN "answered" ELSE "open"

Promised == INSTANCE SecretStore WITH
    asked <- input, state <- [r \in Requests |-> StateOf(r)], done <- pos, told <- out,
    objects <- stored, doubtful <- repeated

\* While every token has a storage directory, the service does what SecretStore
\* promises: items are done in order and answered together or not at all, what is
\* told was stored before, what a purge got past was removed before, and only
\* failed or repeated calls leave anything to happen later.
KeepsPromises == Promised!Spec

-----------------------------------------------------------------------------
(* Liveness. *)

\* Every request the server has accepted is over in the end: answered, or
\* abandoned by its connection or by a crash, whatever Vault does.
Answered == \A r \in Requests : pc[r] # "idle" ~> pc[r] \in Finished
=============================================================================

--------------------------- MODULE RefinementProofs ---------------------------
(***************************************************************************)
(* SecretDelivery implements SecretStore, for every value of its constants *)
(* under which every token has a storage directory.                        *)
(***************************************************************************)
EXTENDS ItemProofs

-----------------------------------------------------------------------------
(* SecretStore's helpers, which the instance defines anew. *)

LEMMA SameSeal ==
    ASSUME NEW by, NEW key, NEW text, NEW n
    PROVE  Promised!Seal(by, key, text, n) = Seal(by, key, text, n)
BY DEF Promised!Seal, Seal

LEMMA SameNormalise ==
    ASSUME NEW text
    PROVE  Promised!Normalise(text) = Normalise(text)
BY DEF Promised!Normalise, Normalise, Promised!IsBase64, IsBase64

LEMMA SameNames ==
    /\ Promised!NoDir = NoDir /\ Promised!NoNonce = NoNonce
    /\ Promised!Materials = Materials /\ Promised!Names = Names
    /\ Promised!NoInput = NoInput /\ Promised!Unreadable = Unreadable
BY DEF Promised!NoDir, NoDir, Promised!NoNonce, NoNonce, Promised!Materials, Materials,
       Promised!Names, Names, Promised!NoInput, NoInput, Promised!Unreadable, Unreadable

\* Lists of fewer kinds of item are lists of more.
LEMMA MoreLists ==
    ASSUME NEW S, NEW T, S \subseteq T
    PROVE  BoundedSeq(S, MaxItems) \subseteq Promised!BoundedSeq(T, MaxItems)
BY DEF Promised!BoundedSeq, BoundedSeq, Promised!SeqOf, SeqOf

LEMMA SameItem ==
    ASSUME NEW r \in Requests
    PROVE  Promised!Item(r) = Item(r)
BY DEF Promised!Item, Item

-----------------------------------------------------------------------------
(* What clients see of one request's step. *)

\* The state functions change at r alone.
LEMMA SeenChange ==
    ASSUME NEW r \in Requests, ServiceInv, ServiceInv', Only(r)
    PROVE  /\ [q \in Requests |-> StateOf(q)]' =
                [[q \in Requests |-> StateOf(q)] EXCEPT ![r] = StateOf(r)']
           /\ pos' = [pos EXCEPT ![r] = pos'[r]]
           /\ out' = [out EXCEPT ![r] = out'[r]]
           /\ reply' = [reply EXCEPT ![r] = reply'[r]]
           /\ input' = input
<1>1. \A q \in Requests \ {r} : StateOf(q)' = StateOf(q)
  BY DEF Only, StateOf
<1>2. [q \in Requests |-> StateOf(q)]' =
        [[q \in Requests |-> StateOf(q)] EXCEPT ![r] = StateOf(r)']
  BY <1>1
<1>3. /\ pos' = [pos EXCEPT ![r] = pos'[r]] /\ out' = [out EXCEPT ![r] = out'[r]]
      /\ reply' = [reply EXCEPT ![r] = reply'[r]] /\ input' = input
  BY DEF Only, ServiceInv, ServiceTyped
<1> QED
  BY <1>2, <1>3

LEMMA States ==
    ASSUME NEW r \in Requests
    PROVE  /\ pc[r] \in Working => StateOf(r) = "open"
           /\ pc[r] = "answer" => StateOf(r) = "answered"
           /\ pc[r] \in {"idle", "delivered", "lost"} => StateOf(r) = pc[r]
BY DEF StateOf, Working, Steps, Finished

\* What r does not change, nobody changes.
LEMMA Steady ==
    ASSUME NEW r \in Requests, ServiceInv, ServiceInv', Only(r)
    PROVE  /\ StateOf(r)' = StateOf(r) => UNCHANGED [q \in Requests |-> StateOf(q)]
           /\ pos'[r] = pos[r] => UNCHANGED pos
           /\ out'[r] = out[r] => UNCHANGED out
           /\ reply'[r] = reply[r] => UNCHANGED reply
<1>1. /\ pos \in [Requests -> 0..MaxItems] /\ pos' \in [Requests -> 0..MaxItems]
      /\ out \in [Requests -> Seq(EncryptedSecrets \union Envelopes)]
      /\ out' \in [Requests -> Seq(EncryptedSecrets \union Envelopes)]
      /\ reply \in [Requests -> {0, 200, 204, 400}]
      /\ reply' \in [Requests -> {0, 200, 204, 400}]
  BY DEF ServiceInv, ServiceTyped
<1>2. \A q \in Requests \ {r} :
        StateOf(q)' = StateOf(q) /\ pos'[q] = pos[q] /\ out'[q] = out[q] /\ reply'[q] = reply[q]
  BY DEF Only, StateOf
<1>3. StateOf(r)' = StateOf(r) => UNCHANGED [q \in Requests |-> StateOf(q)]
  BY <1>2
<1> QED
  BY <1>1, <1>2, <1>3

\* A request that does not leave "open" is seen to stay as it is.
LEMMA SeenSame ==
    ASSUME NEW r \in Requests, ServiceInv, ServiceInv', Only(r),
           StateOf(r)' = StateOf(r), UNCHANGED <<pos[r], out[r], reply[r]>>
    PROVE  UNCHANGED Promised!requests
BY Steady DEF Only, Promised!requests

\* A request at work on an item has one to do.
LEMMA SeenDoing ==
    ASSUME NEW r \in Requests, ServiceInv, pc[r] \in Steps
    PROVE  Promised!Doing(r, input[r].op)
<1>1. pos[r] < Len(input[r].items) /\ Acceptable(Item(r)) /\ pc[r] \in Working
  BY DEF ServiceInv, Work, WorkOf, Working
<1> QED
  BY <1>1, SameItem, States DEF Promised!Doing, Acceptable

-----------------------------------------------------------------------------
(* What is written to the storage comes from the items of creates. *)

Writable(p) ==
    \E c \in Requests :
        /\ input[c].op = "create"
        /\ \E i \in DOMAIN input[c].items :
            input[c].items[i] # Null /\ p \in Promised!ObjectsOf(c, i)

LEMMA ObjectShape ==
    ASSUME NEW c, NEW i, NEW p \in Promised!ObjectsOf(c, i)
    PROVE  p.ct.by = "vault" /\ p.ct.n = <<c, i>>
BY DEF Promised!ObjectsOf, Promised!Seal

WritesInv ==
    /\ \A p \in stored : Writable(p)
    /\ \A c \in late : c.call = "put" => Writable(c.path)

\* The ciphertext in hand is one the next item may be sealed to.
LEMMA SealedInHand ==
    ASSUME NEW r \in Requests, ServiceInv, HandOf(r), pc[r] \in {"store", "sign"},
           Item(r).backend = "vault"
    PROVE  /\ cur[r].cipherText \in CipherTexts
           /\ cur[r].cipherText.ct =
                Seal("vault", Item(r).keyName, Normalise(Item(r).clearText), <<r, pos[r] + 1>>)
<1>1. cur[r].cipherText \in CipherTexts
  BY DEF ServiceInv, ServiceTyped
<1> DEFINE ct == cur[r].cipherText.ct
<1>2. ct \in Seals
  BY <1>1 DEF CipherTexts
<1>3. /\ ct.by = "vault" /\ ct.key = Item(r).keyName /\ ct.n = <<r, pos[r] + 1>>
      /\ ct.text = Normalise(Item(r).clearText)
  BY DEF HandOf, Fits, Nonce
<1> HIDE DEF ct
<1>4. ct = Seal("vault", Item(r).keyName, Normalise(Item(r).clearText), <<r, pos[r] + 1>>)
  BY <1>2, <1>3 DEF Seals, Seal
<1> QED
  BY <1>1, <1>4 DEF ct

LEMMA PathIsObject ==
    ASSUME NEW r \in Requests, ServiceInv, HandOf(r), pc[r] = "store"
    PROVE  PathOf(r) \in Promised!ObjectsOf(r, pos[r] + 1)
<1>1. Item(r).backend = "vault" /\ config.vault \in StorageDirs
  <2>1. /\ Item(r).backend = "vault" /\ config.vault # NoDir /\ Acceptable(Item(r))
        /\ config \in AllConfigs
    BY ServiceAssumption DEF ServiceInv, ServiceTyped, Work, WorkOf, Steps
  <2> QED
    BY <2>1 DEF Acceptable, Configured, AllConfigs
<1> DEFINE ct == Seal("vault", Item(r).keyName, Normalise(Item(r).clearText), <<r, pos[r] + 1>>)
<1>2. PathOf(r) = [dir |-> config.vault, ct |-> ct]
  BY <1>1, SealedInHand DEF PathOf, CipherTexts
<1>3. ct = Promised!Seal("vault", Item(r).keyName,
                         Promised!Normalise(Item(r).clearText), <<r, pos[r] + 1>>)
  BY SameSeal, SameNormalise
<1> HIDE DEF ct
<1> QED
  BY <1>1, <1>2, <1>3 DEF Promised!ObjectsOf, Item

LEMMA PathWritable ==
    ASSUME NEW r \in Requests, ServiceInv, HandOf(r), pc[r] = "store"
    PROVE  Writable(PathOf(r))
<1>1. input[r].op = "create" /\ pc[r] \in Steps
  BY DEF Steps, ServiceInv, Work, WorkOf
<1> QED
  BY <1>1, PathIsObject, ItemAt DEF Writable

\* Objects stay writable: creates keep what they asked for.
LEMMA WritableStays ==
    ASSUME NEW p, Writable(p), \A c \in Requests : input[c].op = "create" => input'[c] = input[c]
    PROVE  Writable(p)'
BY DEF Writable, Promised!ObjectsOf

LEMMA NextWritesInv ==
    ASSUME TypeInv, StorageInv, ItemInv, WritesInv, [Next]_vars
    PROVE  WritesInv'
<1>1. ServiceInv /\ Progress /\ \A r \in Requests : HandOf(r)
  BY DEF TypeInv, StorageInv, ItemInv
<1>2. SUFFICES
        /\ \A c \in Requests : input[c].op = "create" => input'[c] = input[c]
        /\ \A p \in stored' : Writable(p)
        /\ \A c \in late' : c.call = "put" => Writable(c.path)
  BY WritableStays DEF WritesInv
<1>3. CASE \E r \in Requests : Arrival(r)
  BY <1>1, <1>3, ArrivalShape DEF WritesInv
<1>4. CASE \E r \in Requests : RequestStep(r)
  <2>1. PICK r \in Requests : Effect(r)
    BY <1>1, <1>4, RequestStepEffect
  <2>2. input' = input
    BY <2>1, EffectOnly DEF Only
  <2>3. \A p \in stored' : Writable(p)
    BY <1>1, <2>1, EffectStored, PathWritable DEF WritesInv, Writes
  <2>4. ASSUME NEW c \in late', c.call = "put"
        PROVE  Writable(c.path)
    <3>1. c \in late \/ MayBeUnderway(r, c)
      BY <2>1 DEF Effect, Moves, Writes, Fails, Repeats, Ends, Lists, Serves, Completes
    <3>2. MayBeUnderway(r, c) => pc[r] = "store" /\ c.path = PathOf(r)
      BY <2>4 DEF MayBeUnderway, Call
    <3> QED
      BY <1>1, <2>4, <3>1, <3>2, PathWritable DEF WritesInv
  <2> QED
    BY <2>2, <2>3, <2>4
<1>5. CASE Crash /\ VaultOutlivesCrash
  <2>1. UNCHANGED <<input, stored>> /\ late' \subseteq late \union Underway
    BY <1>5 DEF Crash, VaultOutlivesCrash
  <2>2. ASSUME NEW c \in Underway, c.call = "put"
        PROVE  Writable(c.path)
    <3>1. PICK r \in Requests : pc[r] = "store" /\ c = Call("put", PathOf(r), r)
      BY <2>2 DEF Underway, Call, At
    <3>2. c.path = PathOf(r)
      BY <3>1 DEF Call
    <3> QED
      BY <1>1, <3>1, <3>2, PathWritable
  <2> QED
    BY <2>1, <2>2 DEF WritesInv
<1>6. CASE VaultLate /\ UNCHANGED serviceVars
  BY <1>6 DEF VaultLate, serviceVars, requestVars, WritesInv
<1>7. CASE UNCHANGED <<input, stored, late>>
  BY <1>7 DEF WritesInv
<1>8. CASE Environment
  BY <1>5, <1>6, <1>7, <1>8 DEF Environment, Restart, requestVars, vaultVars
<1>9. CASE UNCHANGED vars
  BY <1>7, <1>9 DEF vars, serviceVars, requestVars, vaultVars
<1> QED
  BY <1>3, <1>4, <1>8, <1>9 DEF Next, Quiet

-----------------------------------------------------------------------------
(* Every step of a request is one SecretStore allows, or is not seen. *)

LEMMA MovesUnseen ==
    ASSUME NEW r \in Requests, ServiceInv, ServiceInv', Moves(r)
    PROVE  UNCHANGED Promised!store
<1>1. StateOf(r) = "open" /\ StateOf(r)' = "open"
  BY States DEF Moves, StateOf, Working, Steps, Finished
<1> QED
  BY <1>1, SeenSame DEF Moves, Promised!store

LEMMA WritesPromised ==
    ASSUME NEW r \in Requests, ServiceInv, ServiceInv', HandOf(r), Writes(r)
    PROVE  Promised!Write(r)
<1>1. StateOf(r) = "open" /\ StateOf(r)' = "open"
  BY States DEF Writes, StateOf, Working, Steps, Finished
<1>2. UNCHANGED Promised!requests
  BY <1>1, SeenSame DEF Writes
<1>3. Promised!Doing(r, "create")
  BY SeenDoing DEF Writes, Steps, ServiceInv, Work, WorkOf
<1>4. PathOf(r) \in Promised!ObjectsOf(r, pos[r] + 1)
  BY PathIsObject DEF Writes
<1> QED
  BY <1>2, <1>3, <1>4 DEF Writes, Promised!Write

LEMMA FailsPromised ==
    ASSUME NEW r \in Requests, ServiceInv, ServiceInv', Fails(r)
    PROVE  Promised!Refuse(r)
<1>1. StateOf(r) = "open" /\ StateOf(r)' = "answered"
  BY States DEF Fails, StateOf, Working, Steps, Finished
<1>2. pos' = pos
  BY Steady DEF Fails
<1> QED
  BY <1>1, <1>2, SeenChange DEF Fails, Promised!Refuse

LEMMA RepeatsPromised ==
    ASSUME NEW r \in Requests, ServiceInv, ServiceInv', Repeats(r)
    PROVE  Promised!Doubt(r) \/ UNCHANGED Promised!store
<1>1. StateOf(r)' = StateOf(r)
  BY DEF Repeats, StateOf
<1>2. UNCHANGED Promised!requests
  BY <1>1, SeenSame DEF Repeats
<1>3. pc[r] = "store" => Promised!Doing(r, "create")
  BY SeenDoing DEF Steps, ServiceInv, Work, WorkOf
<1> QED
  BY <1>2, <1>3 DEF Repeats, Only, Promised!Doubt, Promised!store

LEMMA EndsPromised ==
    ASSUME NEW r \in Requests, ServiceInv, ServiceInv', Ends(r)
    PROVE  Promised!Succeed(r) \/ Promised!Over(r)
<1>1. pos' = pos /\ out' = out
  BY Steady DEF Ends
<1>2. CASE pc[r] = "next"
  <2>1. StateOf(r) = "open" /\ StateOf(r)' = "answered"
    BY <1>2 DEF Ends, StateOf, Finished
  <2> QED
    BY <1>1, <1>2, <2>1, SeenChange DEF Ends, Promised!Succeed
<1>3. CASE pc[r] = "answer"
  <2>1. StateOf(r) = "answered" /\ StateOf(r)' \in {"delivered", "lost"}
    BY <1>3 DEF Ends, StateOf, Finished
  <2>2. reply' = reply
    BY <1>3, Steady DEF Ends
  <2> QED
    BY <1>1, <2>1, <2>2, SeenChange DEF Ends, Promised!Over
<1> QED
  BY <1>2, <1>3 DEF Ends

LEMMA CompletesPromised ==
    ASSUME NEW r \in Requests, ServiceInv, ServiceInv', NEW result, Completes(r, result)
    PROVE  Promised!Advance(r, result)
<1>1. Only(r) /\ StateOf(r)' = StateOf(r)
  BY States DEF Completes, StateOf, Working, Steps, Finished
<1>2. UNCHANGED <<[q \in Requests |-> StateOf(q)], reply>>
  BY <1>1, Steady DEF Completes
<1> QED
  BY <1>1, <1>2, SeenChange DEF Completes, Promised!Advance

\* The result a step adds is the one its kinds speak of.
LEMMA SameResult ==
    ASSUME NEW r \in Requests, ServiceInv, NEW s, NEW t, out[r] \o <<s>> = out[r] \o <<t>>
    PROVE  s = t
<1> DEFINE Results == EncryptedSecrets \union Envelopes \union {s, t}
<1>1. out[r] \in Seq(EncryptedSecrets \union Envelopes) /\ s \in Results /\ t \in Results
  BY DEF ServiceInv, ServiceTyped
<1>2. Seq(EncryptedSecrets \union Envelopes) \subseteq Seq(Results)
  BY SeqMonotonic, Zenon
<1>3. out[r] \in Seq(Results)
  BY <1>1, <1>2
<1> HIDE DEF Results
<1> QED
  BY <1>1, <1>3, OneMore

\* A well-typed secret that is sealed from an item is one the item may become.
LEMMA SealedIsPromised ==
    ASSUME NEW r \in Requests, NEW i, NEW s \in EncryptedSecrets, SealedFrom(r, i, s)
    PROVE  s \in Promised!SecretsOf(r, i)
<1> DEFINE item == input[r].items[i]
           n == IF item.backend = "none" THEN NoNonce ELSE <<r, i>>
           keys == IF item.backend = "vault" THEN {item.keyName} ELSE Materials
           seals == {Seal(item.backend, k, Normalise(item.clearText), n) : k \in keys}
<1>1. s.cipherText \in CipherTexts /\ s.cipherText.ct \in Seals /\ s.signature \in Seals
  BY DEF EncryptedSecrets, CipherTexts
<1>2. ASSUME NEW seal \in Seals, seal.by = item.backend, seal.n = n,
             seal.text = Normalise(item.clearText),
             item.backend = "vault" => seal.key = item.keyName
      PROVE  seal \in seals
  <2>1. seal.key \in keys
    BY <1>2 DEF Seals
  <2>2. seal = Seal(item.backend, seal.key, Normalise(item.clearText), n)
    BY <1>2 DEF Seals, Seal
  <2> QED
    BY <2>1, <2>2
<1>3. s.cipherText.ct \in seals /\ s.signature \in seals
  BY <1>1, <1>2 DEF SealedFrom
<1>4. /\ s.backend = item.backend /\ s.keyName = item.keyName
      /\ s.cipherText \in [dir : StorageDirs \union {NoDir}, ct : seals]
  BY <1>1, <1>3 DEF SealedFrom, CipherTexts
<1>5. seals = {Promised!Seal(item.backend, k, Promised!Normalise(item.clearText), n) : k \in keys}
  BY SameSeal, SameNormalise
<1> HIDE DEF seals
<1>6. s \in [backend : {item.backend}, keyName : {item.keyName},
             cipherText : [dir : StorageDirs \union {NoDir}, ct : seals], signature : seals]
  BY <1>3, <1>4 DEF EncryptedSecrets
<1> QED
  BY <1>5, <1>6, SameNames DEF Promised!SecretsOf

\* What is sealed was stored before, and nobody could purge it yet.
LEMMA ListsPromised ==
    ASSUME NEW r \in Requests, ServiceInv, ServiceInv', StorageInv, ItemInv, PurgeInv,
           Does(r), NEW s, Lists(r, s)
    PROVE  Promised!Sealed(r)
<1>1. /\ input[r].op = "create" /\ DOMAIN out'[r] = 1..(pos[r] + 1) /\ pos[r] \in Nat
      /\ out'[r][pos[r] + 1] = s /\ out'[r] = out[r] \o <<s>>
      /\ pc[r] \in Steps /\ pc'[r] = "next" /\ UNCHANGED <<input, stored>>
  BY ListsAtEnd DEF StorageInv, Lists, Completes, Only
<1>2. SealedFrom(r, pos[r] + 1, s)
  <2>1. PICK result : Gives(r, result)
    BY <1>1 DEF Does, Handles, Drops, Removes, Replies, Steps, Finished
  <2>2. result = s
    BY <1>1, <2>1, SameResult DEF Gives
  <2> QED
    BY <1>1, <2>1, <2>2 DEF Gives
<1>3. s \in EncryptedSecrets
  <2>1. out'[r] \in Seq(EncryptedSecrets) /\ pos[r] + 1 \in DOMAIN out'[r]
    BY <1>1 DEF ServiceInv, Work, WorkOf
  <2> QED
    BY <1>1, <2>1, ElementOfSeq, LenProperties
<1>4. s.cipherText.dir # NoDir => s.cipherText \in stored
  <2> SUFFICES ASSUME s.cipherText.dir # NoDir
               PROVE  s.cipherText \in stored
    OBVIOUS
  <2> DEFINE p == s.cipherText
  <2>1. CASE pc[r] = "sign" /\ p = cur[r].cipherText
    <3>1. Kept(p) /\ Creator(p) = r
      BY <2>1 DEF StorageInv, Keeps, KeepsOf, Progress, ProgressOf, Creator, Nonce
    <3>2. ASSUME PurgeNames(p), ~ p \in stored
          PROVE  FALSE
      <4>1. PICK q \in Requests : input[q].op = "purge" /\ Named(q, p)
        BY <3>2 DEF PurgeNames
      <4>2. PICK i \in DOMAIN input[q].items :
              input[q].items[i] # Null /\ input[q].items[i].cipherText = p
        BY <4>1 DEF Named
      <4>3. p.ct.by = "vault"
        BY <2>1 DEF ItemInv, HandOf, Fits
      <4>4. InStorage(input[q].items[i])
        BY <4>1, <4>2, <4>3 DEF ItemInv, SentOf, InStorage
      <4> QED
        BY <2>1, <3>1, <4>1, <4>2, <4>4 DEF PurgeInv, PurgeOf, Delivered
    <3> QED
      BY <3>1, <3>2 DEF Kept
  <2>2. CASE ~InStorage(s)
    BY <1>2, <2>2 DEF InStorage, SealedFrom
  <2> QED
    BY <2>1, <2>2 DEF Lists
<1>5. s \in Promised!SecretsOf(r, pos[r] + 1)
  BY <1>2, <1>3, SealedIsPromised
<1>6. Promised!Doing(r, "create")
  BY <1>1, SeenDoing
<1>7. Promised!Advance(r, <<s>>)
  BY CompletesPromised DEF Lists
<1> QED
  BY <1>1, <1>4, <1>5, <1>6, <1>7, SameNames DEF Promised!Sealed

\* What is purged is out of the storage.
LEMMA PurgedIsOut ==
    ASSUME AlwaysStoring, ServiceInv, BackendTyped, ItemInv, WritesInv,
           NEW r \in Requests, pc[r] = "delete", NEW result, Serves(r, result)
    PROVE  stored' = stored \ {Item(r).cipherText}
<1> DEFINE p == Item(r).cipherText
<1>1. /\ input[r].op = "purge" /\ pos[r] + 1 \in DOMAIN input[r].items
      /\ Item(r) = input[r].items[pos[r] + 1] /\ Item(r) # Null
  BY ItemAt DEF Steps, ServiceInv, Work, WorkOf
<1>2. stored' \subseteq stored /\ \A q \in stored \ stored' : q = p
  BY DEF Serves
<1>3. p \notin stored'
  <2>1. CASE Item(r).backend # "vault"
    <3>1. p.ct.by # "vault"
      BY <1>1, <2>1 DEF ItemInv, SentOf
    <3>2. p \in stored => p.ct.by = "vault"
      BY ObjectShape DEF WritesInv, Writable
    <3> QED
      BY <1>2, <3>1, <3>2
  <2>2. CASE p.dir = NoDir
    <3>1. p \notin stored
      BY <2>2, DataAssumption DEF BackendTyped, Paths
    <3> QED
      BY <1>2, <3>1
  <2>3. CASE InStorage(Item(r))
    <3>1. Storing
      BY DEF Storing, AlwaysStoring, ServiceInv, ServiceTyped
    <3> QED
      BY <2>3, <3>1 DEF Serves
  <2> QED
    BY <2>1, <2>2, <2>3 DEF InStorage
<1> QED
  BY <1>2, <1>3

LEMMA ServesPromised ==
    ASSUME AlwaysStoring, ServiceInv, ServiceInv', BackendTyped, ItemInv, WritesInv,
           NEW r \in Requests, Does(r), NEW result, Serves(r, result)
    PROVE  Promised!Opened(r) \/ Promised!Purged(r)
<1>1. /\ pc[r] \in Steps /\ pc'[r] = "next" /\ input[r].op # "create"
      /\ Completes(r, result) /\ stored' \subseteq stored
  BY DEF Serves, Completes
<1>2. CASE pc[r] = "delete"
  <2>1. input[r].op = "purge" /\ stored' = stored \ {Item(r).cipherText}
    BY <1>2, PurgedIsOut DEF Steps, ServiceInv, Work, WorkOf
  <2>2. Removes(r)
    BY <1>1, <2>1 DEF Does, Handles, Drops, Gives, Replies, Steps, Finished
  <2>3. Completes(r, << >>)
    BY <1>1, <2>2 DEF Completes, Removes
  <2> QED
    BY <1>1, <2>1, <2>3, CompletesPromised, SeenDoing, SameItem DEF Promised!Purged
<1>3. CASE pc[r] # "delete"
  <2>1. stored' = stored /\ input[r].op = "rewrap"
    BY <1>1, <1>3 DEF Serves, Steps, ServiceInv, Work, WorkOf
  <2>2. PICK e : Gives(r, e)
    BY <1>1, <2>1 DEF Does, Handles, Drops, Removes, Replies, Steps, Finished
  <2>3. OpenedFrom(r, pos[r] + 1, e) /\ Completes(r, <<e>>)
    BY <1>1, <2>1, <2>2 DEF Gives, Completes
  <2>4. /\ e = [to |-> input[r].rewrapKey, tmp |-> r, text |-> Item(r).cipherText.ct.text]
        /\ Item(r).signature.text = Item(r).cipherText.ct.text
        /\ input[r].rewrapKey \in RewrapKeys
    BY <2>3 DEF OpenedFrom, Item
  <2> QED
    BY <1>1, <2>1, <2>3, <2>4, CompletesPromised, SeenDoing, SameItem DEF Promised!Opened
<1> QED
  BY <1>2, <1>3

LEMMA RequestStepPromised ==
    ASSUME AlwaysStoring, ServiceInv, ServiceInv', BackendTyped, StorageInv, ItemInv, PurgeInv,
           WritesInv, NEW r \in Requests, RequestStep(r)
    PROVE  Promised!Next \/ UNCHANGED Promised!store
<1>1. HandOf(r) /\ Does(r) /\ Effect(r)
  BY RequestStepDoes, RequestStepEffect DEF ItemInv
<1>2. CASE Moves(r)
  BY <1>2, MovesUnseen
<1>3. CASE Writes(r)
  BY <1>1, <1>3, WritesPromised DEF Promised!Next
<1>4. CASE Fails(r)
  BY <1>4, FailsPromised DEF Promised!Next
<1>5. CASE Repeats(r)
  BY <1>5, RepeatsPromised DEF Promised!Next
<1>6. CASE Ends(r)
  BY <1>6, EndsPromised DEF Promised!Next
<1>7. ASSUME NEW s, Lists(r, s)
      PROVE  Promised!Next
  BY <1>1, <1>7, ListsPromised DEF Promised!Next
<1>8. ASSUME NEW result, Serves(r, result)
      PROVE  Promised!Next
  BY <1>1, <1>8, ServesPromised DEF Promised!Next
<1> QED
  BY <1>1, <1>2, <1>3, <1>4, <1>5, <1>6, <1>7, <1>8 DEF Effect

-----------------------------------------------------------------------------
(* So are the other steps. *)

\* Clients put together what they know.
LEMMA ClientItemsSendable ==
    ASSUME ServiceInv
    PROVE  ClientItems \subseteq Promised!Sendable
<1>1. Held \subseteq Promised!Known
  <2> SUFFICES ASSUME NEW c \in Requests, pc[c] = "delivered", input[c].op = "create",
                      reply[c] = 200, NEW s \in ToSet(out[c])
               PROVE  s \in Promised!Known
    BY DEF Held
  <2>1. s \in Promised!ToSet(out[c])
    BY DEF Promised!ToSet, ToSet
  <2>2. c \in Promised!Informed
    BY States DEF Promised!Informed
  <2> QED
    BY <2>1, <2>2 DEF Promised!Known
<1>2. Held \subseteq EncryptedSecrets
  BY HeldType
<1>3. ASSUME NEW s \in Held, NEW t \in Held, NEW k \in Names, NEW item,
             item = [backend |-> s.backend, keyName |-> k,
                     cipherText |-> s.cipherText, signature |-> t.signature]
      PROVE  item \in Promised!Sendable
  <2>1. item \in Promised!Variants(s)
    BY <1>1, <1>3, SameNames DEF Promised!Variants
  <2> QED
    BY <1>1, <2>1 DEF Promised!Sendable
<1>4. ASSUME NEW s \in Held, NEW t \in Held, NEW item, item = [s EXCEPT !.signature = t.signature]
      PROVE  item \in Promised!Sendable
  <2>1. s.keyName \in Names
    BY <1>2 DEF EncryptedSecrets
  <2>2. item = [backend |-> s.backend, keyName |-> s.keyName,
                cipherText |-> s.cipherText, signature |-> t.signature]
    BY <1>2, <1>4 DEF EncryptedSecrets
  <2> QED
    BY <1>3, <2>1, <2>2
<1>5. ASSUME NEW s \in Held, NEW k \in KeyNames, NEW item, item = [s EXCEPT !.keyName = k]
      PROVE  item \in Promised!Sendable
  <2>1. item = [backend |-> s.backend, keyName |-> k,
                cipherText |-> s.cipherText, signature |-> s.signature]
    BY <1>2, <1>5 DEF EncryptedSecrets
  <2> QED
    BY <1>3, <2>1 DEF Names
<1>6. ASSUME NEW s \in Held
      PROVE  s \in Promised!Sendable
  <2>1. s.keyName \in Names
    BY <1>2 DEF EncryptedSecrets
  <2>2. s = [backend |-> s.backend, keyName |-> s.keyName,
             cipherText |-> s.cipherText, signature |-> s.signature]
    BY <1>2 DEF EncryptedSecrets
  <2> QED
    BY <1>3, <2>1, <2>2
<1>7. Null \in Promised!Sendable
  BY DEF Promised!Sendable
<1> SUFFICES ASSUME NEW item \in ClientItems
             PROVE  item \in Promised!Sendable
  OBVIOUS
<1> QED
  BY <1>4, <1>5, <1>6, <1>7 DEF ClientItems

LEMMA ReceivePromised ==
    ASSUME NEW r \in Requests, ServiceInv, ServiceInv', NEW in, Receive(r, in),
           UNCHANGED <<vaultVars, fileVars>>
    PROVE  /\ [q \in Requests |-> StateOf(q)][r] = "idle"
           /\ [q \in Requests |-> StateOf(q)]' =
                [[q \in Requests |-> StateOf(q)] EXCEPT ![r] = "open"]
           /\ input' = [input EXCEPT ![r] = in]
           /\ UNCHANGED <<pos, out, reply, stored, repeated>>
<1>1. pc[r] = "idle" /\ pc' = [pc EXCEPT ![r] = "next"]
  BY DEF Receive
<1>2. StateOf(r) = "idle" /\ StateOf(r)' = "open"
  BY <1>1 DEF ServiceInv, ServiceTyped, StateOf, Finished
<1>3. \A q \in Requests \ {r} : StateOf(q)' = StateOf(q)
  BY <1>1 DEF ServiceInv, ServiceTyped, StateOf
<1> QED
  BY <1>2, <1>3 DEF Receive, vaultVars

LEMMA ArrivalPromised ==
    ASSUME NEW r \in Requests, ServiceInv, ServiceInv', Arrival(r)
    PROVE  Promised!Ask(r) \/ Promised!Reject(r)
<1>1. UNCHANGED <<vaultVars, fileVars>>
  BY DEF Arrival
<1>2. CASE CreateSecret(r)
  <2>1. PICK list \in BoundedSeq(CreateItems, MaxItems) :
          Receive(r, [op |-> "create", items |-> list, rewrapKey |-> BadRewrapKey])
    BY <1>2 DEF CreateSecret
  <2>2. list \in Promised!BoundedSeq(CreateItems, MaxItems)
    BY MoreLists
  <2> QED
    BY <1>1, <2>1, <2>2, ReceivePromised DEF Promised!Ask
<1>3. ASSUME NEW op \in {"rewrap", "purge"}, NEW list \in BoundedSeq(ClientItems, MaxItems),
             NEW key \in RewrapKeys \union {BadRewrapKey},
             Receive(r, [op |-> op, items |-> list, rewrapKey |-> key])
      PROVE  Promised!Ask(r)
  <2>1. list \in Promised!BoundedSeq(Promised!Sendable, MaxItems)
    BY ClientItemsSendable, MoreLists
  <2> QED
    BY <1>1, <1>3, <2>1, ReceivePromised DEF Promised!Ask
<1>4. CASE RewrapSecret(r)
  BY <1>3, <1>4 DEF RewrapSecret
<1>5. CASE DeleteSecret(r)
  BY <1>3, <1>5 DEF DeleteSecret
<1>6. CASE RejectBody(r)
  <2>1. pc[r] = "idle" /\ pc' = [pc EXCEPT ![r] = "answer"]
    BY <1>6 DEF RejectBody
  <2>2. StateOf(r) = "idle" /\ StateOf(r)' = "answered"
    BY <2>1 DEF ServiceInv, ServiceTyped, StateOf, Finished
  <2>3. \A q \in Requests \ {r} : StateOf(q)' = StateOf(q)
    BY <2>1 DEF ServiceInv, ServiceTyped, StateOf
  <2>4. [q \in Requests |-> StateOf(q)]' =
            [[q \in Requests |-> StateOf(q)] EXCEPT ![r] = "answered"]
    BY <2>2, <2>3
  <2> QED
    BY <1>1, <1>6, <2>2, <2>4, SameNames DEF RejectBody, vaultVars, Promised!Reject
<1> QED
  BY <1>2, <1>4, <1>5, <1>6 DEF Arrival

LEMMA CrashPromised ==
    ASSUME ServiceInv, Crash, VaultOutlivesCrash
    PROVE  Promised!LoseAll
<1>1. ASSUME NEW r \in Requests
      PROVE  StateOf(r)' = IF StateOf(r) \in {"open", "answered"} THEN "lost" ELSE StateOf(r)
  BY DEF Crash, StateOf, Finished
<1>2. [r \in Requests |-> StateOf(r)]' =
        [r \in Requests |-> IF [q \in Requests |-> StateOf(q)][r] \in {"open", "answered"}
                            THEN "lost" ELSE [q \in Requests |-> StateOf(q)][r]]
  BY <1>1
<1> QED
  BY <1>2 DEF Crash, VaultOutlivesCrash, Promised!LoseAll

LEMMA LatePromised ==
    ASSUME TypeInv, StorageInv, WritesInv, VaultLate, UNCHANGED serviceVars
    PROVE  Promised!Appear \/ Promised!Vanish
<1>1. PICK c \in late :
        /\ stored' = IF c.call = "put" THEN stored \union {c.path} ELSE stored \ {c.path}
        /\ repeated' = repeated
  BY DEF VaultLate
<1>2. UNCHANGED <<Promised!requests, repeated>>
  <2>1. UNCHANGED [r \in Requests |-> StateOf(r)]
    BY DEF serviceVars, requestVars, StateOf
  <2> QED
    BY <1>1, <2>1 DEF serviceVars, requestVars, Promised!requests
<1>3. c.call \in {"put", "delete"} /\ LateOf(c)
  BY DEF TypeInv, BackendTyped, LateCalls, StorageInv, LateAccounted
<1>4. CASE c.call = "put"
  <2>1. PICK d \in Requests : /\ input[d].op = "create"
                              /\ \E i \in DOMAIN input[d].items :
                                    /\ input[d].items[i] # Null
                                    /\ c.path \in Promised!ObjectsOf(d, i)
    BY <1>4 DEF WritesInv, Writable
  <2>2. Creator(c.path) = d
    BY <2>1, ObjectShape DEF Creator
  <2>3. reply[d] = 400 \/ StateOf(d) = "lost" \/ d \in repeated
    BY <1>3, <1>4, <2>2, States DEF LateOf, Abandoned
  <2> QED
    BY <1>1, <1>2, <1>4, <2>1, <2>3 DEF Promised!Appear
<1>5. CASE c.call = "delete"
  <2>1. PurgeNames(c.path) /\ stored' = stored \ {c.path}
    BY <1>1, <1>3, <1>5 DEF LateOf
  <2> QED
    BY <1>2, <2>1 DEF PurgeNames, Named, Promised!Vanish
<1> QED
  BY <1>3, <1>4, <1>5

LEMMA StepPromised ==
    ASSUME AlwaysStoring, TypeInv, TypeInv', StorageInv, ItemInv, PurgeInv, WritesInv,
           [Next]_vars
    PROVE  Promised!Next \/ UNCHANGED Promised!store
<1>1. ServiceInv /\ ServiceInv' /\ BackendTyped
  BY DEF TypeInv
<1>2. CASE \E r \in Requests : Arrival(r)
  BY <1>1, <1>2, ArrivalPromised DEF Promised!Next
<1>3. CASE \E r \in Requests : RequestStep(r)
  BY <1>1, <1>3, RequestStepPromised
<1>4. CASE Crash /\ VaultOutlivesCrash
  BY <1>1, <1>4, CrashPromised DEF Promised!Next
<1>5. CASE VaultLate /\ UNCHANGED serviceVars
  BY <1>5, LatePromised DEF Promised!Next
<1>6. CASE UNCHANGED <<input, pc, pos, out, reply, stored, repeated>>
  <2>1. UNCHANGED [r \in Requests |-> StateOf(r)]
    BY <1>6 DEF StateOf
  <2> QED
    BY <1>6, <2>1 DEF Promised!store, Promised!requests
<1>7. CASE Environment
  BY <1>4, <1>5, <1>6, <1>7 DEF Environment, Restart, requestVars, vaultVars
<1>8. CASE UNCHANGED vars
  BY <1>6, <1>8 DEF vars, serviceVars, requestVars, vaultVars
<1> QED
  BY <1>2, <1>3, <1>7, <1>8 DEF Next, Quiet

LEMMA InitPromised ==
    ASSUME Init
    PROVE  Promised!Init
<1>1. [r \in Requests |-> StateOf(r)] = [r \in Requests |-> "idle"]
  BY DEF Init, InitService, StateOf, Finished
<1> QED
  BY <1>1, SameNames DEF Init, InitService, InitVault, Promised!Init

-----------------------------------------------------------------------------
(* The theorem. *)

\* What clients see of the service is what SecretStore allows, while every token
\* has a storage directory: items are done in order and answered together or not
\* at all, what is told was stored before, what a purge got past was removed
\* before, and only failed or repeated calls leave anything to happen later.
THEOREM PromisesAreKept ==
    ASSUME AlwaysStoring
    PROVE  Spec => KeepsPromises
<1>1. Init => PurgeInv /\ WritesInv /\ Promised!Init
  BY InitPromised DEF Init, InitService, InitVault, PurgeInv, PurgeOf, NoInput, WritesInv
<1>2. TypeInv /\ StorageInv /\ PurgeInv /\ [Next]_vars => PurgeInv'
  BY NextPurgeInv
<1>3. TypeInv /\ StorageInv /\ ItemInv /\ WritesInv /\ [Next]_vars => WritesInv'
  BY NextWritesInv
<1>4. /\ TypeInv /\ TypeInv' /\ StorageInv /\ ItemInv /\ PurgeInv /\ WritesInv
      /\ [Next]_vars
      => [Promised!Next]_(Promised!store)
  BY StepPromised
<1> QED
  BY <1>1, <1>2, <1>3, <1>4, StorageInvariance, ItemInvariance, PTL
     DEF Spec, KeepsPromises, Promised!Spec
=============================================================================

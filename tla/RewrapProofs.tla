---------------------------- MODULE RewrapProofs ----------------------------
(***************************************************************************)
(* Why SecretDelivery refuses a rewrap, for every value of its constants:  *)
(* not for a secret as a client holds it, unless a call failed, a purge    *)
(* named it, its key file was replaced or Vault holds an empty text in it. *)
(***************************************************************************)
EXTENDS ItemProofs

-----------------------------------------------------------------------------
(* The inductive invariant. *)

\* What a create makes of an item can be used under the configuration and the
\* key files it was made under.
Fresh(s) ==
    /\ ValidKeyName(s) /\ Configured(s.backend)
    /\ s.backend = "vault" => s.cipherText.dir = config.vault
    /\ s.backend = "none" => s.signature = NoneSealOf(s.cipherText.ct.text)
    /\ s.backend = "localkey" /\ replacements = 0 =>
        /\ s.cipherText.ct.key = keyFile[s.keyName].key
        /\ s.signature.key = keyFile[s.keyName].key

\* Its two parts belong together, too.
Openable(s) ==
    /\ Fresh(s)
    /\ s.cipherText.ct.by = s.backend /\ s.signature.by = s.backend
    /\ s.signature.text = s.cipherText.ct.text
    /\ s.backend # "vault" => s.cipherText.dir = NoDir
    /\ s.backend = "vault" =>
        s.cipherText.ct.key = s.keyName /\ s.signature.key = s.keyName

\* What keeps an item from being rewrapped when no call fails.
Blocked(item) ==
    \/ item = Null
    \/ ~Openable(item)
    \/ PurgeAttempted(item)
    \/ item.backend = "vault" /\ item.cipherText.ct.text = EmptyText
    \/ item.backend = "localkey" /\ replacements > 0

\* What a request has in hand at a step of its item.
Fit(r, step, locals) ==
    /\ step = "sign" /\ Item(r).backend = "vault" => locals.cipherText.dir = config.vault
    /\ step = "sign" /\ Item(r).backend = "localkey" /\ replacements = 0 =>
        locals.cipherText.ct.key = FileOf(r).key
    /\ step = "decrypt" /\ Item(r).backend = "vault" =>
        locals.cipherText = IF Storing THEN Raw(Item(r).cipherText.ct) ELSE Item(r).cipherText

Holding(r) == Fit(r, pc[r], cur[r])

\* The secrets a create has made so far.
FreshOf(r) == input[r].op = "create" => \A i \in DOMAIN out[r] : Fresh(out[r][i])

\* A rewrap that met no failure was refused for one of its items.
Excuse(r) ==
    input[r].op = "rewrap" /\ input[r].rewrapKey \in RewrapKeys /\ r \notin disturbed =>
        \E i \in DOMAIN input[r].items : Blocked(input[r].items[i])

RefusedOf(r) == reply[r] = 400 => Excuse(r)

\* What a rewrap was sent is, save for a name or a signature, what a client holds.
SentHeld(r) ==
    input[r].op = "rewrap" =>
        \A i \in DOMAIN input[r].items : LET item == input[r].items[i] IN
            item # Null =>
                \E s \in Held : s.backend = item.backend /\ s.cipherText = item.cipherText

FilesSafe ==
    replacements = 0 => \A k \in KeyNames : keyFile[k].kind = "safe" /\ keyFile[k].key \in Keys

RewrapInv ==
    /\ FilesSafe
    /\ \A r \in Requests : SentHeld(r)
    /\ restarts = 0 => \A r \in Requests : Holding(r) /\ FreshOf(r) /\ RefusedOf(r)

-----------------------------------------------------------------------------
(* How a step of a request keeps it. *)

\* It goes on within an item, or is refused for a reason, or adds a secret that
\* can be used to the response, or is done with something else.
Warranted(r) ==
    \/ /\ pc'[r] \in Steps /\ out'[r] = out[r] /\ reply'[r] = reply[r] /\ Holding(r)'
    \/ /\ pc'[r] = "answer" /\ out'[r] = << >> /\ Excuse(r)'
    \/ /\ pc'[r] = "next" /\ reply'[r] = reply[r]
       /\ \E result : /\ out'[r] = out[r] \o <<result>>
                      /\ input[r].op = "create" => Fresh(result)
    \/ /\ pc'[r] \notin Steps /\ out'[r] = out[r] /\ reply'[r] \in {reply[r], 200, 204}

\* The state a step of a request leaves alone, and the reasons it may be refused for.
Still == UNCHANGED <<input, config, keyFile, replacements>>

LEMMA StillFresh ==
    ASSUME Still, NEW s
    PROVE  Fresh(s)' = Fresh(s)
BY DEF Still, Fresh, ValidKeyName, Configured

\* What keeps an item of a request from being rewrapped still does.
LEMMA BlockedStays ==
    ASSUME NEW q \in Requests, input'[q] = input[q], config' = config,
           \/ UNCHANGED <<keyFile, replacements>>
           \/ replacements' > 0 /\ replacements' # 0,
           \A p \in Requests : input[p].op = "purge" => input'[p] = input[p],
           NEW i, Blocked(input[q].items[i])
    PROVE  Blocked(input[q].items[i])'
<1> DEFINE item == input[q].items[i]
<1>1. item' = item /\ Blocked(item)
  OBVIOUS
<1>2. PurgeAttempted(item) => PurgeAttempted(item)'
  BY DEF PurgeAttempted, Named
<1>3. Openable(item)' => Openable(item) \/ (item.backend = "localkey" /\ replacements' > 0)
  BY <1>1 DEF Openable, Fresh, ValidKeyName, Configured
<1> HIDE DEF item
<1>4. Blocked(item)'
  BY <1>1, <1>2, <1>3 DEF Blocked
<1> QED
  BY <1>4 DEF item

LEMMA ExcuseStays ==
    ASSUME NEW q \in Requests, input'[q] = input[q], config' = config,
           \/ UNCHANGED <<keyFile, replacements>>
           \/ replacements' > 0 /\ replacements' # 0,
           \A p \in Requests : input[p].op = "purge" => input'[p] = input[p],
           disturbed \subseteq disturbed', Excuse(q)
    PROVE  Excuse(q)'
<1>1. \A i \in DOMAIN input[q].items : Blocked(input[q].items[i]) => Blocked(input[q].items[i])'
  BY BlockedStays
<1> QED
  BY <1>1 DEF Excuse

\* A refusal is warranted when the item in hand is to blame, or a failure.
LEMMA AbortWarranted ==
    ASSUME NEW r \in Requests, ServiceInv, Still, Abort(r), disturbed \subseteq disturbed',
           \/ input[r].op # "rewrap"
           \/ input[r].rewrapKey \notin RewrapKeys
           \/ r \in disturbed'
           \/ pc[r] \in Working /\ pos[r] < Len(input[r].items) /\ Blocked(Item(r))
    PROVE  Warranted(r)
<1>1. pc'[r] = "answer" /\ out'[r] = << >> /\ input'[r] = input[r]
  BY DEF ServiceInv, ServiceTyped, Abort
<1>2. CASE pc[r] \in Working /\ pos[r] < Len(input[r].items) /\ Blocked(Item(r))
  <2>1. input[r] \in Inputs /\ pos[r] \in Nat
    BY <1>2, DataAssumption DEF ServiceInv, ServiceTyped, Work, WorkOf, Working
  <2>2. pos[r] + 1 \in DOMAIN input[r].items
    BY <1>2, <2>1, InputItems, LenProperties
  <2>3. Blocked(input[r].items[pos[r] + 1])
    BY <1>2 DEF Item
  <2>4. PICK i \in DOMAIN input[r].items : Blocked(input[r].items[i])
    BY <2>2, <2>3
  <2>5. Blocked(input[r].items[i])'
    BY <2>4, BlockedStays DEF Still
  <2> QED
    BY <1>1, <2>4, <2>5 DEF Excuse, Warranted
<1> QED
  BY <1>1, <1>2 DEF Excuse, Warranted

LEMMA GoToWarranted ==
    ASSUME NEW r \in Requests, ServiceInv, Still,
           NEW step \in Steps, NEW locals, GoTo(r, step, locals), Fit(r, step, locals)
    PROVE  Warranted(r)
<1>1. pc'[r] = step /\ cur'[r] = locals /\ out'[r] = out[r] /\ reply'[r] = reply[r]
  BY DEF ServiceInv, ServiceTyped, GoTo
<1>2. Item(r)' = Item(r) /\ FileOf(r)' = FileOf(r) /\ Storing' = Storing
  BY DEF GoTo, Still, Item, FileOf, Storing
<1>3. Holding(r)'
  BY <1>1, <1>2 DEF Holding, Fit, Still
<1> QED
  BY <1>1, <1>3 DEF Warranted

LEMMA FinishWarranted ==
    ASSUME NEW r \in Requests, ServiceInv, NEW result, FinishItem(r, <<result>>),
           input[r].op = "create" => Fresh(result)
    PROVE  Warranted(r)
<1>1. pc'[r] = "next" /\ reply'[r] = reply[r] /\ out'[r] = out[r] \o <<result>>
  BY DEF ServiceInv, ServiceTyped, FinishItem
<1> QED
  BY <1>1 DEF Warranted

LEMMA RemoveWarranted ==
    ASSUME NEW r \in Requests, ServiceInv, FinishItem(r, << >>)
    PROVE  Warranted(r)
<1>1. pc'[r] = "next" /\ reply'[r] = reply[r] /\ out'[r] = out[r] \o << >>
  BY DEF ServiceInv, ServiceTyped, FinishItem
<1>2. out'[r] = out[r]
  BY <1>1, ConcatEmptySeq DEF ServiceInv, ServiceTyped
<1> QED
  BY <1>1, <1>2 DEF Warranted, Steps

\* The result of a rewrap is no secret; without a key for it there is none.
LEMMA WrapWarranted ==
    ASSUME NEW r \in Requests, ServiceInv, Still, pc[r] \in {"decrypt", "verify"},
           disturbed \subseteq disturbed', NEW text, WrapItem(r, text)
    PROVE  Warranted(r)
<1>1. input[r].op = "rewrap"
  BY DEF ServiceInv, Work, WorkOf
<1> QED
  BY <1>1, AbortWarranted, FinishWarranted DEF WrapItem, ParsesAsPublicKey

LEMMA HandlerWarranted ==
    ASSUME NEW r \in Requests, ServiceInv, Progress, Still, disturbed \subseteq disturbed',
           HandlerStep(r)
    PROVE  Warranted(r)
<1>1. CASE RefuseItem(r)
  <2>1. /\ pc[r] \in Working /\ pos[r] < Len(input[r].items) /\ Abort(r)
        /\ ~Acceptable(Item(r))
    BY <1>1 DEF RefuseItem, Working
  <2>2. Blocked(Item(r))
    BY <2>1 DEF Acceptable, Blocked, Openable, Fresh
  <2> QED
    BY <2>1, <2>2, AbortWarranted
<1>2. CASE TakeItem(r)
  <2> DEFINE locals == IF input[r].op = "create"
                       THEN [Blank EXCEPT !.clearText = Normalise(Item(r).clearText)]
                       ELSE Blank
  <2>1. GoTo(r, FirstStep(r), locals) /\ input[r] \in Inputs
    BY <1>2 DEF TakeItem, ServiceInv, Work, WorkOf
  <2>2. input[r].op \in {"create", "rewrap", "purge"}
    BY <2>1, InputItems
  <2>3. /\ FirstStep(r) \in Steps \ {"sign"}
        /\ FirstStep(r) = "decrypt" => Item(r).backend # "vault"
    BY <2>2 DEF FirstStep, Steps
  <2> HIDE DEF locals
  <2> QED
    BY <2>1, <2>3, GoToWarranted DEF Fit
<1>3. CASE Finish(r)
  BY <1>3 DEF Finish, Warranted, Steps, ServiceInv, ServiceTyped
<1>4. CASE Deliver(r)
  BY <1>4 DEF Deliver, Warranted, Steps, Finished, ServiceInv, ServiceTyped
<1> QED
  BY <1>1, <1>2, <1>3, <1>4 DEF HandlerStep

LEMMA SealWarranted ==
    ASSUME NEW r \in Requests, ServiceInv, Holding(r), pc[r] = "sign",
           NEW key, SealItem(r, Seal(Item(r).backend, key, cur[r].clearText, Nonce(r))),
           Item(r).backend \in {"vault", "localkey"},
           Item(r).backend = "localkey" => key = FileOf(r).key
    PROVE  Warranted(r)
<1> DEFINE signature == Seal(Item(r).backend, key, cur[r].clearText, Nonce(r))
           secret == [backend |-> Item(r).backend, keyName |-> Item(r).keyName,
                      cipherText |-> cur[r].cipherText, signature |-> signature]
<1>1. FinishItem(r, <<secret>>) /\ Acceptable(Item(r))
  BY DEF SealItem, Steps, ServiceInv, Work, WorkOf
<1>2. signature.key = key
  BY DEF Seal
<1>3. /\ secret.backend = Item(r).backend /\ secret.keyName = Item(r).keyName
      /\ secret.cipherText = cur[r].cipherText /\ secret.signature = signature
  OBVIOUS
<1> HIDE DEF signature, secret
<1>4. Fresh(secret)
  BY <1>1, <1>2, <1>3 DEF Fresh, Acceptable, ValidKeyName, Holding, Fit, FileOf
<1> QED
  BY <1>1, <1>4, FinishWarranted

\* A path a client holds leads to an object, unless a purge named it.
LEMMA MissingIsPurged ==
    ASSUME NEW r \in Requests, ServiceInv, SentHeld(r), HeldIsStored, pc[r] = "fetch",
           Item(r).backend = "vault", InStorageDir(Item(r).cipherText),
           Item(r).cipherText \notin stored
    PROVE  PurgeAttempted(Item(r))
<1>1. pc[r] \in Steps /\ input[r].op = "rewrap"
  BY DEF Steps, ServiceInv, Work, WorkOf
<1>2. PICK s \in Held : s.backend = "vault" /\ s.cipherText = Item(r).cipherText
  BY <1>1, ItemAt DEF SentHeld
<1>3. InStorage(s)
  BY <1>2 DEF InStorage, InStorageDir, Storing
<1> QED
  BY <1>2, <1>3 DEF HeldIsStored, PurgeAttempted

LEMMA VaultWarranted ==
    ASSUME NEW r \in Requests, ServiceInv, HandOf(r), Holding(r), SentHeld(r), HeldIsStored,
           Still, disturbed \subseteq disturbed', VaultRequestStep(r)
    PROVE  Warranted(r)
<1> USE DEF At
<1>1. ASSUME NEW pending, VaultFails(r, pending)
      PROVE  Warranted(r)
  BY <1>1, AbortWarranted DEF VaultFails
<1>2. ASSUME NEW call, VaultRepeats(call), pc[r] \in Steps
      PROVE  Warranted(r)
  BY <1>2 DEF VaultRepeats, requestVars, Warranted, Still, Holding, Fit, Item, FileOf, Storing
<1>3. CASE VaultEncrypt(r)
  <2> DEFINE locals == [cur[r] EXCEPT !.cipherText =
                Raw(Seal("vault", Item(r).keyName, cur[r].clearText, Nonce(r)))]
             step == IF Storing THEN "store" ELSE "sign"
  <2>1. GoTo(r, step, locals) /\ Item(r).backend = "vault"
    BY <1>3 DEF VaultEncrypt
  <2>2. locals.cipherText.dir = NoDir
    BY DEF ServiceInv, ServiceTyped, Raw
  <2>3. step \in {"store", "sign"} /\ (step = "sign" => config.vault = NoDir)
    BY DEF Storing
  <2> HIDE DEF locals, step
  <2> QED
    BY <2>1, <2>2, <2>3, GoToWarranted DEF Fit, Steps
<1>4. CASE VaultStore(r)
  <2> DEFINE locals == [cur[r] EXCEPT !.cipherText = PathOf(r)]
  <2>1. CASE GoTo(r, "sign", locals)
    <3>1. locals.cipherText.dir = config.vault
      BY DEF PathOf, ServiceInv, ServiceTyped, CipherTexts
    <3> HIDE DEF locals
    <3> QED
      BY <1>4, <2>1, <3>1, GoToWarranted DEF VaultStore, Fit, Steps
  <2> QED
    BY <1>1, <1>4, <2>1 DEF VaultStore
<1>5. CASE VaultSign(r)
  BY <1>5, SealWarranted DEF VaultSign
<1>6. CASE VaultFetch(r)
  <2> DEFINE sent == Item(r).cipherText
             locals == [cur[r] EXCEPT !.cipherText = IF Storing THEN Raw(sent.ct) ELSE sent]
  <2>1. pc[r] = "fetch" /\ Item(r).backend = "vault"
    BY <1>6 DEF VaultFetch
  <2>2. CASE GoTo(r, "decrypt", locals)
    <3>1. locals.cipherText = IF Storing THEN Raw(sent.ct) ELSE sent
      BY DEF ServiceInv, ServiceTyped
    <3> HIDE DEF locals
    <3> QED
      BY <2>1, <2>2, <3>1, GoToWarranted DEF Fit, Steps
  <2>3. CASE Abort(r) /\ Storing /\ ~InStorageDir(sent)
    <3>1. Blocked(Item(r))
      BY <2>1, <2>3 DEF Blocked, Openable, Fresh, InStorageDir
    <3> QED
      BY <2>1, <2>3, <3>1, AbortWarranted DEF ServiceInv, Work, WorkOf, Working, Steps
  <2>4. CASE Abort(r) /\ InStorageDir(sent) /\ sent \notin stored
    <3>1. Blocked(Item(r))
      BY <2>1, <2>4, MissingIsPurged DEF Blocked
    <3> QED
      BY <2>1, <2>4, <3>1, AbortWarranted DEF ServiceInv, Work, WorkOf, Working, Steps
  <2> QED
    BY <1>6, <2>2, <2>3, <2>4 DEF VaultFetch
<1>7. CASE VaultDecrypt(r)
  <2> DEFINE sent == cur[r].cipherText
             opens == /\ sent.dir = NoDir /\ sent.ct.by = "vault"
                      /\ sent.ct.key = Item(r).keyName /\ sent.ct.text # EmptyText
             locals == [cur[r] EXCEPT !.clearText = sent.ct.text]
  <2>1. pc[r] = "decrypt" /\ Item(r).backend = "vault"
    BY <1>7 DEF VaultDecrypt
  <2>2. CASE GoTo(r, "verify", locals)
    <3> HIDE DEF locals
    <3> QED
      BY <2>2, GoToWarranted DEF Fit, Steps
  <2>3. CASE Abort(r) /\ ~opens
    <3>1. /\ sent.ct = Item(r).cipherText.ct
          /\ sent.dir = IF Storing THEN NoDir ELSE Item(r).cipherText.dir
      BY <2>1 DEF Holding, Fit, Raw
    <3>2. Blocked(Item(r))
      BY <2>1, <2>3, <3>1 DEF Blocked, Openable, Fresh, Storing
    <3> QED
      BY <2>1, <2>3, <3>2, AbortWarranted DEF ServiceInv, Work, WorkOf, Working, Steps
  <2> QED
    BY <1>7, <2>2, <2>3 DEF VaultDecrypt
<1>8. CASE VaultVerify(r)
  <2>1. pc[r] = "verify" /\ Item(r).backend = "vault"
    BY <1>8 DEF VaultVerify
  <2>2. CASE WrapItem(r, cur[r].clearText)
    BY <2>1, <2>2, WrapWarranted
  <2>3. CASE /\ Abort(r)
             /\ ~(/\ Item(r).signature.by = "vault"
                  /\ Item(r).signature.key = Item(r).keyName
                  /\ Item(r).signature.text = cur[r].clearText)
    <3>1. cur[r].clearText = Item(r).cipherText.ct.text
      BY <2>1 DEF HandOf, Fits
    <3>2. Blocked(Item(r))
      BY <2>1, <2>3, <3>1 DEF Blocked, Openable
    <3> QED
      BY <2>1, <2>3, <3>2, AbortWarranted DEF ServiceInv, Work, WorkOf, Working, Steps
  <2> QED
    BY <1>8, <2>2, <2>3 DEF VaultVerify
<1>9. CASE VaultDelete(r)
  <2>1. input[r].op = "purge"
    BY <1>9 DEF VaultDelete, ServiceInv, Work, WorkOf
  <2>2. CASE Abort(r)
    BY <2>1, <2>2, AbortWarranted
  <2> QED
    BY <1>1, <1>9, <2>2, RemoveWarranted DEF VaultDelete
<1>10. CASE VaultCallFails(r)
  BY <1>1, <1>10 DEF VaultCallFails
<1>11. CASE VaultRepeatStore(r) \/ VaultRepeatDelete(r)
  BY <1>2, <1>11 DEF VaultRepeatStore, VaultRepeatDelete, Steps
<1> QED
  BY <1>3, <1>4, <1>5, <1>6, <1>7, <1>8, <1>9, <1>10, <1>11 DEF VaultRequestStep

LEMMA LocalWarranted ==
    ASSUME NEW r \in Requests, TypeInv, HandOf(r), Holding(r), FilesSafe,
           Still, disturbed \subseteq disturbed', LocalRequestStep(r)
    PROVE  Warranted(r)
<1> USE DEF At
<1>1. ServiceInv /\ replacements \in Nat
  BY FileAssumption DEF TypeInv, BackendTyped
\* A file that was not replaced can be loaded.
<1>2. ASSUME pc[r] \in Steps, Item(r).backend = "localkey", replacements = 0
      PROVE  FileOf(r).kind = "safe" /\ Readable(r) /\ FileOf(r).key \in Keys
  <2>1. Item(r).keyName \in KeyNames
    BY <1>1, <1>2, ItemType
  <2> QED
    BY <1>2, <2>1 DEF FilesSafe, FileOf, Readable
\* So a failure to do so has its replacement to blame, and others the item.
<1>3. ASSUME pc[r] \in Steps, Item(r).backend = "localkey", Abort(r),
             replacements # 0 \/ ~Openable(Item(r)) \/ input[r].op # "rewrap"
      PROVE  Warranted(r)
  <2>1. pc[r] \in Working /\ pos[r] < Len(input[r].items)
    BY <1>1, <1>3 DEF ServiceInv, Work, WorkOf, Working
  <2>2. input[r].op # "rewrap" \/ Blocked(Item(r))
    BY <1>1, <1>3 DEF Blocked
  <2> QED
    BY <1>1, <1>3, <2>1, <2>2, AbortWarranted
<1>4. CASE CheckKeyFile(r)
  <2> DEFINE locals == [cur[r] EXCEPT !.checked = TRUE]
  <2>1. pc[r] \in Steps /\ Item(r).backend = "localkey"
    BY <1>4 DEF CheckKeyFile, KeySteps, Steps
  <2>2. CASE GoTo(r, pc[r], locals)
    <3>1. locals.cipherText = cur[r].cipherText
      BY <1>1 DEF ServiceInv, ServiceTyped
    <3> HIDE DEF locals
    <3> QED
      BY <1>1, <2>1, <2>2, <3>1, GoToWarranted DEF Holding, Fit
  <2>3. CASE Abort(r) /\ FileOf(r).kind # "safe"
    BY <1>2, <1>3, <2>1, <2>3
  <2> QED
    BY <1>4, <2>2, <2>3 DEF CheckKeyFile
<1>5. CASE LocalEncrypt(r)
  <2> DEFINE locals == [cur[r] EXCEPT !.checked = FALSE, !.cipherText =
                Raw(Seal("localkey", FileOf(r).key, cur[r].clearText, Nonce(r)))]
  <2>1. /\ pc[r] = "encrypt" /\ Item(r).backend = "localkey"
        /\ Abort(r) \/ GoTo(r, "sign", locals)
    BY <1>5 DEF LocalEncrypt, Loading
  <2>2. input[r].op = "create"
    BY <1>1, <2>1 DEF ServiceInv, Work, WorkOf
  <2>3. locals.cipherText.ct.key = FileOf(r).key
    BY <1>1 DEF ServiceInv, ServiceTyped, Raw, Seal
  <2> HIDE DEF locals
  <2> QED
    BY <1>1, <1>3, <2>1, <2>2, <2>3, GoToWarranted DEF Fit, Steps
<1>6. CASE LocalSign(r)
  <2>1. /\ pc[r] = "sign" /\ Item(r).backend = "localkey"
        /\ \/ Abort(r)
           \/ SealItem(r, Seal("localkey", FileOf(r).key, cur[r].clearText, Nonce(r)))
    BY <1>6 DEF LocalSign, Loading
  <2>2. input[r].op = "create"
    BY <1>1, <2>1 DEF ServiceInv, Work, WorkOf
  <2> QED
    BY <1>1, <1>3, <2>1, <2>2, SealWarranted DEF Steps
<1>7. CASE LocalDecrypt(r)
  <2> DEFINE sent == Item(r).cipherText
             opens == /\ Readable(r) /\ sent.dir = NoDir /\ sent.ct.by = "localkey"
                      /\ FileOf(r).key \in Keys /\ sent.ct.key = FileOf(r).key
             locals == [cur[r] EXCEPT !.checked = FALSE, !.clearText = sent.ct.text]
  <2>1. /\ pc[r] = "decrypt" /\ pc[r] \in Steps /\ Item(r).backend = "localkey"
        /\ \/ Abort(r) /\ ~opens
           \/ GoTo(r, "verify", locals)
    BY <1>7 DEF LocalDecrypt, Loading, Steps
  <2>2. ~opens => replacements # 0 \/ ~Openable(Item(r))
    BY <1>2, <2>1 DEF Openable, Fresh, FileOf
  <2> HIDE DEF locals, opens
  <2> QED
    BY <1>1, <1>3, <2>1, <2>2, GoToWarranted DEF Fit, Steps
<1>8. CASE LocalVerify(r)
  <2> DEFINE signature == Item(r).signature
             verifies == /\ Readable(r) /\ signature.by = "localkey"
                         /\ signature.key = FileOf(r).key
                         /\ signature.text = cur[r].clearText
  <2>1. /\ pc[r] = "verify" /\ pc[r] \in Steps /\ Item(r).backend = "localkey"
        /\ \/ Abort(r) /\ ~verifies
           \/ WrapItem(r, cur[r].clearText)
    BY <1>8 DEF LocalVerify, Loading, Steps
  <2>2. cur[r].clearText = Item(r).cipherText.ct.text
    BY <2>1 DEF HandOf, Fits
  <2>3. ~verifies => replacements # 0 \/ ~Openable(Item(r))
    BY <1>2, <2>1, <2>2 DEF Openable, Fresh, FileOf
  <2> HIDE DEF verifies
  <2> QED
    BY <1>1, <1>3, <2>1, <2>3, WrapWarranted
<1>9. CASE LocalDelete(r)
  BY <1>1, <1>9, RemoveWarranted DEF LocalDelete
<1> QED
  BY <1>4, <1>5, <1>6, <1>7, <1>8, <1>9 DEF LocalRequestStep

LEMMA NoneWarranted ==
    ASSUME NEW r \in Requests, ServiceInv, Still, disturbed \subseteq disturbed',
           NoneRequestStep(r)
    PROVE  Warranted(r)
<1> USE DEF At
<1>1. CASE NoneSeal(r)
  <2> DEFINE secret == [backend |-> "none", keyName |-> Item(r).keyName,
                        cipherText |-> Raw(NoneSealOf(cur[r].clearText)),
                        signature |-> NoneSealOf(cur[r].clearText)]
  <2>1. /\ FinishItem(r, <<secret>>) /\ Item(r).backend = "none"
        /\ pc[r] \in Steps /\ Acceptable(Item(r))
    BY <1>1 DEF NoneSeal, Steps, ServiceInv, Work, WorkOf
  <2>2. /\ secret.backend = "none"
        /\ secret.signature = NoneSealOf(secret.cipherText.ct.text)
    BY DEF Raw, NoneSealOf, Seal
  <2> HIDE DEF secret
  <2>3. Fresh(secret)
    BY <2>1, <2>2 DEF Fresh, Acceptable, ValidKeyName
  <2> QED
    BY <2>1, <2>3, FinishWarranted
<1>2. CASE NoneRewrap(r)
  <2> DEFINE sent == Item(r).cipherText
             opens == /\ sent.dir = NoDir /\ sent.ct.by = "none"
                      /\ Item(r).signature = NoneSealOf(sent.ct.text)
  <2>1. /\ pc[r] = "decrypt" /\ Item(r).backend = "none"
        /\ \/ Abort(r) /\ ~opens
           \/ WrapItem(r, sent.ct.text)
    BY <1>2 DEF NoneRewrap
  <2>2. ~opens => Blocked(Item(r))
    BY <2>1 DEF Blocked, Openable, Fresh
  <2> HIDE DEF opens
  <2>3. pc[r] \in Working /\ pos[r] < Len(input[r].items)
    BY <2>1 DEF ServiceInv, Work, WorkOf, Working, Steps
  <2> QED
    BY <2>1, <2>2, <2>3, AbortWarranted, WrapWarranted
<1>3. CASE NoneDelete(r)
  BY <1>3, RemoveWarranted DEF NoneDelete
<1> QED
  BY <1>1, <1>2, <1>3 DEF NoneRequestStep

LEMMA RequestStepStill ==
    ASSUME NEW r \in Requests, ServiceInv, HandOf(r), RequestStep(r)
    PROVE  Alone(r) /\ Still /\ restarts' = restarts
<1>1. Alone(r)
  BY RequestStepDoes DEF Does, Handles, Drops, Gives, Removes, Replies
<1>2. UNCHANGED <<restarts, replacements>>
  BY DEF RequestStep, HandlerStep, RefuseItem, TakeItem, Finish, Deliver, processVars, fileVars
<1> QED
  BY <1>1, <1>2 DEF Still, Alone, Only

LEMMA RequestStepWarranted ==
    ASSUME NEW r \in Requests, TypeInv, Progress, HandOf(r), Holding(r), SentHeld(r),
           FilesSafe, HeldIsStored, RequestStep(r)
    PROVE  Warranted(r)
<1>1. ServiceInv /\ Still /\ disturbed \subseteq disturbed'
  BY RequestStepStill DEF TypeInv, Alone
<1> QED
  BY <1>1, HandlerWarranted, VaultWarranted, LocalWarranted, NoneWarranted DEF RequestStep

-----------------------------------------------------------------------------
(* Every step keeps the invariant. *)

\* Clients forget nothing.
LEMMA HeldGrows ==
    ASSUME TypeInv, StorageInv, [Next]_vars
    PROVE  Held \subseteq Held'
<1>1. ServiceInv /\ Progress
  BY DEF TypeInv, StorageInv
<1>2. SUFFICES ASSUME NEW c \in Requests, pc[c] = "delivered"
               PROVE  pc'[c] = "delivered" /\ UNCHANGED <<input[c], reply[c], out[c]>>
  BY DEF Held
<1>3. CASE \E r \in Requests : Arrival(r)
  BY <1>1, <1>2, <1>3, ArrivalShape
<1>4. CASE \E r \in Requests : RequestStep(r)
  <2>1. PICK r \in Requests : Effect(r)
    BY <1>1, <1>4, RequestStepEffect
  <2>2. c # r
    BY <1>2, <2>1 DEF Effect, Moves, Writes, Fails, Repeats, Ends, Lists, Serves, Completes,
                      Working, Steps
  <2> QED
    BY <1>2, <2>1, <2>2, EffectOnly DEF Only
<1>5. CASE Environment
  BY <1>2, <1>5 DEF Environment, Crash, Restart, Finished, requestVars, serviceVars
<1>6. CASE UNCHANGED vars
  BY <1>2, <1>6 DEF vars, serviceVars, requestVars
<1> QED
  BY <1>3, <1>4, <1>5, <1>6 DEF Next, Quiet

LEMMA SentHeldStays ==
    ASSUME NEW q \in Requests, SentHeld(q), input'[q] = input[q], Held \subseteq Held'
    PROVE  SentHeld(q)'
BY DEF SentHeld

\* A request that does not move keeps its part.
LEMMA OthersWarranted ==
    ASSUME NEW q \in Requests, Holding(q), FreshOf(q), RefusedOf(q), config' = config,
           \/ UNCHANGED <<keyFile, replacements>>
           \/ replacements' > 0 /\ replacements' # 0,
           \A p \in Requests : input[p].op = "purge" => input'[p] = input[p],
           disturbed \subseteq disturbed', input'[q] = input[q],
           UNCHANGED <<pc[q], pos[q], cur[q], out[q], reply[q]>>
    PROVE  Holding(q)' /\ FreshOf(q)' /\ RefusedOf(q)'
<1>1. Holding(q)'
  BY DEF Holding, Fit, Item, FileOf, Storing
<1>2. FreshOf(q)'
  BY DEF FreshOf, Fresh, ValidKeyName, Configured
<1>3. RefusedOf(q)'
  BY ExcuseStays DEF RefusedOf
<1> QED
  BY <1>1, <1>2, <1>3

LEMMA WarrantedKeeps ==
    ASSUME NEW r \in Requests, ServiceInv, Holding(r), FreshOf(r), RefusedOf(r),
           Warranted(r), Still, disturbed \subseteq disturbed'
    PROVE  Holding(r)' /\ FreshOf(r)' /\ RefusedOf(r)'
<1>1. Holding(r)'
  BY DEF Warranted, Holding, Fit, Steps
<1>2. FreshOf(r)'
  <2>1. ASSUME NEW s, Fresh(s)
        PROVE  Fresh(s)'
    BY <2>1, StillFresh
  <2>2. CASE out'[r] = out[r]
    BY <2>2 DEF FreshOf, Still, Fresh, ValidKeyName, Configured
  <2>3. CASE out'[r] = << >>
    BY <2>3 DEF FreshOf
  <2>4. ASSUME NEW result, out'[r] = out[r] \o <<result>>,
               input[r].op = "create" => Fresh(result)
        PROVE  FreshOf(r)'
    <3> DEFINE Results == EncryptedSecrets \union Envelopes \union {result}
    <3>1. out[r] \in Seq(EncryptedSecrets \union Envelopes) /\ result \in Results
      BY DEF ServiceInv, ServiceTyped
    <3>2. Seq(EncryptedSecrets \union Envelopes) \subseteq Seq(Results)
      BY SeqMonotonic, Zenon
    <3>3. out[r] \in Seq(Results)
      BY <3>1, <3>2
    <3> HIDE DEF Results
    <3>4. /\ out'[r] \in Seq(Results) /\ Len(out'[r]) = Len(out[r]) + 1
          /\ \A i \in 1..Len(out[r]) : out'[r][i] = out[r][i]
          /\ out'[r][Len(out[r]) + 1] = result
      BY <2>4, <3>1, <3>3, OneMore
    <3>5. /\ DOMAIN out[r] = 1..Len(out[r]) /\ DOMAIN out'[r] = 1..Len(out'[r])
          /\ Len(out[r]) \in Nat
      BY <3>3, <3>4, LenProperties
    <3>6. ASSUME NEW i \in DOMAIN out'[r], input[r].op = "create"
          PROVE  Fresh(out'[r][i])
      <4>1. CASE i \in DOMAIN out[r]
        BY <3>4, <3>5, <3>6, <4>1 DEF FreshOf
      <4>2. CASE i = Len(out[r]) + 1
        BY <2>4, <3>4, <3>6, <4>2
      <4> QED
        BY <3>4, <3>5, <4>1, <4>2
    <3> QED
      BY <3>6 DEF FreshOf, Still, Fresh, ValidKeyName, Configured
  <2> QED
    BY <2>2, <2>3, <2>4 DEF Warranted
<1>3. RefusedOf(r)'
  <2>1. CASE Excuse(r)'
    BY <2>1 DEF RefusedOf
  <2>2. CASE reply'[r] \in {reply[r], 200, 204}
    BY <2>2, ExcuseStays DEF RefusedOf, Still
  <2> QED
    BY <2>1, <2>2 DEF Warranted
<1> QED
  BY <1>1, <1>2, <1>3

LEMMA RequestKeepsReasons ==
    ASSUME TypeInv, StorageInv, ItemInv, HeldIsStored, RewrapInv,
           NEW r \in Requests, RequestStep(r)
    PROVE  RewrapInv'
<1>1. ServiceInv /\ Progress /\ HandOf(r) /\ SentHeld(r) /\ FilesSafe
  BY DEF TypeInv, StorageInv, ItemInv, RewrapInv
<1>2. /\ Still /\ restarts' = restarts
      /\ Alone(r) /\ disturbed \subseteq disturbed'
  BY <1>1, RequestStepStill DEF Alone
<1>3. FilesSafe'
  BY <1>1, <1>2 DEF FilesSafe, Still
<1>4. ASSUME NEW q \in Requests
      PROVE  SentHeld(q)'
  <2>1. Held \subseteq Held'
    BY HeldGrows DEF Next
  <2> QED
    BY <1>2, <2>1, SentHeldStays DEF RewrapInv, Still
<1>5. ASSUME restarts' = 0, NEW q \in Requests
      PROVE  Holding(q)' /\ FreshOf(q)' /\ RefusedOf(q)'
  <2>1. Holding(q) /\ FreshOf(q) /\ RefusedOf(q) /\ Holding(r)
    BY <1>2, <1>5 DEF RewrapInv
  <2>2. CASE q = r
    BY <1>1, <1>2, <2>1, <2>2, RequestStepWarranted, WarrantedKeeps
  <2>3. CASE q # r
    BY <1>2, <2>1, <2>3, OthersWarranted DEF Alone, Only, Still
  <2> QED
    BY <2>2, <2>3
<1> QED
  BY <1>3, <1>4, <1>5 DEF RewrapInv

LEMMA ArrivalKeepsReasons ==
    ASSUME TypeInv, StorageInv, RewrapInv, NEW r \in Requests, Arrival(r)
    PROVE  RewrapInv'
<1>1. ServiceInv /\ Progress /\ FilesSafe
  BY DEF TypeInv, StorageInv, RewrapInv
<1>2. UNCHANGED <<config, restarts, keyFile, replacements, disturbed>>
  BY DEF Arrival, CreateSecret, RewrapSecret, DeleteSecret, Receive, RejectBody,
         processVars, fileVars
<1>3. Held \subseteq Held'
  BY HeldGrows DEF Next
<1>4. FilesSafe'
  BY <1>1, <1>2 DEF FilesSafe
<1>5. ASSUME NEW q \in Requests
      PROVE  SentHeld(q)'
  <2>1. CASE q # r
    BY <1>1, <1>3, <2>1, ArrivalShape, SentHeldStays DEF RewrapInv
  <2>2. CASE q = r /\ RewrapSecret(r)
    <3>1. PICK list \in BoundedSeq(ClientItems, MaxItems) : input'[r].items = list
      BY <2>2 DEF RewrapSecret, Receive, ServiceInv, ServiceTyped, TypeInv
    <3>2. \A i \in DOMAIN list : list[i] \in ClientItems
      BY BoundedSeqType, ElementOfSeq, LenProperties
    <3>3. Held \subseteq EncryptedSecrets
      BY <1>1, HeldType
    <3>4. ASSUME NEW item \in ClientItems, item # Null
          PROVE  \E s \in Held : s.backend = item.backend /\ s.cipherText = item.cipherText
      BY <3>3, <3>4 DEF ClientItems, EncryptedSecrets
    <3> QED
      BY <1>3, <2>2, <3>1, <3>2, <3>4 DEF SentHeld
  <2>3. CASE q = r /\ ~RewrapSecret(r)
    <3>1. input'[r].op # "rewrap"
      BY <2>3 DEF Arrival, CreateSecret, DeleteSecret, Receive, RejectBody, Unreadable,
                  ServiceInv, ServiceTyped, TypeInv
    <3> QED
      BY <2>3, <3>1 DEF SentHeld
  <2> QED
    BY <2>1, <2>2, <2>3
<1>6. ASSUME restarts' = 0, NEW q \in Requests
      PROVE  Holding(q)' /\ FreshOf(q)' /\ RefusedOf(q)'
  <2>1. Holding(q) /\ FreshOf(q) /\ RefusedOf(q)
    BY <1>2, <1>6 DEF RewrapInv
  <2>2. CASE q # r
    BY <1>1, <1>2, <2>1, <2>2, ArrivalShape, OthersWarranted
  <2>3. CASE q = r
    <3>1. Holding(r)' /\ FreshOf(r)'
      BY <1>1, ArrivalShape DEF Holding, Fit, FreshOf
    <3>2. RefusedOf(r)'
      <4>1. reply'[r] = 400 => RejectBody(r)
        BY <1>1, ArrivalShape DEF Arrival, CreateSecret, RewrapSecret, DeleteSecret, Receive
      <4>2. RejectBody(r) => input'[r].op # "rewrap"
        BY <1>1 DEF RejectBody, Unreadable, ServiceInv, ServiceTyped
      <4> QED
        BY <4>1, <4>2 DEF RefusedOf, Excuse
    <3> QED
      BY <2>3, <3>1, <3>2
  <2> QED
    BY <2>2, <2>3
<1> QED
  BY <1>4, <1>5, <1>6 DEF RewrapInv

\* What was refused when the process died was refused for a reason, too.
LEMMA CrashKeepsReasons ==
    ASSUME TypeInv, StorageInv, RewrapInv, Crash, VaultOutlivesCrash, UNCHANGED fileVars
    PROVE  RewrapInv'
<1>1. /\ UNCHANGED <<config, restarts, keyFile, replacements>>
      /\ UNCHANGED <<input, pos, out, reply, disturbed>>
      /\ \A q \in Requests : pc'[q] \in {"idle", "delivered", "lost"}
  BY DEF Crash, Finished, fileVars
<1>2. Held \subseteq Held'
  BY HeldGrows DEF Next, Environment
<1>3. FilesSafe'
  BY <1>1 DEF RewrapInv, FilesSafe
<1>4. \A q \in Requests : SentHeld(q)'
  BY <1>1, <1>2, SentHeldStays DEF RewrapInv
<1>5. ASSUME restarts' = 0, NEW q \in Requests
      PROVE  Holding(q)' /\ FreshOf(q)' /\ RefusedOf(q)'
  <2>1. FreshOf(q) /\ RefusedOf(q)
    BY <1>1, <1>5 DEF RewrapInv
  <2>2. Holding(q)'
    BY <1>1 DEF Holding, Fit
  <2>3. FreshOf(q)'
    BY <1>1, <2>1 DEF FreshOf, Fresh, ValidKeyName, Configured
  <2>4. RefusedOf(q)'
    BY <1>1, <2>1, ExcuseStays DEF RefusedOf
  <2> QED
    BY <2>2, <2>3, <2>4
<1> QED
  BY <1>3, <1>4, <1>5 DEF RewrapInv

\* A key file that is replaced is a reason for every secret of its key.
LEMMA ReplaceKeepsReasons ==
    ASSUME TypeInv, StorageInv, RewrapInv,
           NEW k \in KeyNames, NEW file \in KeyFiles, ReplaceKeyFile(k, file),
           UNCHANGED <<processVars, input, pc, pos, cur, out, reply, vaultVars>>
    PROVE  RewrapInv'
<1>1. replacements' > 0 /\ replacements' # 0 /\ disturbed \subseteq disturbed'
  BY FileAssumption DEF ReplaceKeyFile, TypeInv, BackendTyped
<1>2. FilesSafe'
  BY <1>1 DEF FilesSafe
<1>3. \A q \in Requests : SentHeld(q)'
  <2>1. Held \subseteq Held'
    BY DEF Held
  <2> QED
    BY <2>1, SentHeldStays DEF RewrapInv
<1>4. ASSUME restarts' = 0, NEW q \in Requests
      PROVE  Holding(q)' /\ FreshOf(q)' /\ RefusedOf(q)'
  <2>1. restarts = 0 /\ config' = config
    BY <1>4 DEF processVars
  <2> QED
    BY <1>1, <2>1, OthersWarranted DEF RewrapInv
<1> QED
  BY <1>2, <1>3, <1>4 DEF RewrapInv

LEMMA IdleKeepsReasons ==
    ASSUME RewrapInv, UNCHANGED <<requestVars, fileVars>>,
           UNCHANGED <<config, restarts>> \/ restarts' # 0
    PROVE  RewrapInv'
<1>1. FilesSafe'
  BY DEF RewrapInv, FilesSafe, fileVars
<1>2. \A q \in Requests : SentHeld(q)'
  <2>1. Held \subseteq Held'
    BY DEF Held, requestVars
  <2> QED
    BY <2>1, SentHeldStays DEF RewrapInv, requestVars
<1>3. ASSUME restarts' = 0, NEW q \in Requests
      PROVE  Holding(q)' /\ FreshOf(q)' /\ RefusedOf(q)'
  <2>1. /\ restarts = 0 /\ UNCHANGED <<config, keyFile, replacements>>
        /\ UNCHANGED <<input, pc, pos, cur, out, reply, disturbed>>
    BY <1>3 DEF requestVars, fileVars
  <2>2. Holding(q) /\ FreshOf(q) /\ RefusedOf(q)
    BY <2>1 DEF RewrapInv
  <2> QED
    BY <2>1, <2>2, OthersWarranted
<1> QED
  BY <1>1, <1>2, <1>3 DEF RewrapInv

LEMMA InitRewrapInv ==
    ASSUME Init
    PROVE  RewrapInv
<1>1. FilesSafe
  BY DEF Init, InitFiles, FilesSafe
<1>2. ASSUME NEW q \in Requests
      PROVE  SentHeld(q) /\ Holding(q) /\ FreshOf(q) /\ RefusedOf(q)
  BY DEF Init, InitService, NoInput, SentHeld, Holding, Fit, FreshOf, RefusedOf
<1> QED
  BY <1>1, <1>2 DEF RewrapInv

LEMMA NextRewrapInv ==
    ASSUME TypeInv, StorageInv, ItemInv, HeldIsStored, RewrapInv, [Next]_vars
    PROVE  RewrapInv'
<1>1. CASE \E r \in Requests : Arrival(r)
  BY <1>1, ArrivalKeepsReasons
<1>2. CASE \E r \in Requests : RequestStep(r)
  BY <1>2, RequestKeepsReasons
<1>3. CASE Environment
  <2>1. CASE Crash /\ VaultOutlivesCrash /\ UNCHANGED fileVars
    BY <2>1, CrashKeepsReasons
  <2>2. CASE (\E c \in Configs : Restart(c)) /\ UNCHANGED <<vaultVars, fileVars>>
    <3>1. restarts' # 0 /\ UNCHANGED requestVars
      BY <2>2, ServiceAssumption DEF Restart, TypeInv, ServiceInv, ServiceTyped
    <3> QED
      BY <2>2, <3>1, IdleKeepsReasons
  <2>3. CASE VaultLate /\ UNCHANGED <<serviceVars, fileVars>>
    BY <2>3, IdleKeepsReasons DEF serviceVars, processVars
  <2>4. CASE /\ \E k \in KeyNames, file \in KeyFiles : ReplaceKeyFile(k, file)
             /\ UNCHANGED <<processVars, input, pc, pos, cur, out, reply, vaultVars>>
    BY <2>4, ReplaceKeepsReasons
  <2> QED
    BY <1>3, <2>1, <2>2, <2>3, <2>4 DEF Environment
<1>4. CASE UNCHANGED vars
  BY <1>4, IdleKeepsReasons DEF vars, serviceVars, processVars
<1> QED
  BY <1>1, <1>2, <1>3, <1>4 DEF Next, Quiet

-----------------------------------------------------------------------------
\* The invariant holds in every state of every behaviour.
THEOREM RewrapInvariance == Spec => []RewrapInv
<1>1. Init => RewrapInv
  BY InitRewrapInv
<1>2. TypeInv /\ StorageInv /\ ItemInv /\ HeldIsStored /\ RewrapInv /\ [Next]_vars => RewrapInv'
  BY NextRewrapInv
<1> QED
  BY <1>1, <1>2, StorageInvariance, ItemInvariance, HeldStays, PTL DEF Spec

\* What a client holds can be rewrapped: the service refuses a rewrap only if one
\* of its items is not as it was delivered, was named by a purge, holds an empty
\* text in Vault or uses a key file that was replaced, or if a call failed.
THEOREM HeldCanBeRewrapped == Spec => []HeldIsRewrappable
<1>1. TypeInv /\ ItemInv /\ RewrapInv => HeldIsRewrappable
  <2> SUFFICES ASSUME TypeInv, ItemInv, RewrapInv, NEW r \in Requests, restarts = 0,
                      input[r].op = "rewrap", reply[r] = 400,
                      input[r].rewrapKey \in RewrapKeys, r \notin disturbed
               PROVE  \E i \in DOMAIN input[r].items : Unusable(input[r].items[i])
    BY DEF HeldIsRewrappable
  <2>1. PICK i \in DOMAIN input[r].items : Blocked(input[r].items[i])
    BY DEF RewrapInv, RefusedOf, Excuse
  <2>2. ASSUME NEW s \in Held
        PROVE  Openable(s)
    <3>1. PICK c \in Requests : input[c].op = "create" /\ s \in ToSet(out[c])
      BY DEF Held
    <3>2. Fresh(s)
      BY <3>1 DEF ToSet, RewrapInv, FreshOf
    <3>3. PICK d \in Requests : \E j : input[d].op = "create" /\ SealedFrom(d, j, s)
      BY HeldSealed DEF TypeInv
    <3>4. PICK j : SealedFrom(d, j, s)
      BY <3>3
    <3> QED
      BY <3>2, <3>4 DEF Openable, SealedFrom
  <2> QED
    BY <2>1, <2>2 DEF Blocked, Unusable
<1> QED
  BY <1>1, RewrapInvariance, ItemInvariance, PTL
=============================================================================

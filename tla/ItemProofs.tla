----------------------------- MODULE ItemProofs -----------------------------
(***************************************************************************)
(* What SecretDelivery does to the texts it is given, for every value of   *)
(* its constants: a secret a client holds is made from the text it asked   *)
(* to seal, and a rewrap that succeeds answers, item by item, the text     *)
(* that was sealed.                                                        *)
(***************************************************************************)
EXTENDS StorageProofs

-----------------------------------------------------------------------------
(* The inductive invariant. *)

\* s is what item i of create c is sealed to.
SealedFrom(c, i, s) ==
    LET item == input[c].items[i]
    IN  /\ i \in DOMAIN input[c].items
        /\ item # Null /\ s.backend = item.backend /\ s.keyName = item.keyName
        /\ s.cipherText.ct.by = s.backend /\ s.signature.by = s.backend
        /\ s.backend # "vault" => s.cipherText.dir = NoDir
        /\ s.cipherText.ct.text = Normalise(item.clearText)
        /\ s.signature.text = Normalise(item.clearText)
        /\ s.backend = "none" => s.cipherText.ct.n = NoNonce /\ s.signature.n = NoNonce
        /\ s.backend # "none" => s.cipherText.ct.n = <<c, i>> /\ s.signature.n = <<c, i>>
        /\ s.backend = "vault" =>
            s.cipherText.ct.key = s.keyName /\ s.signature.key = s.keyName
        /\ s.backend = "localkey" =>
            s.signature.key = s.cipherText.ct.key \/ c \in disturbed

\* e is what item i of rewrap r is opened to.
OpenedFrom(r, i, e) ==
    LET item == input[r].items[i]
    IN  /\ i \in DOMAIN input[r].items
        /\ item # Null
        /\ e = [to |-> input[r].rewrapKey, tmp |-> r, text |-> item.cipherText.ct.text]
        /\ item.signature.text = item.cipherText.ct.text
        /\ input[r].rewrapKey \in RewrapKeys

\* A seal was drawn for an item of a create, over the text to be sealed there.
Genuine(seal) ==
    seal.n # NoNonce =>
        /\ seal.n[1] \in Requests /\ input[seal.n[1]].op = "create"
        /\ seal.text = SealedText(seal.n)

\* Local variables that fit a step of the item request r is at.
Fits(r, step, locals) ==
    /\ step \in {"encrypt", "store", "sign"} =>
        locals.clearText = Normalise(Item(r).clearText)
    /\ step \in {"store", "sign"} => LET ct == locals.cipherText.ct IN
        /\ Item(r).backend \in {"vault", "localkey"} /\ ct.by = Item(r).backend
        /\ ct.text = locals.clearText /\ ct.n = Nonce(r)
        /\ Item(r).backend = "vault" => ct.key = Item(r).keyName
        /\ Item(r).backend = "localkey" =>
            locals.cipherText.dir = NoDir /\ (ct.key = FileOf(r).key \/ r \in disturbed)
    /\ step = "decrypt" /\ Item(r).backend = "vault" =>
        locals.cipherText.ct = Item(r).cipherText.ct
    /\ step = "verify" => locals.clearText = Item(r).cipherText.ct.text

HandOf(r) == Fits(r, pc[r], cur[r])

\* What it has answered so far.
AnsweredOf(r) ==
    /\ input[r].op \in {"create", "rewrap"} /\ pc[r] \in Working => Len(out[r]) = pos[r]
    /\ reply[r] = 200 => Len(out[r]) = Len(input[r].items)
    /\ \A i \in DOMAIN out[r] :
        /\ input[r].op = "create" => SealedFrom(r, i, out[r][i])
        /\ input[r].op = "rewrap" => OpenedFrom(r, i, out[r][i])

\* What it was sent.
SentOf(r) ==
    input[r].op \in {"rewrap", "purge"} =>
        \A i \in DOMAIN input[r].items : LET item == input[r].items[i] IN
            item # Null =>
                /\ Genuine(item.cipherText.ct) /\ Genuine(item.signature)
                /\ item.cipherText.ct.by = item.backend

ItemInv == \A r \in Requests : HandOf(r) /\ AnsweredOf(r) /\ SentOf(r)

-----------------------------------------------------------------------------
(* The kinds of step a request takes, by what they do to its items. *)

\* Nothing but request r moves, and its key file stays.
Alone(r) == Only(r) /\ UNCHANGED keyFile /\ disturbed \subseteq disturbed'

\* It goes on within an item, with the right things in hand.
Handles(r) ==
    /\ Alone(r)
    /\ pc[r] \in Working /\ pc'[r] \in Steps
    /\ pos'[r] = pos[r] /\ out'[r] = out[r] /\ reply'[r] = reply[r]
    /\ HandOf(r)'

\* It fails.
Drops(r) ==
    /\ Alone(r)
    /\ pc'[r] = "answer" /\ reply'[r] = 400 /\ out'[r] = << >>

\* It adds the result of an item to its response.
Gives(r, result) ==
    /\ Alone(r)
    /\ pc[r] \in Steps /\ pc'[r] = "next"
    /\ pos'[r] = pos[r] + 1 /\ out'[r] = out[r] \o <<result>> /\ reply'[r] = reply[r]
    /\ \/ input[r].op = "create" /\ SealedFrom(r, pos[r] + 1, result)
       \/ input[r].op = "rewrap" /\ OpenedFrom(r, pos[r] + 1, result)

\* It is done with an item of a purge.
Removes(r) ==
    /\ Alone(r)
    /\ input[r].op = "purge" /\ pc'[r] = "next" /\ reply'[r] = reply[r]
    /\ out'[r] = out[r] \o << >>

\* It is answered, or the answer is sent.
Replies(r) ==
    /\ Alone(r)
    /\ out'[r] = out[r] /\ pos'[r] = pos[r]
    /\ \/ /\ pc[r] = "next" /\ pc'[r] = "answer"
          /\ pos[r] = Len(input[r].items)
          /\ reply'[r] = 200 => input[r].op \in {"create", "rewrap"}
       \/ pc[r] = "answer" /\ pc'[r] \in Finished /\ reply'[r] = reply[r]

Does(r) ==
    \/ Handles(r) \/ Drops(r) \/ Removes(r) \/ Replies(r)
    \/ \E result : Gives(r, result)
-----------------------------------------------------------------------------
(* Whatever way a step of a request ends, it is of one of the kinds. *)

LEMMA AbortDrops ==
    ASSUME NEW r \in Requests, ServiceInv, Abort(r),
           UNCHANGED <<processVars, keyFile, repeated>>, disturbed \subseteq disturbed'
    PROVE  Drops(r)
BY DEF ServiceInv, ServiceTyped, Abort, Drops, Alone, Only, processVars

LEMMA GoToHandles ==
    ASSUME NEW r \in Requests, ServiceInv, pc[r] \in Working,
           NEW step \in Steps, NEW locals, GoTo(r, step, locals), Fits(r, step, locals),
           UNCHANGED <<processVars, keyFile, repeated, disturbed>>
    PROVE  Handles(r)
<1>1. pc'[r] = step /\ cur'[r] = locals /\ Alone(r)
  BY DEF ServiceInv, ServiceTyped, GoTo, Alone, Only, processVars
<1>2. Item(r)' = Item(r) /\ Nonce(r)' = Nonce(r) /\ FileOf(r)' = FileOf(r)
  BY DEF GoTo, Item, Nonce, FileOf
<1>3. HandOf(r)'
  BY <1>1, <1>2 DEF HandOf, Fits
<1> QED
  BY <1>1, <1>3 DEF GoTo, Handles

LEMMA FinishGives ==
    ASSUME NEW r \in Requests, ServiceInv, pc[r] \in Steps,
           NEW result, FinishItem(r, <<result>>),
           UNCHANGED <<processVars, keyFile, repeated, disturbed>>,
           \/ input[r].op = "create" /\ SealedFrom(r, pos[r] + 1, result)
           \/ input[r].op = "rewrap" /\ OpenedFrom(r, pos[r] + 1, result)
    PROVE  Gives(r, result)
BY DEF ServiceInv, ServiceTyped, FinishItem, Gives, Alone, Only, processVars

LEMMA FinishRemoves ==
    ASSUME NEW r \in Requests, ServiceInv, pc[r] = "delete", FinishItem(r, << >>),
           UNCHANGED <<processVars, keyFile, repeated, disturbed>>
    PROVE  Removes(r)
<1>1. input[r].op = "purge"
  BY DEF Steps, ServiceInv, Work, WorkOf
<1> QED
  BY <1>1 DEF ServiceInv, ServiceTyped, FinishItem, Removes, Alone, Only, processVars

\* The item in hand is one of the request's.
LEMMA ItemAt ==
    ASSUME NEW r \in Requests, ServiceInv, pc[r] \in Steps
    PROVE  /\ pos[r] + 1 \in DOMAIN input[r].items
           /\ input[r].items[pos[r] + 1] = Item(r) /\ Item(r) # Null
           /\ Item(r).backend \in Backends
<1>1. input[r] \in Inputs /\ pos[r] + 1 \in 1..Len(input[r].items) /\ Item(r).backend \in Backends
  BY ItemType
<1>2. pos[r] + 1 \in DOMAIN input[r].items
  BY <1>1, InputItems, LenProperties
<1>3. Acceptable(Item(r))
  BY DEF ServiceInv, Work, WorkOf
<1> QED
  BY <1>1, <1>2, <1>3 DEF Item, Acceptable

LEMMA SealGives ==
    ASSUME NEW r \in Requests, ServiceInv, HandOf(r), pc[r] = "sign",
           NEW key, SealItem(r, Seal(Item(r).backend, key, cur[r].clearText, Nonce(r))),
           Item(r).backend = "vault" => key = Item(r).keyName,
           Item(r).backend = "localkey" => key = FileOf(r).key,
           UNCHANGED <<processVars, keyFile, repeated, disturbed>>
    PROVE  Does(r)
<1> DEFINE signature == Seal(Item(r).backend, key, cur[r].clearText, Nonce(r))
           secret == [backend |-> Item(r).backend, keyName |-> Item(r).keyName,
                      cipherText |-> cur[r].cipherText, signature |-> signature]
<1>1. pc[r] \in Steps /\ input[r].op = "create" /\ FinishItem(r, <<secret>>)
  BY DEF Steps, ServiceInv, Work, WorkOf, SealItem
<1>2. /\ signature.text = Normalise(Item(r).clearText) /\ signature.key = key
      /\ signature.n = Nonce(r) /\ signature.by = Item(r).backend
  BY DEF Seal, HandOf, Fits
<1>3. /\ secret.backend = Item(r).backend /\ secret.keyName = Item(r).keyName
      /\ secret.cipherText = cur[r].cipherText /\ secret.signature = signature
  OBVIOUS
<1> HIDE DEF signature, secret
<1>4. SealedFrom(r, pos[r] + 1, secret)
  BY <1>1, <1>2, <1>3, ItemAt DEF SealedFrom, HandOf, Fits, Nonce
<1> QED
  BY <1>1, <1>4, FinishGives DEF Does

LEMMA WrapDoes ==
    ASSUME NEW r \in Requests, ServiceInv, pc[r] \in {"decrypt", "verify"},
           NEW text, WrapItem(r, text),
           text = Item(r).cipherText.ct.text, text = Item(r).signature.text,
           UNCHANGED <<processVars, keyFile, repeated, disturbed>>
    PROVE  Does(r)
<1> DEFINE envelope == [to |-> input[r].rewrapKey, tmp |-> r, text |-> text]
<1>1. pc[r] \in Steps /\ input[r].op = "rewrap"
  BY DEF Steps, ServiceInv, Work, WorkOf
<1>2. CASE Abort(r)
  BY <1>2, AbortDrops DEF Does
<1>3. CASE ParsesAsPublicKey(input[r].rewrapKey) /\ FinishItem(r, <<envelope>>)
  <2>1. envelope = [to |-> input[r].rewrapKey, tmp |-> r, text |-> text]
    OBVIOUS
  <2> HIDE DEF envelope
  <2>2. OpenedFrom(r, pos[r] + 1, envelope)
    BY <1>1, <1>3, <2>1, ItemAt DEF OpenedFrom, ParsesAsPublicKey
  <2> QED
    BY <1>1, <1>3, <2>2, FinishGives DEF Does
<1> QED
  BY <1>2, <1>3 DEF WrapItem

LEMMA HandlerDoes ==
    ASSUME NEW r \in Requests, ServiceInv, HandlerStep(r),
           UNCHANGED <<keyFile, repeated>>
    PROVE  Does(r)
<1>1. CASE RefuseItem(r)
  BY <1>1, AbortDrops DEF RefuseItem, Does
<1>2. CASE TakeItem(r)
  <2> DEFINE locals == IF input[r].op = "create"
                       THEN [Blank EXCEPT !.clearText = Normalise(Item(r).clearText)]
                       ELSE Blank
  <2>1. /\ pc[r] = "next" /\ GoTo(r, FirstStep(r), locals)
        /\ UNCHANGED <<processVars, disturbed>> /\ input[r] \in Inputs
    BY <1>2 DEF TakeItem, ServiceInv, Work, WorkOf
  <2>2. input[r].op \in {"create", "rewrap", "purge"}
    BY <2>1, InputItems
  <2>3. /\ FirstStep(r) \in Steps \ {"store", "sign", "verify"}
        /\ FirstStep(r) = "encrypt" => input[r].op = "create"
        /\ FirstStep(r) = "decrypt" => Item(r).backend # "vault"
    BY <2>2 DEF FirstStep, Steps
  <2>4. input[r].op = "create" => locals.clearText = Normalise(Item(r).clearText)
    BY DEF Blank
  <2> HIDE DEF locals
  <2>5. Fits(r, FirstStep(r), locals)
    BY <2>3, <2>4 DEF Fits
  <2> QED
    BY <2>1, <2>3, <2>5, GoToHandles DEF Does, Working
<1>3. CASE Finish(r)
  <2>1. input[r].op \in {"create", "rewrap", "purge"}
    BY <1>3, InputItems DEF Finish, ServiceInv, Work, WorkOf
  <2> QED
    BY <1>3, <2>1 DEF Finish, Does, Replies, Alone, Only, ServiceInv, ServiceTyped, processVars
<1>4. CASE Deliver(r)
  BY <1>4 DEF Deliver, Does, Replies, Alone, Only, ServiceInv, ServiceTyped, processVars, Finished
<1> QED
  BY <1>1, <1>2, <1>3, <1>4 DEF HandlerStep

LEMMA VaultFailsDoes ==
    ASSUME NEW r \in Requests, ServiceInv, NEW pending, VaultFails(r, pending),
           UNCHANGED <<processVars, keyFile>>
    PROVE  Does(r)
BY AbortDrops DEF VaultFails, Does

LEMMA VaultRepeatsHandles ==
    ASSUME NEW r \in Requests, ServiceInv, HandOf(r), pc[r] \in Steps,
           NEW call, VaultRepeats(call), repeated' \in {repeated, repeated \union {r}},
           UNCHANGED <<processVars, keyFile>>
    PROVE  Handles(r)
<1>1. HandOf(r)'
  BY DEF VaultRepeats, requestVars, HandOf, Fits, Item, Nonce, FileOf
<1> QED
  BY <1>1 DEF VaultRepeats, requestVars, processVars, Handles, Alone, Only, Working

LEMMA VaultDoes ==
    ASSUME NEW r \in Requests, ServiceInv, HandOf(r), VaultRequestStep(r),
           UNCHANGED <<processVars, keyFile>>
    PROVE  Does(r)
<1>1. CASE VaultCallFails(r)
  BY <1>1, VaultFailsDoes DEF VaultCallFails
<1>2. CASE VaultRepeatStore(r)
  <2>1. /\ pc[r] \in Steps /\ repeated' \in {repeated, repeated \union {r}}
        /\ VaultRepeats(Call("put", PathOf(r), r))
    BY <1>2 DEF VaultRepeatStore, At, Steps
  <2> QED
    BY <2>1, VaultRepeatsHandles DEF Does
<1>3. CASE VaultRepeatDelete(r)
  <2>1. /\ pc[r] \in Steps /\ repeated' \in {repeated, repeated \union {r}}
        /\ VaultRepeats(Call("delete", Item(r).cipherText, r))
    BY <1>3 DEF VaultRepeatDelete, At, Steps
  <2> QED
    BY <2>1, VaultRepeatsHandles DEF Does
<1>4. CASE VaultEncrypt(r)
  <2> DEFINE locals == [cur[r] EXCEPT !.cipherText =
                Raw(Seal("vault", Item(r).keyName, cur[r].clearText, Nonce(r)))]
             step == IF Storing THEN "store" ELSE "sign"
  <2>1. /\ pc[r] = "encrypt" /\ Item(r).backend = "vault" /\ GoTo(r, step, locals)
        /\ UNCHANGED <<repeated, disturbed>>
    BY <1>4 DEF VaultEncrypt, At, NoFault
  <2>2. step \in {"store", "sign"}
    OBVIOUS
  <2>3. /\ locals.clearText = cur[r].clearText /\ locals.cipherText.ct.n = Nonce(r)
        /\ locals.cipherText.ct.text = cur[r].clearText
        /\ locals.cipherText.ct.key = Item(r).keyName /\ locals.cipherText.ct.by = "vault"
    BY DEF ServiceInv, ServiceTyped, Raw, Seal
  <2>4. cur[r].clearText = Normalise(Item(r).clearText)
    BY <2>1 DEF HandOf, Fits
  <2> HIDE DEF locals, step
  <2>5. Fits(r, step, locals)
    BY <2>1, <2>2, <2>3, <2>4 DEF Fits
  <2> QED
    BY <2>1, <2>2, <2>5, GoToHandles DEF Does, Steps, Working
<1>5. CASE VaultStore(r)
  <2> DEFINE locals == [cur[r] EXCEPT !.cipherText = PathOf(r)]
  <2>1. pc[r] = "store" /\ Item(r).backend = "vault"
    BY <1>5 DEF VaultStore, At
  <2>2. CASE VaultFails(r, {Call("put", PathOf(r), r)})
    BY <2>2, VaultFailsDoes
  <2>3. CASE GoTo(r, "sign", locals) /\ NoFault
    <3>1. locals.clearText = cur[r].clearText /\ locals.cipherText.ct = cur[r].cipherText.ct
      BY DEF PathOf, ServiceInv, ServiceTyped, CipherTexts
    <3> HIDE DEF locals
    <3>2. Fits(r, "sign", locals)
      BY <2>1, <3>1 DEF HandOf, Fits
    <3> QED
      BY <2>1, <2>3, <3>2, GoToHandles DEF Does, Steps, Working, NoFault
  <2> QED
    BY <1>5, <2>2, <2>3 DEF VaultStore
<1>6. CASE VaultSign(r)
  BY <1>6, SealGives DEF VaultSign, At, NoFault
<1>7. CASE VaultFetch(r)
  <2> DEFINE sent == Item(r).cipherText
             locals == [cur[r] EXCEPT !.cipherText = IF Storing THEN Raw(sent.ct) ELSE sent]
  <2>1. /\ pc[r] = "fetch" /\ UNCHANGED <<repeated, disturbed>>
        /\ Abort(r) \/ GoTo(r, "decrypt", locals)
    BY <1>7 DEF VaultFetch, At, NoFault
  <2>2. locals.cipherText.ct = sent.ct
    BY DEF ServiceInv, ServiceTyped, Raw
  <2> HIDE DEF locals
  <2>3. Fits(r, "decrypt", locals)
    BY <2>2 DEF Fits
  <2> QED
    BY <2>1, <2>3, AbortDrops, GoToHandles DEF Does, Steps, Working
<1>8. CASE VaultDecrypt(r)
  <2> DEFINE locals == [cur[r] EXCEPT !.clearText = cur[r].cipherText.ct.text]
  <2>1. /\ pc[r] = "decrypt" /\ Item(r).backend = "vault" /\ UNCHANGED <<repeated, disturbed>>
        /\ Abort(r) \/ GoTo(r, "verify", locals)
    BY <1>8 DEF VaultDecrypt, At, NoFault
  <2>2. locals.clearText = cur[r].cipherText.ct.text
    BY DEF ServiceInv, ServiceTyped
  <2> HIDE DEF locals
  <2>3. Fits(r, "verify", locals)
    BY <2>1, <2>2 DEF HandOf, Fits
  <2> QED
    BY <2>1, <2>3, AbortDrops, GoToHandles DEF Does, Steps, Working
<1>9. CASE VaultVerify(r)
  <2>1. /\ pc[r] = "verify" /\ UNCHANGED <<repeated, disturbed>>
        /\ \/ Abort(r)
           \/ Item(r).signature.text = cur[r].clearText /\ WrapItem(r, cur[r].clearText)
    BY <1>9 DEF VaultVerify, At, NoFault
  <2>2. cur[r].clearText = Item(r).cipherText.ct.text
    BY <2>1 DEF HandOf, Fits
  <2> QED
    BY <2>1, <2>2, AbortDrops, WrapDoes DEF Does
<1>10. CASE VaultDelete(r)
  <2>1. pc[r] = "delete"
    BY <1>10 DEF VaultDelete, At
  <2>2. CASE FinishItem(r, << >>) /\ NoFault
    BY <2>1, <2>2, FinishRemoves DEF NoFault, Does
  <2>3. CASE Abort(r) /\ NoFault
    BY <2>3, AbortDrops DEF NoFault, Does
  <2>4. CASE VaultFails(r, {Call("delete", Item(r).cipherText, r)})
    BY <2>4, VaultFailsDoes
  <2> QED
    BY <1>10, <2>2, <2>3, <2>4 DEF VaultDelete
<1> QED
  BY <1>1, <1>2, <1>3, <1>4, <1>5, <1>6, <1>7, <1>8, <1>9, <1>10 DEF VaultRequestStep

LEMMA LocalDoes ==
    ASSUME NEW r \in Requests, ServiceInv, HandOf(r), LocalRequestStep(r),
           UNCHANGED <<processVars, keyFile, repeated>>
    PROVE  Does(r)
<1>1. CASE CheckKeyFile(r)
  <2> DEFINE locals == [cur[r] EXCEPT !.checked = TRUE]
  <2>1. /\ pc[r] \in Steps /\ UNCHANGED disturbed
        /\ Abort(r) \/ GoTo(r, pc[r], locals)
    BY <1>1 DEF CheckKeyFile, At, KeySteps, Steps
  <2>2. locals.clearText = cur[r].clearText /\ locals.cipherText = cur[r].cipherText
    BY DEF ServiceInv, ServiceTyped
  <2> HIDE DEF locals
  <2>3. Fits(r, pc[r], locals)
    BY <2>2 DEF HandOf, Fits
  <2> QED
    BY <2>1, <2>3, AbortDrops, GoToHandles DEF Does, Working
<1>2. CASE LocalEncrypt(r)
  <2> DEFINE locals == [cur[r] EXCEPT !.checked = FALSE, !.cipherText =
                Raw(Seal("localkey", FileOf(r).key, cur[r].clearText, Nonce(r)))]
  <2>1. /\ pc[r] = "encrypt" /\ Item(r).backend = "localkey" /\ UNCHANGED disturbed
        /\ Abort(r) \/ GoTo(r, "sign", locals)
    BY <1>2 DEF LocalEncrypt, Loading, At
  <2>2. /\ locals.clearText = cur[r].clearText /\ locals.cipherText.ct.n = Nonce(r)
        /\ locals.cipherText.ct.text = cur[r].clearText
        /\ locals.cipherText.ct.key = FileOf(r).key /\ locals.cipherText.ct.by = "localkey"
        /\ locals.cipherText.dir = NoDir
    BY DEF ServiceInv, ServiceTyped, Raw, Seal
  <2>3. cur[r].clearText = Normalise(Item(r).clearText)
    BY <2>1 DEF HandOf, Fits
  <2> HIDE DEF locals
  <2>4. Fits(r, "sign", locals)
    BY <2>1, <2>2, <2>3 DEF Fits
  <2> QED
    BY <2>1, <2>4, AbortDrops, GoToHandles DEF Does, Steps, Working
<1>3. CASE LocalSign(r)
  <2>1. /\ pc[r] = "sign" /\ Item(r).backend = "localkey" /\ UNCHANGED disturbed
        /\ \/ Abort(r)
           \/ SealItem(r, Seal("localkey", FileOf(r).key, cur[r].clearText, Nonce(r)))
    BY <1>3 DEF LocalSign, Loading, At
  <2> QED
    BY <2>1, AbortDrops, SealGives DEF Does
<1>4. CASE LocalDecrypt(r)
  <2> DEFINE locals == [cur[r] EXCEPT !.checked = FALSE,
                                      !.clearText = Item(r).cipherText.ct.text]
  <2>1. /\ pc[r] = "decrypt" /\ UNCHANGED disturbed
        /\ Abort(r) \/ GoTo(r, "verify", locals)
    BY <1>4 DEF LocalDecrypt, Loading, At
  <2>2. locals.clearText = Item(r).cipherText.ct.text
    BY DEF ServiceInv, ServiceTyped
  <2> HIDE DEF locals
  <2>3. Fits(r, "verify", locals)
    BY <2>2 DEF Fits
  <2> QED
    BY <2>1, <2>3, AbortDrops, GoToHandles DEF Does, Steps, Working
<1>5. CASE LocalVerify(r)
  <2>1. /\ pc[r] = "verify" /\ UNCHANGED disturbed
        /\ \/ Abort(r)
           \/ Item(r).signature.text = cur[r].clearText /\ WrapItem(r, cur[r].clearText)
    BY <1>5 DEF LocalVerify, Loading, At
  <2>2. cur[r].clearText = Item(r).cipherText.ct.text
    BY <2>1 DEF HandOf, Fits
  <2> QED
    BY <2>1, <2>2, AbortDrops, WrapDoes DEF Does
<1>6. CASE LocalDelete(r)
  BY <1>6, FinishRemoves DEF LocalDelete, At, Does
<1> QED
  BY <1>1, <1>2, <1>3, <1>4, <1>5, <1>6 DEF LocalRequestStep

LEMMA NoneDoes ==
    ASSUME NEW r \in Requests, ServiceInv, HandOf(r), NoneRequestStep(r),
           UNCHANGED <<processVars, keyFile, repeated>>
    PROVE  Does(r)
<1>1. CASE NoneSeal(r)
  <2> DEFINE secret == [backend |-> "none", keyName |-> Item(r).keyName,
                        cipherText |-> Raw(NoneSealOf(cur[r].clearText)),
                        signature |-> NoneSealOf(cur[r].clearText)]
  <2>1. /\ pc[r] = "encrypt" /\ pc[r] \in Steps /\ Item(r).backend = "none"
        /\ input[r].op = "create" /\ FinishItem(r, <<secret>>) /\ UNCHANGED disturbed
    BY <1>1 DEF NoneSeal, At, Steps, ServiceInv, Work, WorkOf
  <2>2. cur[r].clearText = Normalise(Item(r).clearText)
    BY <2>1 DEF HandOf, Fits
  <2>3. /\ secret.backend = "none" /\ secret.keyName = Item(r).keyName
        /\ secret.cipherText.ct.text = cur[r].clearText /\ secret.cipherText.ct.n = NoNonce
        /\ secret.signature.text = cur[r].clearText /\ secret.signature.n = NoNonce
        /\ secret.cipherText.ct.by = "none" /\ secret.signature.by = "none"
        /\ secret.cipherText.dir = NoDir
    BY DEF Raw, NoneSealOf, Seal
  <2> HIDE DEF secret
  <2>4. SealedFrom(r, pos[r] + 1, secret)
    BY <2>1, <2>2, <2>3, ItemAt DEF SealedFrom
  <2> QED
    BY <2>1, <2>4, FinishGives DEF Does
<1>2. CASE NoneRewrap(r)
  <2> DEFINE sent == Item(r).cipherText
  <2>1. /\ pc[r] = "decrypt" /\ UNCHANGED disturbed
        /\ \/ Abort(r)
           \/ Item(r).signature = NoneSealOf(sent.ct.text) /\ WrapItem(r, sent.ct.text)
    BY <1>2 DEF NoneRewrap, At
  <2>2. NoneSealOf(sent.ct.text).text = sent.ct.text
    BY DEF NoneSealOf, Seal
  <2> QED
    BY <2>1, <2>2, AbortDrops, WrapDoes DEF Does
<1>3. CASE NoneDelete(r)
  BY <1>3, FinishRemoves DEF NoneDelete, At, Does
<1> QED
  BY <1>1, <1>2, <1>3 DEF NoneRequestStep

LEMMA RequestStepDoes ==
    ASSUME NEW r \in Requests, ServiceInv, HandOf(r), RequestStep(r)
    PROVE  Does(r)
BY HandlerDoes, VaultDoes, LocalDoes, NoneDoes DEF RequestStep, vaultVars, fileVars

-----------------------------------------------------------------------------
(* Every step keeps the invariant. *)

\* What was sealed or opened stays so while the input it is for stays.
LEMMA AnsweredStays ==
    ASSUME NEW q \in Requests, input'[q] = input[q], disturbed \subseteq disturbed',
           NEW i, NEW e
    PROVE  /\ SealedFrom(q, i, e) => SealedFrom(q, i, e)'
           /\ OpenedFrom(q, i, e) => OpenedFrom(q, i, e)'
BY DEF SealedFrom, OpenedFrom

LEMMA AnswersStay ==
    ASSUME NEW q \in Requests, AnsweredOf(q), disturbed \subseteq disturbed',
           UNCHANGED <<input[q], pos[q], out[q], reply[q]>>, pc[q] \in Working
    PROVE  AnsweredOf(q)'
<1>1. ASSUME NEW i \in DOMAIN out[q]
      PROVE  /\ input[q].op = "create" => SealedFrom(q, i, out[q][i])'
             /\ input[q].op = "rewrap" => OpenedFrom(q, i, out[q][i])'
  <2>1. /\ input[q].op = "create" => SealedFrom(q, i, out[q][i])
        /\ input[q].op = "rewrap" => OpenedFrom(q, i, out[q][i])
    BY DEF AnsweredOf
  <2>2. input[q].op = "create" => SealedFrom(q, i, out[q][i])'
    BY <2>1 DEF SealedFrom
  <2>3. input[q].op = "rewrap" => OpenedFrom(q, i, out[q][i])'
    BY <2>1 DEF OpenedFrom
  <2> QED
    BY <2>2, <2>3
<1>2. DOMAIN out[q] = DOMAIN out'[q] /\ input'[q] = input[q]
  OBVIOUS
<1> QED
  BY <1>1, <1>2 DEF AnsweredOf

\* A request that does not move keeps its part of the invariant.
LEMMA OthersKeep ==
    ASSUME NEW q \in Requests, HandOf(q), AnsweredOf(q), UNCHANGED keyFile,
           disturbed \subseteq disturbed',
           input'[q] = input[q], pc'[q] = pc[q], pos'[q] = pos[q],
           cur'[q] = cur[q], out'[q] = out[q], reply'[q] = reply[q]
    PROVE  HandOf(q)' /\ AnsweredOf(q)'
<1>1. Item(q)' = Item(q) /\ Nonce(q)' = Nonce(q) /\ FileOf(q)' = FileOf(q)
  BY DEF Item, Nonce, FileOf
<1>2. HandOf(q)'
  BY <1>1 DEF HandOf, Fits
<1>3. AnsweredOf(q)'
  BY AnsweredStays DEF AnsweredOf
<1> QED
  BY <1>2, <1>3

LEMMA GivesKeeps ==
    ASSUME NEW r \in Requests, ServiceInv, Progress, AnsweredOf(r), NEW result, Gives(r, result)
    PROVE  AnsweredOf(r)'
<1> DEFINE Results == EncryptedSecrets \union Envelopes \union {result}
<1>1. out[r] \in Seq(EncryptedSecrets \union Envelopes) /\ result \in Results
  BY DEF ServiceInv, ServiceTyped
<1>2. Seq(EncryptedSecrets \union Envelopes) \subseteq Seq(Results)
  BY SeqMonotonic, Zenon
<1>3. out[r] \in Seq(Results)
  BY <1>1, <1>2
<1> HIDE DEF Results
<1>4. /\ out'[r] \in Seq(Results) /\ Len(out'[r]) = Len(out[r]) + 1
      /\ \A i \in 1..Len(out[r]) : out'[r][i] = out[r][i]
      /\ out'[r][Len(out[r]) + 1] = result
  BY <1>1, <1>3, OneMore DEF Gives
<1>5. /\ Len(out[r]) = pos[r] /\ reply'[r] = 0 /\ input' = input
      /\ disturbed \subseteq disturbed' /\ pos'[r] = pos[r] + 1
  BY DEF Gives, Alone, Only, Working, AnsweredOf, Progress, ProgressOf
<1>6. DOMAIN out[r] = 1..Len(out[r]) /\ DOMAIN out'[r] = 1..Len(out'[r]) /\ Len(out[r]) \in Nat
  BY <1>3, <1>4, LenProperties
<1>7. ASSUME NEW i \in DOMAIN out'[r]
      PROVE  /\ input[r].op = "create" => SealedFrom(r, i, out'[r][i])
             /\ input[r].op = "rewrap" => OpenedFrom(r, i, out'[r][i])
  <2>1. CASE i \in DOMAIN out[r]
    BY <1>4, <1>6, <2>1 DEF AnsweredOf
  <2>2. CASE i = pos[r] + 1
    BY <1>4, <1>5, <2>2 DEF Gives
  <2> QED
    BY <1>4, <1>5, <1>6, <2>1, <2>2
<1>8. \A i \in DOMAIN out'[r] :
        /\ input'[r].op = "create" => SealedFrom(r, i, out[r][i])'
        /\ input'[r].op = "rewrap" => OpenedFrom(r, i, out[r][i])'
  BY <1>5, <1>7 DEF SealedFrom, OpenedFrom
<1> QED
  BY <1>4, <1>5, <1>6, <1>8 DEF AnsweredOf

LEMMA DoesKeeps ==
    ASSUME NEW r \in Requests, ServiceInv, Progress, ItemInv, Does(r)
    PROVE  ItemInv'
<1>1. Alone(r)
  BY DEF Does, Handles, Drops, Gives, Removes, Replies
<1>2. UNCHANGED <<input, keyFile>> /\ disturbed \subseteq disturbed'
  BY <1>1 DEF Alone, Only
<1>3. ASSUME NEW q \in Requests
      PROVE  SentOf(q)'
  BY <1>2 DEF ItemInv, SentOf, Genuine, SealedText
<1>4. ASSUME NEW q \in Requests \ {r}
      PROVE  HandOf(q)' /\ AnsweredOf(q)'
  BY <1>1, <1>2, OthersKeep DEF ItemInv, Alone, Only
<1>5. HandOf(r)'
  <2>1. CASE Handles(r)
    BY <2>1 DEF Handles
  <2>2. CASE pc'[r] \notin Steps
    BY <2>2 DEF HandOf, Fits, Steps
  <2> QED
    BY <2>1, <2>2 DEF Does, Drops, Gives, Removes, Replies, Steps, Finished
<1>6. AnsweredOf(r)'
  <2>1. AnsweredOf(r)
    BY DEF ItemInv
  <2>2. CASE Handles(r)
    <3>1. pc[r] \in Working /\ UNCHANGED <<input[r], pos[r], out[r], reply[r]>>
      BY <1>2, <2>2 DEF Handles
    <3> QED
      BY <1>2, <2>1, <3>1, AnswersStay
  <2>3. CASE Drops(r)
    BY <1>2, <2>3 DEF Drops, AnsweredOf, Working, Steps
  <2>4. CASE Removes(r)
    <3>1. out'[r] = out[r]
      BY <2>4, EmptySeq, ConcatEmptySeq DEF Removes, ServiceInv, ServiceTyped
    <3>2. input'[r] = input[r] /\ reply'[r] = reply[r] /\ input[r].op = "purge"
      BY <1>2, <2>4 DEF Removes
    <3> QED
      BY <1>2, <2>1, <3>1, <3>2 DEF AnsweredOf
  <2>5. CASE Replies(r)
    <3>1. /\ input'[r] = input[r] /\ out'[r] = out[r] /\ pc'[r] \notin Working
          /\ reply'[r] = 200 => Len(out[r]) = Len(input[r].items)
      BY <1>2, <2>1, <2>5 DEF Replies, AnsweredOf, Working, Steps, Finished
    <3> QED
      BY <1>2, <2>1, <3>1 DEF AnsweredOf, SealedFrom, OpenedFrom
  <2>6. ASSUME NEW result, Gives(r, result)
        PROVE  AnsweredOf(r)'
    BY <2>1, <2>6, GivesKeeps
  <2> QED
    BY <2>2, <2>3, <2>4, <2>5, <2>6 DEF Does
<1> QED
  BY <1>3, <1>4, <1>5, <1>6 DEF ItemInv

\* What a create was told it made comes from its items.
LEMMA HeldSealed ==
    ASSUME ServiceInv, ItemInv, NEW s \in Held
    PROVE  \E c \in Requests : \E i : input[c].op = "create" /\ SealedFrom(c, i, s)
<1>1. PICK c \in Requests : input[c].op = "create" /\ s \in ToSet(out[c])
  BY DEF Held
<1>2. PICK i \in DOMAIN out[c] : s = out[c][i]
  BY <1>1 DEF ToSet
<1> QED
  BY <1>1, <1>2 DEF ItemInv, AnsweredOf

\* So the parts of what clients send are genuine, mispaired or not.
LEMMA ClientItemsGenuine ==
    ASSUME ServiceInv, ItemInv, NEW item \in ClientItems, item # Null
    PROVE  /\ Genuine(item.cipherText.ct) /\ Genuine(item.signature)
           /\ item.cipherText.ct.by = item.backend
<1>1. ASSUME NEW s \in Held
      PROVE  /\ Genuine(s.cipherText.ct) /\ Genuine(s.signature)
             /\ s.cipherText.ct.by = s.backend
  <2>1. PICK c \in Requests : \E i : input[c].op = "create" /\ SealedFrom(c, i, s)
    BY HeldSealed
  <2>2. PICK i : input[c].op = "create" /\ SealedFrom(c, i, s)
    BY <2>1
  <2> QED
    BY <2>2 DEF SealedFrom, Genuine, SealedText
<1>2. Held \subseteq EncryptedSecrets
  BY HeldType
<1>3. CASE item \in Held
  BY <1>1, <1>3
<1>4. ASSUME NEW s \in Held, NEW t \in Held, item = [s EXCEPT !.signature = t.signature]
      PROVE  /\ Genuine(item.cipherText.ct) /\ Genuine(item.signature)
             /\ item.cipherText.ct.by = item.backend
  <2>1. item.cipherText = s.cipherText /\ item.signature = t.signature /\ item.backend = s.backend
    BY <1>2, <1>4 DEF EncryptedSecrets
  <2> QED
    BY <1>1, <2>1
<1>5. ASSUME NEW s \in Held, NEW k \in KeyNames, item = [s EXCEPT !.keyName = k]
      PROVE  /\ Genuine(item.cipherText.ct) /\ Genuine(item.signature)
             /\ item.cipherText.ct.by = item.backend
  <2>1. item.cipherText = s.cipherText /\ item.signature = s.signature /\ item.backend = s.backend
    BY <1>2, <1>5 DEF EncryptedSecrets
  <2> QED
    BY <1>1, <2>1
<1> QED
  BY <1>3, <1>4, <1>5 DEF ClientItems

\* What a request was sent stays genuine while the creates keep their input.
LEMMA SentStays ==
    ASSUME NEW q \in Requests, SentOf(q), input'[q] = input[q],
           \A c \in Requests : input[c].op = "create" => input'[c] = input[c]
    PROVE  SentOf(q)'
<1> DEFINE item(i) == input[q].items[i]
<1> SUFFICES ASSUME input[q].op \in {"rewrap", "purge"},
                    NEW i \in DOMAIN input[q].items, item(i) # Null
             PROVE  /\ Genuine(item(i).cipherText.ct)' /\ Genuine(item(i).signature)'
                    /\ (item(i).cipherText.ct.by = item(i).backend)'
  BY DEF SentOf
<1>1. item(i)' = item(i)
  OBVIOUS
<1>2. /\ Genuine(item(i).cipherText.ct) /\ Genuine(item(i).signature)
      /\ item(i).cipherText.ct.by = item(i).backend
  BY DEF SentOf
<1> HIDE DEF item
<1> QED
  BY <1>1, <1>2 DEF Genuine, SealedText

LEMMA SentIsGenuine ==
    ASSUME NEW r \in Requests, NEW list, input'[r].items = list,
           \A i \in DOMAIN list : list[i] # Null =>
               /\ Genuine(list[i].cipherText.ct) /\ Genuine(list[i].signature)
               /\ list[i].cipherText.ct.by = list[i].backend,
           \A c \in Requests : input[c].op = "create" => input'[c] = input[c]
    PROVE  SentOf(r)'
<1>1. ASSUME NEW seal, Genuine(seal)
      PROVE  Genuine(seal)'
  BY <1>1 DEF Genuine, SealedText
<1>2. ASSUME NEW i \in DOMAIN list, list[i] # Null
      PROVE  Genuine(list[i].cipherText.ct)' /\ Genuine(list[i].signature)'
  BY <1>1, <1>2
<1> QED
  BY <1>2 DEF SentOf, Genuine, SealedText

LEMMA ArrivalKeepsItems ==
    ASSUME NEW r \in Requests, ServiceInv, Progress, ItemInv, Arrival(r)
    PROVE  ItemInv'
<1>1. UNCHANGED <<keyFile, disturbed>>
  BY DEF Arrival, CreateSecret, RewrapSecret, DeleteSecret, Receive, RejectBody, fileVars
<1>2. \A c \in Requests : input[c].op = "create" => input'[c] = input[c]
  BY ArrivalShape
<1>3. ASSUME NEW q \in Requests \ {r}
      PROVE  HandOf(q)' /\ AnsweredOf(q)' /\ SentOf(q)'
  <2>1. HandOf(q)' /\ AnsweredOf(q)'
    BY <1>1, ArrivalShape, OthersKeep DEF ItemInv
  <2>2. SentOf(q)'
    BY <1>2, ArrivalShape, SentStays DEF ItemInv
  <2> QED
    BY <2>1, <2>2
<1>4. HandOf(r)'
  BY ArrivalShape DEF HandOf, Fits
<1>5. AnsweredOf(r)'
  BY ArrivalShape DEF AnsweredOf
<1>6. SentOf(r)'
  <2>1. ASSUME NEW list \in Seq(ClientItems), input'[r].items = list
        PROVE  SentOf(r)'
    <3>1. \A i \in DOMAIN list : list[i] # Null =>
            /\ Genuine(list[i].cipherText.ct) /\ Genuine(list[i].signature)
            /\ list[i].cipherText.ct.by = list[i].backend
      <4> SUFFICES ASSUME NEW i \in DOMAIN list, list[i] # Null
                   PROVE  /\ Genuine(list[i].cipherText.ct) /\ Genuine(list[i].signature)
                          /\ list[i].cipherText.ct.by = list[i].backend
        OBVIOUS
      <4>1. list[i] \in ClientItems
        BY ElementOfSeq, LenProperties
      <4> QED
        BY <4>1, ClientItemsGenuine DEF ItemInv
    <3> QED
      BY <1>2, <2>1, <3>1, SentIsGenuine
  <2>2. CASE CreateSecret(r) \/ RejectBody(r)
    BY <2>2 DEF CreateSecret, RejectBody, Receive, SentOf, Unreadable, ServiceInv, ServiceTyped
  <2>3. CASE RewrapSecret(r) \/ DeleteSecret(r)
    <3>1. PICK list \in BoundedSeq(ClientItems, MaxItems) : input'[r].items = list
      BY <2>3 DEF RewrapSecret, DeleteSecret, Receive, ServiceInv, ServiceTyped
    <3>2. list \in Seq(ClientItems)
      BY BoundedSeqType DEF ListsOf
    <3> QED
      BY <2>1, <3>1, <3>2
  <2> QED
    BY <2>2, <2>3 DEF Arrival
<1> QED
  BY <1>3, <1>4, <1>5, <1>6 DEF ItemInv

\* Requests that are cut short keep what they have answered.
LEMMA CrashKeepsItems ==
    ASSUME ItemInv, Crash, UNCHANGED fileVars
    PROVE  ItemInv'
<1> SUFFICES ASSUME NEW r \in Requests PROVE HandOf(r)' /\ AnsweredOf(r)' /\ SentOf(r)'
  BY DEF ItemInv
<1>1. /\ UNCHANGED <<input, pos, out, reply, disturbed>>
      /\ pc'[r] \in {"idle", "delivered", "lost"}
  BY DEF Crash, Finished
<1>2. HandOf(r)'
  BY <1>1 DEF HandOf, Fits
<1>3. AnsweredOf(r)'
  BY <1>1 DEF ItemInv, AnsweredOf, SealedFrom, OpenedFrom, Working, Steps
<1>4. SentOf(r)'
  BY <1>1 DEF ItemInv, SentOf, Genuine, SealedText
<1> QED
  BY <1>2, <1>3, <1>4

\* A key file that is replaced marks the requests that use it.
LEMMA ReplaceKeepsItems ==
    ASSUME ServiceInv, ItemInv, NEW k \in KeyNames, NEW file, ReplaceKeyFile(k, file),
           UNCHANGED <<processVars, input, pc, pos, cur, out, reply, vaultVars>>
    PROVE  ItemInv'
<1> SUFFICES ASSUME NEW r \in Requests PROVE HandOf(r)' /\ AnsweredOf(r)' /\ SentOf(r)'
  BY DEF ItemInv
<1>1. disturbed' = disturbed \union Using(k) /\ keyFile' = [keyFile EXCEPT ![k] = file]
  BY DEF ReplaceKeyFile
<1>2. HandOf(r)'
  <2>1. Item(r)' = Item(r) /\ Nonce(r)' = Nonce(r)
    BY DEF Item, Nonce
  <2>2. ASSUME pc[r] \in {"store", "sign"}, Item(r).backend = "localkey"
        PROVE  FileOf(r)' = FileOf(r) \/ r \in disturbed'
    <3>1. up /\ pc[r] = "sign"
      BY <2>2 DEF ServiceInv, Work, WorkOf, Steps
    <3>2. CASE Item(r).keyName = k
      BY <1>1, <2>2, <3>1, <3>2 DEF Using, At, KeySteps
    <3>3. CASE Item(r).keyName # k
      BY <1>1, <2>1, <3>3 DEF FileOf
    <3> QED
      BY <3>2, <3>3
  <2> QED
    BY <1>1, <2>1, <2>2 DEF ItemInv, HandOf, Fits
<1>3. AnsweredOf(r)'
  BY <1>1 DEF ItemInv, AnsweredOf, SealedFrom, OpenedFrom
<1>4. SentOf(r)'
  BY DEF ItemInv, SentOf, Genuine, SealedText
<1> QED
  BY <1>2, <1>3, <1>4

LEMMA IdleKeepsItems ==
    ASSUME ItemInv, UNCHANGED <<requestVars, keyFile>>
    PROVE  ItemInv'
<1> SUFFICES ASSUME NEW r \in Requests PROVE HandOf(r)' /\ AnsweredOf(r)' /\ SentOf(r)'
  BY DEF ItemInv
<1>1. HandOf(r)' /\ AnsweredOf(r)'
  BY OthersKeep DEF requestVars, ItemInv
<1>2. SentOf(r)'
  BY SentStays DEF requestVars, ItemInv
<1> QED
  BY <1>1, <1>2

LEMMA InitItemInv ==
    ASSUME Init
    PROVE  ItemInv
BY DEF Init, InitService, NoInput, ItemInv, HandOf, Fits, AnsweredOf, SentOf

LEMMA NextItemInv ==
    ASSUME TypeInv, StorageInv, ItemInv, [Next]_vars
    PROVE  ItemInv'
<1>1. ServiceInv /\ Progress
  BY DEF TypeInv, StorageInv
<1>2. CASE \E r \in Requests : Arrival(r)
  BY <1>1, <1>2, ArrivalKeepsItems
<1>3. CASE \E r \in Requests : RequestStep(r)
  BY <1>1, <1>3, RequestStepDoes, DoesKeeps DEF ItemInv
<1>4. CASE Environment
  <2>1. CASE Crash /\ VaultOutlivesCrash /\ UNCHANGED fileVars
    BY <2>1, CrashKeepsItems
  <2>2. CASE (\E c \in Configs : Restart(c)) /\ UNCHANGED <<vaultVars, fileVars>>
    BY <2>2, IdleKeepsItems DEF Restart, fileVars
  <2>3. CASE VaultLate /\ UNCHANGED <<serviceVars, fileVars>>
    BY <2>3, IdleKeepsItems DEF serviceVars, fileVars
  <2>4. CASE /\ \E k \in KeyNames, file \in KeyFiles : ReplaceKeyFile(k, file)
             /\ UNCHANGED <<processVars, input, pc, pos, cur, out, reply, vaultVars>>
    BY <1>1, <2>4, ReplaceKeepsItems
  <2> QED
    BY <1>4, <2>1, <2>2, <2>3, <2>4 DEF Environment
<1>5. CASE UNCHANGED vars
  BY <1>5, IdleKeepsItems DEF vars, serviceVars, fileVars
<1> QED
  BY <1>2, <1>3, <1>4, <1>5 DEF Next, Quiet

-----------------------------------------------------------------------------
\* The invariant holds in every state of every behaviour.
THEOREM ItemInvariance == Spec => [](TypeInv /\ ItemInv)
<1>1. Init => ItemInv
  BY InitItemInv
<1>2. TypeInv /\ StorageInv /\ ItemInv /\ [Next]_vars => ItemInv'
  BY NextItemInv
<1> QED
  BY <1>1, <1>2, StorageInvariance, PTL DEF Spec

\* Both parts of every secret a client holds are made from the text it asked to
\* seal and under one key, whatever failed, died or was restarted meanwhile.
THEOREM HeldAsAsked == Spec => []SealedAsAsked
<1>1. TypeInv /\ ItemInv => SealedAsAsked
  <2> SUFFICES ASSUME TypeInv, ItemInv, NEW s \in Held, s.backend # "none"
               PROVE  /\ s.cipherText.ct.text = SealedText(s.cipherText.ct.n)
                      /\ s.signature.text = s.cipherText.ct.text
                      /\ s.backend = "vault" =>
                            {s.cipherText.ct.key, s.signature.key} = {s.keyName}
                      /\ s.backend = "localkey" =>
                            \/ s.signature.key = s.cipherText.ct.key
                            \/ s.cipherText.ct.n[1] \in disturbed
    BY DEF SealedAsAsked
  <2>1. PICK c \in Requests : \E i : input[c].op = "create" /\ SealedFrom(c, i, s)
    BY HeldSealed DEF TypeInv
  <2>2. PICK i : SealedFrom(c, i, s)
    BY <2>1
  <2> QED
    BY <2>2 DEF SealedFrom, SealedText
<1> QED
  BY <1>1, ItemInvariance, PTL

\* A rewrap that answers 200 answers every item with the text that was sealed in
\* its ciphertext and signed by its signature, under the client's key, however
\* the client paired them and whatever was replaced or restarted since.
THEOREM RewrapsAreTrue == Spec => []RewrapReturnsWhatWasSealed
<1>1. TypeInv /\ ItemInv => RewrapReturnsWhatWasSealed
  <2> SUFFICES ASSUME TypeInv, ItemInv,
                      NEW r \in Requests, input[r].op = "rewrap", reply[r] = 200
               PROVE  /\ Len(out[r]) = Len(input[r].items)
                      /\ \A i \in DOMAIN out[r] :
                          LET item == input[r].items[i]
                          IN  /\ out[r][i].to = input[r].rewrapKey
                              /\ \A n \in {item.cipherText.ct.n, item.signature.n} \ {NoNonce} :
                                  out[r][i].text = SealedText(n)
    BY DEF RewrapReturnsWhatWasSealed
  <2>1. Len(out[r]) = Len(input[r].items)
    BY DEF ItemInv, AnsweredOf
  <2>2. ASSUME NEW i \in DOMAIN out[r]
        PROVE  LET item == input[r].items[i]
               IN  /\ out[r][i].to = input[r].rewrapKey
                   /\ \A n \in {item.cipherText.ct.n, item.signature.n} \ {NoNonce} :
                       out[r][i].text = SealedText(n)
    <3>1. OpenedFrom(r, i, out[r][i])
      BY DEF ItemInv, AnsweredOf
    <3> DEFINE item == input[r].items[i]
    <3>2. Genuine(item.cipherText.ct) /\ Genuine(item.signature)
      BY <3>1 DEF ItemInv, SentOf, OpenedFrom
    <3>3. /\ out[r][i].to = input[r].rewrapKey
          /\ out[r][i].text = item.cipherText.ct.text /\ out[r][i].text = item.signature.text
      BY <3>1 DEF OpenedFrom
    <3>4. \A n \in {item.cipherText.ct.n, item.signature.n} \ {NoNonce} :
            out[r][i].text = SealedText(n)
      BY <3>2, <3>3 DEF Genuine
    <3> QED
      BY <3>3, <3>4
  <2> QED
    BY <2>1, <2>2
<1> QED
  BY <1>1, ItemInvariance, PTL
=============================================================================

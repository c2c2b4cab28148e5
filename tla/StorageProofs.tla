---------------------------- MODULE StorageProofs ----------------------------
(***************************************************************************)
(* What SecretDelivery does to Vault's storage, for every value of its     *)
(* constants: an object whose creator was told 200 is in a client's hands, *)
(* a secret a client holds is stored until a purge names it and, while the *)
(* token has a storage directory, what was purged stays away.              *)
(***************************************************************************)
EXTENDS SecretDeliveryProofs

-----------------------------------------------------------------------------
(* The inductive invariant. *)

\* The place of an object's item in the create that made it, from its nonce.
Place(p) == p.ct.n[2]

\* No client will learn what c stored.
Abandoned(c) == reply[c] = 400 \/ pc[c] = "lost"

\* A purge names the path.
PurgeNames(p) == \E r \in Requests : input[r].op = "purge" /\ Named(r, p)

Kept(p) == p \in stored \/ PurgeNames(p)

Working == Steps \union {"next"}

\* A request is undecided while it is worked on, and what a create has made so
\* far bears the nonces of its items, in their order.
ProgressOf(r) ==
    /\ pc[r] = "idle" => input[r] = NoInput
    /\ pc[r] \in Working \union {"idle"} => reply[r] = 0
    /\ input[r].op = "create" /\ pc[r] \in Working => Len(out[r]) = pos[r]
    /\ pc[r] \in {"store", "sign"} => cur[r].cipherText.ct.n = Nonce(r)
    /\ input[r].op = "create" =>
        \A i \in DOMAIN out[r] :
            InStorage(out[r][i]) => out[r][i].cipherText.ct.n = <<r, i>>

Progress == \A r \in Requests : ProgressOf(r)

Made(p) == Creator(p) \in Requests /\ input[Creator(p)].op = "create"

\* Its creator failed, or has listed it, or is about to.
Accounted(p) ==
    LET c == Creator(p)
    IN  \/ Abandoned(c)
        \/ Place(p) \in DOMAIN out[c] /\ out[c][Place(p)].cipherText = p
        \/ /\ Place(p) = pos[c] + 1
           /\ \/ pc[c] = "sign" /\ cur[c].cipherText = p
              \/ pc[c] = "store" /\ PathOf(c) = p

StoredAccounted == \A p \in stored : Made(p) /\ Accounted(p)

\* A late write is a failed create's, or was repeated; a late delete is a purge's.
LateOf(c) ==
    /\ c.call = "put" =>
        /\ Made(c.path) /\ Accounted(c.path)
        /\ Abandoned(Creator(c.path)) \/ Creator(c.path) \in repeated
    /\ c.call = "delete" => PurgeNames(c.path)

LateAccounted == \A c \in late : LateOf(c)

\* What a create has written stays unless a purge names it.
KeepsOf(r) ==
    /\ input[r].op = "create" =>
        \A i \in DOMAIN out[r] :
            InStorage(out[r][i]) => Kept(out[r][i].cipherText)
    /\ pc[r] = "sign" /\ cur[r].cipherText.dir # NoDir => Kept(cur[r].cipherText)

Keeps == \A r \in Requests : KeepsOf(r)

StorageInv == Progress /\ StoredAccounted /\ LateAccounted /\ Keeps

-----------------------------------------------------------------------------
(* The kinds of step a request takes, by what they do to the storage. *)

\* Nothing but request r moves, and r keeps its input; it may be marked.
Only(r) ==
    /\ UNCHANGED <<input, config>> /\ repeated' \in {repeated, repeated \union {r}}
    /\ \A q \in Requests \ {r} :
        /\ pc'[q] = pc[q] /\ pos'[q] = pos[q] /\ cur'[q] = cur[q]
        /\ out'[q] = out[q] /\ reply'[q] = reply[q]

\* It goes on within an item; a ciphertext it now has is raw and bears its nonce.
Moves(r) ==
    /\ Only(r) /\ UNCHANGED <<stored, late, repeated>>
    /\ pc[r] \in Working \ {"store"} /\ pc'[r] \in Steps
    /\ pos'[r] = pos[r] /\ out'[r] = out[r] /\ reply'[r] = reply[r]
    /\ pc[r] = "sign" => pc'[r] = "sign" /\ cur'[r].cipherText = cur[r].cipherText
    /\ pc'[r] \in {"store", "sign"} /\ pc[r] # "sign" =>
        cur'[r].cipherText.ct.n = Nonce(r) /\ cur'[r].cipherText.dir = NoDir

\* It writes its ciphertext to the storage.
Writes(r) ==
    /\ Only(r) /\ UNCHANGED <<late, repeated>>
    /\ stored' = stored \union {PathOf(r)}
    /\ pc[r] = "store" /\ pc'[r] = "sign" /\ cur'[r].cipherText = PathOf(r)
    /\ pos'[r] = pos[r] /\ out'[r] = out[r] /\ reply'[r] = reply[r]

MayBeUnderway(r, c) ==
    \/ pc[r] = "store" /\ c = Call("put", PathOf(r), r)
    \/ pc[r] = "delete" /\ c = Call("delete", Item(r).cipherText, r)

\* It fails, and Vault may still do what it asked for last.
Fails(r) ==
    /\ Only(r) /\ UNCHANGED <<stored, repeated>>
    /\ pc[r] \in Working /\ pc'[r] = "answer" /\ reply'[r] = 400
    /\ pos'[r] = pos[r] /\ out'[r] = << >>
    /\ \A c \in late' : c \in late \/ MayBeUnderway(r, c)

\* It waits on, and Vault may still carry out the attempt that is repeated.
Repeats(r) ==
    /\ Only(r) /\ UNCHANGED stored
    /\ pc[r] \in Working /\ pc'[r] = pc[r] /\ cur'[r] = cur[r]
    /\ repeated' = repeated \/ pc[r] = "store"
    /\ pos'[r] = pos[r] /\ out'[r] = out[r] /\ reply'[r] = reply[r]
    /\ \A c \in late' : \/ c \in late
                        \/ MayBeUnderway(r, c) /\ (c.call = "put" => r \in repeated')

\* It is done with an item.
Completes(r, result) ==
    /\ Only(r) /\ UNCHANGED <<late, repeated>>
    /\ pc[r] \in Steps /\ pc'[r] = "next"
    /\ pos'[r] = pos[r] + 1 /\ out'[r] = out[r] \o result /\ reply'[r] = reply[r]

\* The item is sealed.
Lists(r, s) ==
    /\ Completes(r, <<s>>) /\ UNCHANGED stored
    /\ \/ pc[r] = "sign" /\ s.cipherText = cur[r].cipherText
       \/ pc[r] = "encrypt" /\ ~InStorage(s)

\* The item is rewrapped or purged.
Serves(r, result) ==
    /\ Completes(r, result)
    /\ input[r].op # "create" /\ pc[r] # "sign"
    /\ stored' \subseteq stored
    /\ \A p \in stored \ stored' : pc[r] = "delete" /\ p = Item(r).cipherText
    /\ pc[r] = "delete" /\ InStorage(Item(r)) /\ Storing => Item(r).cipherText \notin stored'

\* It is answered, or the answer is sent.
Ends(r) ==
    /\ Only(r) /\ UNCHANGED <<stored, late, repeated>>
    /\ pos'[r] = pos[r] /\ out'[r] = out[r]
    /\ \/ /\ pc[r] = "next" /\ pc'[r] = "answer" /\ pos[r] = Len(input[r].items)
          /\ reply'[r] = IF input[r].op = "purge" THEN 204 ELSE 200
       \/ pc[r] = "answer" /\ pc'[r] \in Finished /\ reply'[r] = reply[r]

Effect(r) ==
    \/ Moves(r) \/ Writes(r) \/ Fails(r) \/ Repeats(r) \/ Ends(r)
    \/ \E s : Lists(r, s)
    \/ \E result : Serves(r, result)

-----------------------------------------------------------------------------
(* Whatever way a step of a request ends, it is of one of the kinds. *)

LEMMA AbortFails ==
    ASSUME NEW r \in Requests, ServiceInv, pc[r] \in Working, Abort(r),
           UNCHANGED <<processVars, stored, repeated>>,
           \A c \in late' : c \in late \/ MayBeUnderway(r, c)
    PROVE  Fails(r)
BY DEF ServiceInv, ServiceTyped, Abort, Fails, Only, processVars

LEMMA GoToMoves ==
    ASSUME NEW r \in Requests, ServiceInv, pc[r] \in Working \ {"store"},
           NEW step \in Steps, NEW locals, GoTo(r, step, locals),
           UNCHANGED <<processVars, stored, late, repeated>>,
           pc[r] = "sign" => step = "sign" /\ locals.cipherText = cur[r].cipherText,
           step \in {"store", "sign"} /\ pc[r] # "sign" =>
               locals.cipherText.ct.n = Nonce(r) /\ locals.cipherText.dir = NoDir
    PROVE  Moves(r)
<1>1. pc'[r] = step /\ cur'[r] = locals
  BY DEF ServiceInv, ServiceTyped, GoTo
<1> QED
  BY <1>1 DEF ServiceInv, ServiceTyped, GoTo, Moves, Only, processVars

LEMMA FinishCompletes ==
    ASSUME NEW r \in Requests, ServiceInv, pc[r] \in Steps,
           NEW result, FinishItem(r, result), UNCHANGED <<processVars, late, repeated>>
    PROVE  Completes(r, result)
BY DEF ServiceInv, ServiceTyped, FinishItem, Completes, Only, processVars

LEMMA SealLists ==
    ASSUME NEW r \in Requests, ServiceInv, pc[r] = "sign",
           NEW signature, SealItem(r, signature), UNCHANGED <<processVars, stored, late, repeated>>
    PROVE  \E s : Lists(r, s)
<1> DEFINE secret == [backend |-> Item(r).backend, keyName |-> Item(r).keyName,
                      cipherText |-> cur[r].cipherText, signature |-> signature]
<1>1. secret.cipherText = cur[r].cipherText
  OBVIOUS
<1>2. FinishItem(r, <<secret>>)
  BY DEF SealItem
<1> HIDE DEF secret
<1>3. Completes(r, <<secret>>)
  BY <1>2, FinishCompletes DEF Steps
<1> QED
  BY <1>1, <1>3 DEF Lists

LEMMA WrapEffect ==
    ASSUME NEW r \in Requests, ServiceInv, pc[r] \in {"decrypt", "verify"},
           NEW text, WrapItem(r, text), UNCHANGED <<processVars, stored, late, repeated>>
    PROVE  Effect(r)
<1>1. pc[r] \in Steps /\ pc[r] \in Working /\ input[r].op # "create"
  BY DEF Steps, Working, ServiceInv, Work, WorkOf
<1>2. CASE Abort(r)
  BY <1>1, <1>2, AbortFails DEF Effect
<1>3. ASSUME NEW result, FinishItem(r, result)
      PROVE  Effect(r)
  <2>1. Completes(r, result)
    BY <1>1, <1>3, FinishCompletes
  <2> QED
    BY <1>1, <2>1 DEF Effect, Serves
<1> QED
  BY <1>2, <1>3 DEF WrapItem

LEMMA HandlerEffect ==
    ASSUME NEW r \in Requests, ServiceInv, HandlerStep(r), UNCHANGED <<stored, late, repeated>>
    PROVE  Effect(r)
<1>1. CASE RefuseItem(r)
  BY <1>1, AbortFails DEF RefuseItem, Effect, Working
<1>2. CASE TakeItem(r)
  <2> DEFINE locals == IF input[r].op = "create"
                       THEN [Blank EXCEPT !.clearText = Normalise(Item(r).clearText)]
                       ELSE Blank
  <2>1. /\ pc[r] = "next" /\ GoTo(r, FirstStep(r), locals) /\ UNCHANGED processVars
        /\ input[r] \in Inputs
    BY <1>2 DEF TakeItem, ServiceInv, Work, WorkOf
  <2>2. input[r].op \in {"create", "rewrap", "purge"}
    BY <2>1, InputItems
  <2>3. FirstStep(r) \in Steps \ {"store", "sign"}
    BY <2>2 DEF FirstStep, Steps
  <2> HIDE DEF locals
  <2> QED
    BY <2>1, <2>3, GoToMoves DEF Effect, Working
<1>3. CASE Finish(r)
  BY <1>3 DEF Finish, Effect, Ends, Only, ServiceInv, ServiceTyped, processVars
<1>4. CASE Deliver(r)
  BY <1>4 DEF Deliver, Effect, Ends, Only, ServiceInv, ServiceTyped, processVars, Finished
<1> QED
  BY <1>1, <1>2, <1>3, <1>4 DEF HandlerStep

LEMMA VaultFailsEffect ==
    ASSUME NEW r \in Requests, ServiceInv, pc[r] \in Steps,
           NEW pending, VaultFails(r, pending), UNCHANGED processVars,
           \A c \in pending : MayBeUnderway(r, c)
    PROVE  Effect(r)
<1>1. \A c \in late' : c \in late \/ MayBeUnderway(r, c)
  BY DEF VaultFails
<1> QED
  BY <1>1, AbortFails DEF VaultFails, Effect, Working

LEMMA VaultEffect ==
    ASSUME NEW r \in Requests, ServiceInv, VaultRequestStep(r), UNCHANGED processVars
    PROVE  Effect(r)
<1>1. CASE VaultCallFails(r)
  BY <1>1, VaultFailsEffect DEF VaultCallFails, At
<1>2. CASE VaultEncrypt(r)
  <2> DEFINE locals == [cur[r] EXCEPT !.cipherText =
                Raw(Seal("vault", Item(r).keyName, cur[r].clearText, Nonce(r)))]
             step == IF Storing THEN "store" ELSE "sign"
  <2>1. pc[r] = "encrypt" /\ GoTo(r, step, locals) /\ UNCHANGED <<stored, late, repeated>>
    BY <1>2 DEF VaultEncrypt, At, NoFault
  <2>2. step \in Steps /\ pc[r] \in Working \ {"store"}
    BY <2>1 DEF Steps, Working
  <2>3. locals.cipherText.ct.n = Nonce(r) /\ locals.cipherText.dir = NoDir
    BY DEF ServiceInv, ServiceTyped, Raw, Seal
  <2> HIDE DEF locals, step
  <2> QED
    BY <2>1, <2>2, <2>3, GoToMoves DEF Effect
<1>3. CASE VaultStore(r)
  <2>1. pc[r] = "store" /\ pc[r] \in Steps
    BY <1>3 DEF VaultStore, At, Steps
  <2>2. CASE /\ stored' = stored \union {PathOf(r)} /\ NoFault
             /\ GoTo(r, "sign", [cur[r] EXCEPT !.cipherText = PathOf(r)])
    <3> DEFINE locals == [cur[r] EXCEPT !.cipherText = PathOf(r)]
    <3>1. locals.cipherText = PathOf(r)
      BY DEF ServiceInv, ServiceTyped
    <3>2. GoTo(r, "sign", locals)
      BY <2>2
    <3> HIDE DEF locals
    <3>3. pc'[r] = "sign" /\ cur'[r] = locals /\ Only(r)
      BY <2>2, <3>2 DEF GoTo, NoFault, ServiceInv, ServiceTyped, Only, processVars
    <3> QED
      BY <2>1, <2>2, <3>1, <3>2, <3>3 DEF Effect, Writes, GoTo, NoFault
  <2>3. CASE VaultFails(r, {Call("put", PathOf(r), r)})
    BY <2>1, <2>3, VaultFailsEffect DEF MayBeUnderway
  <2> QED
    BY <1>3, <2>2, <2>3 DEF VaultStore
<1>4. CASE VaultSign(r)
  BY <1>4, SealLists DEF VaultSign, At, NoFault, Effect
<1>5. CASE VaultFetch(r)
  <2>1. /\ pc[r] = "fetch" /\ UNCHANGED <<stored, late, repeated>>
        /\ Abort(r) \/ \E locals : GoTo(r, "decrypt", locals)
    BY <1>5 DEF VaultFetch, At, NoFault
  <2> QED
    BY <2>1, AbortFails, GoToMoves DEF Effect, Steps, Working
<1>6. CASE VaultDecrypt(r)
  <2>1. /\ pc[r] = "decrypt" /\ UNCHANGED <<stored, late, repeated>>
        /\ Abort(r) \/ \E locals : GoTo(r, "verify", locals)
    BY <1>6 DEF VaultDecrypt, At, NoFault
  <2> QED
    BY <2>1, AbortFails, GoToMoves DEF Effect, Steps, Working
<1>7. CASE VaultVerify(r)
  <2>1. /\ pc[r] = "verify" /\ UNCHANGED <<stored, late, repeated>>
        /\ Abort(r) \/ WrapItem(r, cur[r].clearText)
    BY <1>7 DEF VaultVerify, At, NoFault
  <2> QED
    BY <2>1, AbortFails, WrapEffect DEF Effect, Steps, Working
<1>8. CASE VaultDelete(r)
  <2>1. /\ pc[r] = "delete" /\ pc[r] \in Steps /\ input[r].op # "create"
        /\ Item(r).backend = "vault"
    BY <1>8 DEF VaultDelete, At, Steps, ServiceInv, Work, WorkOf
  <2>2. CASE FinishItem(r, << >>) /\ NoFault /\ ~Storing /\ UNCHANGED stored
    <3>1. Completes(r, << >>)
      BY <2>1, <2>2, FinishCompletes DEF NoFault
    <3> QED
      BY <2>1, <2>2, <3>1 DEF Effect, Serves
  <2>3. CASE FinishItem(r, << >>) /\ NoFault /\ stored' = stored \ {Item(r).cipherText}
    <3>1. Completes(r, << >>)
      BY <2>1, <2>3, FinishCompletes DEF NoFault
    <3> QED
      BY <2>1, <2>3, <3>1 DEF Effect, Serves
  <2>4. CASE Abort(r) /\ NoFault /\ UNCHANGED stored
    BY <2>1, <2>4, AbortFails DEF NoFault, Effect, Working
  <2>5. CASE VaultFails(r, {Call("delete", Item(r).cipherText, r)})
    BY <2>1, <2>5, VaultFailsEffect DEF MayBeUnderway
  <2> QED
    BY <1>8, <2>2, <2>3, <2>4, <2>5 DEF VaultDelete
<1>9. CASE VaultRepeatStore(r)
  <2>1. pc[r] = "store" /\ VaultRepeats(Call("put", PathOf(r), r))
    BY <1>9 DEF VaultRepeatStore, At
  <2>2. repeated' = repeated \union {r}
    BY <1>9 DEF VaultRepeatStore
  <2> QED
    BY <2>1, <2>2 DEF VaultRepeats, requestVars, processVars, Effect, Repeats, MayBeUnderway,
                      Only, Working, Steps
<1>10. CASE VaultRepeatDelete(r)
  <2>1. pc[r] = "delete" /\ VaultRepeats(Call("delete", Item(r).cipherText, r))
    BY <1>10 DEF VaultRepeatDelete, At
  <2>2. repeated' = repeated
    BY <1>10 DEF VaultRepeatDelete
  <2> QED
    BY <2>1, <2>2 DEF VaultRepeats, requestVars, processVars, Effect, Repeats, MayBeUnderway,
                      Call, Only, Working, Steps
<1> QED
  BY <1>1, <1>2, <1>3, <1>4, <1>5, <1>6, <1>7, <1>8, <1>9, <1>10 DEF VaultRequestStep

LEMMA LocalEffect ==
    ASSUME NEW r \in Requests, ServiceInv, LocalRequestStep(r),
           UNCHANGED <<processVars, stored, late, repeated>>
    PROVE  Effect(r)
<1>1. CASE CheckKeyFile(r)
  <2> DEFINE locals == [cur[r] EXCEPT !.checked = TRUE]
  <2>1. pc[r] \in KeySteps /\ (Abort(r) \/ GoTo(r, pc[r], locals))
    BY <1>1 DEF CheckKeyFile, At
  <2>2. locals.cipherText = cur[r].cipherText
    BY DEF ServiceInv, ServiceTyped
  <2>3. pc[r] \in Steps \ {"store"} /\ pc[r] \in Working \ {"store"}
    BY <2>1 DEF KeySteps, Steps, Working
  <2> HIDE DEF locals
  <2> QED
    BY <2>1, <2>2, <2>3, AbortFails, GoToMoves DEF Effect
<1>2. CASE LocalEncrypt(r)
  <2> DEFINE locals == [cur[r] EXCEPT !.checked = FALSE, !.cipherText =
                Raw(Seal("localkey", FileOf(r).key, cur[r].clearText, Nonce(r)))]
  <2>1. pc[r] = "encrypt" /\ (Abort(r) \/ GoTo(r, "sign", locals))
    BY <1>2 DEF LocalEncrypt, Loading, At
  <2>2. locals.cipherText.ct.n = Nonce(r) /\ locals.cipherText.dir = NoDir
    BY DEF ServiceInv, ServiceTyped, Raw, Seal
  <2> HIDE DEF locals
  <2> QED
    BY <2>1, <2>2, AbortFails, GoToMoves DEF Effect, Steps, Working
<1>3. CASE LocalSign(r)
  <2>1. /\ pc[r] = "sign"
        /\ Abort(r) \/ \E signature : SealItem(r, signature)
    BY <1>3 DEF LocalSign, Loading, At
  <2> QED
    BY <2>1, AbortFails, SealLists DEF Effect, Steps, Working
<1>4. CASE LocalDecrypt(r)
  <2>1. /\ pc[r] = "decrypt"
        /\ Abort(r) \/ \E locals : GoTo(r, "verify", locals)
    BY <1>4 DEF LocalDecrypt, Loading, At
  <2> QED
    BY <2>1, AbortFails, GoToMoves DEF Effect, Steps, Working
<1>5. CASE LocalVerify(r)
  <2>1. /\ pc[r] = "verify"
        /\ Abort(r) \/ WrapItem(r, cur[r].clearText)
    BY <1>5 DEF LocalVerify, Loading, At
  <2> QED
    BY <2>1, AbortFails, WrapEffect DEF Effect, Steps, Working
<1>6. CASE LocalDelete(r)
  <2>1. /\ pc[r] = "delete" /\ pc[r] \in Steps /\ input[r].op # "create"
        /\ ~InStorage(Item(r)) /\ FinishItem(r, << >>)
    BY <1>6 DEF LocalDelete, At, Steps, ServiceInv, Work, WorkOf, InStorage
  <2>2. Completes(r, << >>)
    BY <2>1, FinishCompletes
  <2> QED
    BY <2>1, <2>2 DEF Effect, Serves
<1> QED
  BY <1>1, <1>2, <1>3, <1>4, <1>5, <1>6 DEF LocalRequestStep

LEMMA NoneEffect ==
    ASSUME NEW r \in Requests, ServiceInv, NoneRequestStep(r),
           UNCHANGED <<processVars, stored, late, repeated>>
    PROVE  Effect(r)
<1>1. CASE NoneSeal(r)
  <2> DEFINE secret == [backend |-> "none", keyName |-> Item(r).keyName,
                        cipherText |-> Raw(NoneSealOf(cur[r].clearText)),
                        signature |-> NoneSealOf(cur[r].clearText)]
  <2>1. pc[r] = "encrypt" /\ pc[r] \in Steps /\ FinishItem(r, <<secret>>)
    BY <1>1 DEF NoneSeal, At, Steps
  <2>2. ~InStorage(secret)
    BY DEF InStorage
  <2> HIDE DEF secret
  <2>3. Completes(r, <<secret>>)
    BY <2>1, FinishCompletes
  <2> QED
    BY <2>1, <2>2, <2>3 DEF Effect, Lists
<1>2. CASE NoneRewrap(r)
  <2>1. /\ pc[r] = "decrypt"
        /\ Abort(r) \/ WrapItem(r, Item(r).cipherText.ct.text)
    BY <1>2 DEF NoneRewrap, At
  <2> QED
    BY <2>1, AbortFails, WrapEffect DEF Effect, Steps, Working
<1>3. CASE NoneDelete(r)
  <2>1. /\ pc[r] = "delete" /\ pc[r] \in Steps /\ input[r].op # "create"
        /\ ~InStorage(Item(r)) /\ FinishItem(r, << >>)
    BY <1>3 DEF NoneDelete, At, Steps, ServiceInv, Work, WorkOf, InStorage
  <2>2. Completes(r, << >>)
    BY <2>1, FinishCompletes
  <2> QED
    BY <2>1, <2>2 DEF Effect, Serves
<1> QED
  BY <1>1, <1>2, <1>3 DEF NoneRequestStep

\* Every step of a request is of one of the kinds.
LEMMA RequestStepEffect ==
    ASSUME NEW r \in Requests, ServiceInv, RequestStep(r)
    PROVE  Effect(r)
BY HandlerEffect, VaultEffect, LocalEffect, NoneEffect DEF RequestStep, vaultVars

-----------------------------------------------------------------------------
(* The steps of the requests keep the invariant. *)

\* A list with one more item.
LEMMA OneMore ==
    ASSUME NEW S, NEW list \in Seq(S), NEW s \in S
    PROVE  /\ list \o <<s>> \in Seq(S) /\ Len(list \o <<s>>) = Len(list) + 1
           /\ \A i \in 1..Len(list) : (list \o <<s>>)[i] = list[i]
           /\ (list \o <<s>>)[Len(list) + 1] = s
OBVIOUS

\* What a create lists goes to the end of its response.
LEMMA ListsAtEnd ==
    ASSUME NEW r \in Requests, ServiceInv, Progress, NEW s, Lists(r, s)
    PROVE  /\ input[r].op = "create" /\ pos[r] \in Nat
           /\ DOMAIN out[r] = 1..pos[r] /\ DOMAIN out'[r] = 1..(pos[r] + 1)
           /\ Len(out'[r]) = pos[r] + 1
           /\ \A i \in 1..pos[r] : out'[r][i] = out[r][i]
           /\ out'[r][pos[r] + 1] = s
<1>1. input[r].op = "create" /\ pc[r] \in Working
  BY DEF Lists, Working, Steps, ServiceInv, Work, WorkOf
<1>2. Len(out[r]) = pos[r] /\ pos[r] \in Nat
  BY <1>1, DataAssumption DEF Progress, ProgressOf, ServiceInv, ServiceTyped
<1>3. out[r] \in Seq(EncryptedSecrets \union Envelopes)
  BY DEF ServiceInv, ServiceTyped
<1>4. out'[r] = out[r] \o <<s>>
  BY DEF Lists, Completes
<1> DEFINE S == EncryptedSecrets \union Envelopes \union {s}
<1>5. out[r] \in Seq(S)
  BY <1>3, SeqMonotonic, Zenon
<1>6. s \in S
  OBVIOUS
<1> HIDE DEF S
<1>7. /\ Len(out'[r]) = pos[r] + 1 /\ out'[r] \in Seq(S)
      /\ \A i \in 1..pos[r] : out'[r][i] = out[r][i]
      /\ out'[r][pos[r] + 1] = s
  BY <1>2, <1>4, <1>5, <1>6, OneMore
<1>8. DOMAIN out[r] = 1..pos[r] /\ DOMAIN out'[r] = 1..(pos[r] + 1)
  BY <1>2, <1>5, <1>7, LenProperties
<1> QED
  BY <1>1, <1>2, <1>7, <1>8

\* No step of a request moves another one.
LEMMA EffectOnly ==
    ASSUME NEW r \in Requests, Effect(r)
    PROVE  Only(r)
BY DEF Effect, Moves, Writes, Fails, Repeats, Ends, Lists, Serves, Completes

LEMMA EffectKeepsProgress ==
    ASSUME NEW r \in Requests, ServiceInv, Progress, Effect(r)
    PROVE  Progress'
<1> SUFFICES ASSUME NEW q \in Requests PROVE ProgressOf(q)'
  BY DEF Progress
<1>1. Only(r)
  BY EffectOnly
<1>2. CASE q # r
  BY <1>1, <1>2 DEF Only, Progress, ProgressOf, Nonce, InStorage
<1>3. CASE q = r
  <2>1. ProgressOf(r) /\ input' = input /\ pc[r] \in Places
    BY <1>1 DEF Progress, Only, ServiceInv, ServiceTyped
  <2>2. CASE Moves(r)
    BY <1>3, <2>1, <2>2 DEF Moves, ProgressOf, Nonce, InStorage, Working, Steps
  <2>3. CASE Writes(r)
    <3>1. PathOf(r).ct = cur[r].cipherText.ct
      BY DEF PathOf, ServiceInv, ServiceTyped, CipherTexts
    <3> QED
      BY <1>3, <2>1, <2>3, <3>1 DEF Writes, ProgressOf, Nonce, InStorage, Working, Steps
  <2>4. CASE Fails(r)
    BY <1>3, <2>1, <2>4 DEF Fails, ProgressOf, Working, Steps
  <2>5. CASE Ends(r)
    BY <1>3, <2>1, <2>5 DEF Ends, ProgressOf, InStorage, Working, Steps, Finished
  <2>6. ASSUME NEW s, Lists(r, s) PROVE ProgressOf(r)'
    <3>1. /\ pc'[r] = "next" /\ pos'[r] = pos[r] + 1 /\ reply'[r] = reply[r]
          /\ pc[r] \in {"sign", "encrypt"}
      BY <2>6 DEF Lists, Completes
    <3>2. InStorage(s) => s.cipherText.ct.n = <<r, pos[r] + 1>>
      BY <2>1, <2>6 DEF Lists, ProgressOf, Nonce
    <3>3. pc[r] \in Working /\ reply'[r] = 0 /\ Len(out'[r]) = pos'[r]
      BY <2>1, <2>6, <3>1, ListsAtEnd DEF ProgressOf, Working, Steps
    <3>4. ASSUME NEW i \in DOMAIN out'[r], InStorage(out'[r][i])
          PROVE  out'[r][i].cipherText.ct.n = <<r, i>>
      <4>1. CASE i \in 1..pos[r]
        BY <2>1, <2>6, <3>4, <4>1, ListsAtEnd DEF ProgressOf
      <4>2. CASE i = pos[r] + 1
        BY <2>6, <3>2, <3>4, <4>2, ListsAtEnd
      <4> QED
        BY <2>6, <4>1, <4>2, ListsAtEnd
    <3> QED
      BY <3>1, <3>3, <3>4 DEF ProgressOf, InStorage
  <2>7. ASSUME NEW result, Serves(r, result) PROVE ProgressOf(r)'
    BY <2>1, <2>7 DEF Serves, Completes, ProgressOf, Working, Steps
  <2>8. CASE Repeats(r)
    BY <1>3, <2>1, <2>8 DEF Repeats, ProgressOf, Nonce, InStorage
  <2> QED
    BY <1>3, <2>2, <2>3, <2>4, <2>5, <2>6, <2>7, <2>8 DEF Effect
<1> QED
  BY <1>2, <1>3

\* A failed request stays failed.
LEMMA EffectKeepsAbandoned ==
    ASSUME NEW r \in Requests, Progress, Effect(r), NEW c \in Requests, Abandoned(c)
    PROVE  Abandoned(c)'
<1>1. CASE c # r
  BY <1>1, EffectOnly DEF Abandoned, Only
<1>2. CASE c = r
  <2>1. pc[r] \in Working => reply[r] = 0
    BY DEF Progress, ProgressOf
  <2>2. pc[r] \notin Working
    BY <1>2, <2>1 DEF Abandoned, Working, Steps
  <2>3. Ends(r)
    BY <2>2 DEF Effect, Moves, Writes, Fails, Repeats, Lists, Serves, Completes, Working, Steps
  <2> QED
    BY <1>2, <2>2, <2>3 DEF Ends, Abandoned, Working
<1> QED
  BY <1>1, <1>2

\* Only a write makes an object.
LEMMA EffectStored ==
    ASSUME NEW r \in Requests, Effect(r)
    PROVE  Writes(r) \/ stored' \subseteq stored
<1>1. Moves(r) \/ Fails(r) \/ Repeats(r) \/ Ends(r) => stored' = stored
  BY DEF Moves, Fails, Repeats, Ends
<1>2. ASSUME NEW s, Lists(r, s) PROVE stored' = stored
  BY <1>2 DEF Lists
<1>3. ASSUME NEW result, Serves(r, result) PROVE stored' \subseteq stored
  BY <1>3 DEF Serves
<1> QED
  BY <1>1, <1>2, <1>3 DEF Effect

\* The path a create writes to bears its nonce.
LEMMA PathOfMade ==
    ASSUME NEW r \in Requests, ServiceInv, Progress, pc[r] = "store"
    PROVE  /\ Creator(PathOf(r)) = r /\ Place(PathOf(r)) = pos[r] + 1
           /\ input[r].op = "create"
<1>1. PathOf(r).ct = cur[r].cipherText.ct
  BY DEF PathOf, ServiceInv, ServiceTyped, CipherTexts
<1>2. cur[r].cipherText.ct.n = <<r, pos[r] + 1>> /\ input[r].op = "create"
  BY DEF Progress, ProgressOf, Nonce, ServiceInv, Work, WorkOf
<1> QED
  BY <1>1, <1>2 DEF Creator, Place

\* What is accounted for stays accounted for.
LEMMA EffectKeepsAccounted ==
    ASSUME NEW r \in Requests, ServiceInv, Progress, Effect(r), NEW p, Made(p), Accounted(p)
    PROVE  Accounted(p)'
<1> DEFINE c == Creator(p)
           listed == Place(p) \in DOMAIN out[c] /\ out[c][Place(p)].cipherText = p
           signing == pc[c] = "sign" /\ Place(p) = pos[c] + 1 /\ cur[c].cipherText = p
           storing == pc[c] = "store" /\ Place(p) = pos[c] + 1 /\ PathOf(c) = p
<1>1. Only(r) /\ Creator(p)' = c /\ Place(p)' = Place(p)
  BY EffectOnly DEF Creator, Place
<1>2. Abandoned(c) \/ listed \/ signing \/ storing
  BY DEF Accounted
<1>3. c \in Requests /\ input[c].op = "create"
  BY DEF Made
<1>4. CASE Abandoned(c)
  <2>1. Abandoned(c)'
    BY <1>3, <1>4, EffectKeepsAbandoned
  <2> QED
    BY <1>1, <2>1 DEF Accounted, Abandoned
<1>5. CASE c # r
  BY <1>1, <1>2, <1>3, <1>5 DEF Only, Accounted, Abandoned, PathOf
<1>6. CASE c = r /\ (listed \/ signing \/ storing)
  <2>1. CASE Moves(r) \/ Ends(r)
    BY <1>1, <1>3, <1>6, <2>1 DEF Moves, Ends, Accounted
  <2>2. CASE Writes(r)
    BY <1>1, <1>3, <1>6, <2>2 DEF Writes, Accounted
  <2>3. CASE Fails(r)
    BY <1>1, <1>3, <1>6, <2>3 DEF Fails, Accounted, Abandoned
  <2>4. CASE Repeats(r)
    BY <1>1, <1>3, <1>6, <2>4 DEF Repeats, Only, Accounted, PathOf
  <2>5. ASSUME NEW s, Lists(r, s) PROVE Accounted(p)'
    <3>1. CASE listed
      <4>1. Place(p) \in 1..pos[r] /\ Place(p) \in DOMAIN out'[r]
        BY <1>6, <2>5, <3>1, ListsAtEnd
      <4>2. out'[r][Place(p)] = out[r][Place(p)]
        BY <2>5, <4>1, ListsAtEnd
      <4> QED
        BY <1>1, <1>6, <3>1, <4>1, <4>2 DEF Accounted
    <3>2. CASE signing
      <4>1. Place(p) \in DOMAIN out'[r] /\ out'[r][Place(p)] = s
        BY <1>6, <2>5, <3>2, ListsAtEnd
      <4>2. s.cipherText = p
        BY <1>6, <2>5, <3>2 DEF Lists
      <4> QED
        BY <1>1, <1>6, <4>1, <4>2 DEF Accounted
    <3> QED
      BY <1>6, <2>5, <3>1, <3>2 DEF Lists
  <2>6. ASSUME NEW result, Serves(r, result) PROVE FALSE
    BY <1>3, <1>6, <2>6 DEF Serves
  <2> QED
    BY <2>1, <2>2, <2>3, <2>4, <2>5, <2>6 DEF Effect
<1> QED
  BY <1>2, <1>4, <1>5, <1>6

LEMMA EffectKeepsStored ==
    ASSUME NEW r \in Requests, ServiceInv, Progress, StoredAccounted, Effect(r)
    PROVE  StoredAccounted'
<1> SUFFICES ASSUME NEW p \in stored' PROVE Made(p)' /\ Accounted(p)'
  BY DEF StoredAccounted
<1>1. Only(r)
  BY EffectOnly
<1>2. CASE p \in stored
  <2>1. Made(p) /\ Accounted(p)
    BY <1>2 DEF StoredAccounted
  <2>2. Accounted(p)'
    BY <2>1, EffectKeepsAccounted
  <2> QED
    BY <1>1, <2>1, <2>2 DEF Only, Made, Creator
<1>3. CASE p \notin stored
  <2>1. Writes(r) /\ p = PathOf(r)
    BY <1>3, EffectStored DEF Writes
  <2>2. Creator(p) = r /\ Place(p) = pos[r] + 1 /\ input[r].op = "create"
    BY <2>1, PathOfMade DEF Writes
  <2>3. Creator(p)' = r /\ Place(p)' = pos[r] + 1
    BY <2>2 DEF Creator, Place
  <2> QED
    BY <1>1, <2>1, <2>2, <2>3 DEF Writes, Only, Made, Accounted
<1> QED
  BY <1>2, <1>3

\* What a purge deletes, it names.
LEMMA DeletedIsNamed ==
    ASSUME NEW r \in Requests, ServiceInv, pc[r] = "delete"
    PROVE  PurgeNames(Item(r).cipherText)
<1>1. pc[r] \in Steps /\ input[r].op = "purge"
  BY DEF Steps, ServiceInv, Work, WorkOf
<1>2. /\ input[r] \in Inputs /\ pos[r] + 1 \in 1..Len(input[r].items)
      /\ Item(r) \in EncryptedSecrets
  BY <1>1, ItemType
<1>3. pos[r] + 1 \in DOMAIN input[r].items /\ Item(r) # Null
  BY <1>2, InputItems, LenProperties, DataAssumption
<1> QED
  BY <1>1, <1>3 DEF PurgeNames, Named, Item

LEMMA EffectKeepsLate ==
    ASSUME NEW r \in Requests, ServiceInv, Progress, LateAccounted, Effect(r)
    PROVE  LateAccounted'
<1> SUFFICES ASSUME NEW c \in late' PROVE LateOf(c)'
  BY DEF LateAccounted
<1>1. Only(r)
  BY EffectOnly
<1>2. PurgeNames(c.path)' <=> PurgeNames(c.path)
  BY <1>1 DEF PurgeNames, Named, Only
<1>3. Made(c.path)' <=> Made(c.path)
  BY <1>1 DEF Made, Creator, Only
<1>4. Made(c.path) /\ Accounted(c.path) => Accounted(c.path)'
  BY EffectKeepsAccounted
<1>5. CASE c \in late
  <2>1. LateOf(c)
    BY <1>5 DEF LateAccounted
  <2>2. ASSUME c.call = "put", Abandoned(Creator(c.path)) PROVE Abandoned(Creator(c.path))'
    BY <2>1, <2>2, EffectKeepsAbandoned DEF LateOf, Made
  <2>3. Abandoned(Creator(c.path))' \/ Creator(c.path) \in repeated' \/ c.call # "put"
    BY <1>1, <2>1, <2>2 DEF LateOf, Only
  <2> QED
    BY <1>2, <1>3, <1>4, <2>1, <2>3 DEF LateOf, Abandoned, Creator
<1>6. CASE c \notin late
  <2>1. /\ MayBeUnderway(r, c)
        /\ Fails(r) \/ (c.call = "put" => r \in repeated')
    BY <1>6 DEF Effect, Moves, Writes, Fails, Repeats, Ends, Lists, Serves, Completes
  <2>2. CASE pc[r] = "store" /\ c = Call("put", PathOf(r), r)
    <3>1. c.call = "put" /\ c.path = PathOf(r)
      BY <2>2 DEF Call
    <3>2. Creator(c.path) = r /\ Made(c.path) /\ Place(c.path) = pos[r] + 1
      BY <2>2, <3>1, PathOfMade DEF Made
    <3>3. Accounted(c.path)
      BY <2>2, <3>1, <3>2 DEF Accounted
    <3>4. reply'[r] = 400 \/ r \in repeated'
      BY <2>1, <3>1 DEF Fails
    <3> QED
      BY <1>3, <1>4, <3>1, <3>2, <3>3, <3>4 DEF LateOf, Abandoned, Creator
  <2>3. CASE pc[r] = "delete" /\ c = Call("delete", Item(r).cipherText, r)
    <3>1. c.call = "delete" /\ c.path = Item(r).cipherText
      BY <2>3 DEF Call
    <3> QED
      BY <1>2, <2>3, <3>1, DeletedIsNamed DEF LateOf
  <2> QED
    BY <2>1, <2>2, <2>3 DEF MayBeUnderway
<1> QED
  BY <1>5, <1>6

\* What a create has written stays, or a purge names it.
LEMMA EffectKeepsKept ==
    ASSUME NEW r \in Requests, ServiceInv, Effect(r), NEW p, Kept(p)
    PROVE  Kept(p)'
<1>1. Only(r)
  BY EffectOnly
<1>2. PurgeNames(p)' <=> PurgeNames(p)
  BY <1>1 DEF PurgeNames, Named, Only
<1>3. CASE p \in stored /\ p \notin stored'
  <2>1. pc[r] = "delete" /\ p = Item(r).cipherText
    BY <1>3 DEF Effect, Moves, Writes, Fails, Repeats, Ends, Lists, Serves
  <2> QED
    BY <1>2, <2>1, DeletedIsNamed DEF Kept
<1> QED
  BY <1>2, <1>3 DEF Kept

LEMMA EffectKeepsKeeps ==
    ASSUME NEW r \in Requests, ServiceInv, Progress, Keeps, Effect(r)
    PROVE  Keeps'
<1> SUFFICES ASSUME NEW q \in Requests PROVE KeepsOf(q)'
  BY DEF Keeps
<1>1. Only(r) /\ KeepsOf(q)
  BY EffectOnly DEF Keeps
<1>2. \A p : Kept(p) => Kept(p)'
  BY EffectKeepsKept
<1> DEFINE ListKept == \A i \in DOMAIN out[q] :
                           InStorage(out[q][i]) => Kept(out[q][i].cipherText)
           CurKept == cur[q].cipherText.dir # NoDir => Kept(cur[q].cipherText)
<1>3. CASE q # r
  BY <1>1, <1>2, <1>3 DEF Only, KeepsOf, InStorage
<1>4. CASE q = r
  <2>1. input'[r] = input[r] /\ (input[r].op = "create" => ListKept) /\ (pc[r] = "sign" => CurKept)
    BY <1>1, <1>4 DEF Only, KeepsOf
  <2>2. CASE Moves(r)
    BY <1>2, <1>4, <2>1, <2>2 DEF Moves, KeepsOf, InStorage
  <2>3. CASE Writes(r)
    <3>1. cur'[r].cipherText \in stored'
      BY <2>3 DEF Writes
    <3>2. out'[r] = out[r]
      BY <2>3 DEF Writes
    <3> QED
      BY <1>2, <1>4, <2>1, <3>1, <3>2 DEF KeepsOf, InStorage, Kept
  <2>4. CASE Fails(r)
    BY <1>4, <2>4 DEF Fails, KeepsOf
  <2>5. CASE Ends(r)
    BY <1>2, <1>4, <2>1, <2>5 DEF Ends, KeepsOf, InStorage, Finished
  <2>6. ASSUME NEW s, Lists(r, s) PROVE KeepsOf(q)'
    <3>1. pc'[r] = "next"
      BY <2>6 DEF Lists, Completes
    <3>2. InStorage(s) => Kept(s.cipherText)
      BY <1>4, <2>1, <2>6 DEF Lists, InStorage
    <3>3. ASSUME NEW i \in DOMAIN out'[r], InStorage(out'[r][i])
          PROVE  Kept(out'[r][i].cipherText)
      <4>1. CASE i \in 1..pos[r]
        BY <1>4, <2>1, <2>6, <3>3, <4>1, ListsAtEnd
      <4>2. CASE i = pos[r] + 1
        BY <2>6, <3>2, <3>3, <4>2, ListsAtEnd
      <4> QED
        BY <2>6, <4>1, <4>2, ListsAtEnd
    <3> QED
      BY <1>2, <1>4, <3>1, <3>3 DEF KeepsOf, InStorage
  <2>7. ASSUME NEW result, Serves(r, result) PROVE KeepsOf(q)'
    BY <1>4, <2>1, <2>7 DEF Serves, Completes, KeepsOf
  <2>8. CASE Repeats(r)
    BY <1>2, <1>4, <2>1, <2>8 DEF Repeats, KeepsOf, InStorage
  <2> QED
    BY <2>2, <2>3, <2>4, <2>5, <2>6, <2>7, <2>8 DEF Effect
<1> QED
  BY <1>3, <1>4

LEMMA EffectKeepsStorage ==
    ASSUME NEW r \in Requests, ServiceInv, StorageInv, Effect(r)
    PROVE  StorageInv'
BY EffectKeepsProgress, EffectKeepsStored, EffectKeepsLate, EffectKeepsKeeps DEF StorageInv

-----------------------------------------------------------------------------
(* So do the other steps. *)

\* What an arriving request changes.
LEMMA ArrivalShape ==
    ASSUME NEW r \in Requests, ServiceInv, Progress, Arrival(r)
    PROVE  /\ pc[r] = "idle" /\ pos[r] = 0 /\ out[r] = << >> /\ reply[r] = 0
           /\ input[r].op = "none"
           /\ \/ pc'[r] = "next" /\ reply'[r] = 0
              \/ pc'[r] = "answer" /\ reply'[r] = 400
           /\ UNCHANGED <<config, pos, cur, out, stored, late, repeated>>
           /\ \A q \in Requests \ {r} :
                input'[q] = input[q] /\ pc'[q] = pc[q] /\ reply'[q] = reply[q]
<1>1. pc[r] = "idle"
  BY DEF Arrival, CreateSecret, RewrapSecret, DeleteSecret, Receive, RejectBody
<1>2. input[r] = NoInput /\ reply[r] = 0 /\ pos[r] = 0 /\ out[r] = << >>
  BY <1>1 DEF Progress, ProgressOf, ServiceInv, Work, WorkOf
<1>3. CASE RejectBody(r)
  BY <1>1, <1>2, <1>3 DEF RejectBody, NoInput, Arrival, vaultVars, processVars,
                         ServiceInv, ServiceTyped
<1>4. ASSUME NEW in, Receive(r, in) PROVE
           /\ pc'[r] = "next" /\ UNCHANGED <<config, pos, cur, out, reply>>
           /\ \A q \in Requests \ {r} : input'[q] = input[q] /\ pc'[q] = pc[q]
  BY <1>4 DEF Receive, processVars, ServiceInv, ServiceTyped
<1>5. RejectBody(r) \/ \E in : Receive(r, in)
  BY DEF Arrival, CreateSecret, RewrapSecret, DeleteSecret
<1> QED
  BY <1>1, <1>2, <1>3, <1>4, <1>5 DEF NoInput, Arrival, vaultVars

LEMMA ArrivalKeepsStorage ==
    ASSUME NEW r \in Requests, ServiceInv, StorageInv, Arrival(r)
    PROVE  StorageInv'
<1> USE DEF StorageInv
<1>1. \A q \in Requests : input[q].op \in {"create", "purge"} => input'[q] = input[q] /\ q # r
  BY ArrivalShape
<1>2. \A p : PurgeNames(p) => PurgeNames(p)'
  BY <1>1 DEF PurgeNames, Named
<1>3. \A p : Made(p) => Made(p)' /\ Creator(p) \in Requests \ {r}
  BY <1>1 DEF Made, Creator
<1>4. ASSUME NEW p, Made(p), Accounted(p) PROVE Accounted(p)'
  <2> DEFINE c == Creator(p)
  <2>1. /\ pc'[c] = pc[c] /\ reply'[c] = reply[c]
        /\ UNCHANGED <<config, pos, cur, out>>
    BY <1>3, <1>4, ArrivalShape
  <2>2. Creator(p)' = c /\ Place(p)' = Place(p)
    BY DEF Creator, Place
  <2> QED
    BY <1>4, <2>1, <2>2 DEF Accounted, Abandoned, PathOf
<1>5. Progress'
  <2> SUFFICES ASSUME NEW q \in Requests PROVE ProgressOf(q)'
    BY DEF Progress
  <2>1. CASE q # r
    BY <2>1, ArrivalShape DEF Progress, ProgressOf, Nonce, InStorage
  <2>2. CASE q = r
    BY <2>2, ArrivalShape DEF ProgressOf, Working, Steps
  <2> QED
    BY <2>1, <2>2
<1>6. StoredAccounted'
  <2> SUFFICES ASSUME NEW p \in stored' PROVE Made(p)' /\ Accounted(p)'
    BY DEF StoredAccounted
  <2>1. Made(p) /\ Accounted(p)
    BY ArrivalShape DEF StoredAccounted
  <2> QED
    BY <1>3, <1>4, <2>1
<1>7. LateAccounted'
  <2> SUFFICES ASSUME NEW c \in late' PROVE LateOf(c)'
    BY DEF LateAccounted
  <2>1. LateOf(c)
    BY ArrivalShape DEF LateAccounted
  <2> QED
    BY <1>2, <1>3, <1>4, <2>1, ArrivalShape DEF LateOf, Abandoned, Creator
<1>8. Keeps'
  <2> SUFFICES ASSUME NEW q \in Requests PROVE KeepsOf(q)'
    BY DEF Keeps
  <2>1. \A p : Kept(p) => Kept(p)'
    BY <1>2, ArrivalShape DEF Kept
  <2>2. CASE q # r
    BY <2>1, <2>2, ArrivalShape DEF Keeps, KeepsOf, InStorage
  <2>3. CASE q = r
    BY <2>3, ArrivalShape DEF KeepsOf
  <2> QED
    BY <2>2, <2>3
<1> QED
  BY <1>5, <1>6, <1>7, <1>8

LEMMA CrashKeepsStorage ==
    ASSUME ServiceInv, StorageInv, Crash, VaultOutlivesCrash
    PROVE  StorageInv'
<1> USE DEF StorageInv
<1>1. UNCHANGED <<input, pos, out, reply, stored>>
  BY DEF Crash, VaultOutlivesCrash
<1>2. \A r \in Requests :
        pc'[r] = IF pc[r] \in Finished \union {"idle"} THEN pc[r] ELSE "lost"
  BY DEF Crash
<1>3. \A p : Made(p) => Made(p)'
  BY <1>1 DEF Made, Creator
<1>5. \A p : Kept(p) => Kept(p)'
  BY <1>1 DEF Kept, PurgeNames, Named
<1>4. \A p : Made(p) /\ Accounted(p) => Accounted(p)'
  BY <1>1, <1>2 DEF Made, Accounted, Abandoned, Creator, Place, Finished
<1>6. Progress'
  BY <1>1, <1>2 DEF Progress, ProgressOf, InStorage, Working, Steps, Finished
<1>7. StoredAccounted'
  <2> SUFFICES ASSUME NEW p \in stored' PROVE Made(p)' /\ Accounted(p)'
    BY DEF StoredAccounted
  <2>1. Made(p) /\ Accounted(p)
    BY <1>1 DEF StoredAccounted
  <2> QED
    BY <1>3, <1>4, <2>1
<1>8. LateAccounted'
  <2> SUFFICES ASSUME NEW c \in late' PROVE LateOf(c)'
    BY DEF LateAccounted
  <2>1. CASE c \in late
    <3>1. LateOf(c)
      BY <2>1 DEF LateAccounted
    <3>2. repeated' = repeated
      BY DEF VaultOutlivesCrash
    <3> QED
      BY <1>1, <1>2, <1>4, <3>1, <3>2
         DEF LateOf, Made, Abandoned, PurgeNames, Named, Creator, Finished
  <2>2. CASE c \in Underway
    <3>1. CASE \E r \in Requests : pc[r] = "store" /\ c = Call("put", PathOf(r), r)
      <4>1. PICK r \in Requests : pc[r] = "store" /\ c = Call("put", PathOf(r), r)
        BY <3>1
      <4>2. Creator(c.path) = r /\ Made(c.path) /\ c.call = "put" /\ Accounted(c.path)
        BY <4>1, PathOfMade DEF Made, Accounted, Call
      <4>3. pc'[r] = "lost"
        BY <1>2, <4>1 DEF Finished
      <4> QED
        BY <1>1, <1>4, <4>2, <4>3 DEF LateOf, Made, Abandoned, Creator
    <3>2. CASE \E r \in Requests :
                pc[r] = "delete" /\ c = Call("delete", Item(r).cipherText, r)
      <4>1. PICK r \in Requests :
                pc[r] = "delete" /\ c = Call("delete", Item(r).cipherText, r)
        BY <3>2
      <4>2. PurgeNames(c.path) /\ c.call = "delete"
        BY <4>1, DeletedIsNamed DEF Call
      <4> QED
        BY <1>1, <4>2 DEF LateOf, PurgeNames, Named
    <3> QED
      BY <2>2, <3>1, <3>2 DEF Underway, At
  <2> QED
    BY <2>1, <2>2 DEF VaultOutlivesCrash
<1>9. Keeps'
  BY <1>1, <1>2, <1>5 DEF Keeps, KeepsOf, InStorage, Finished
<1> QED
  BY <1>6, <1>7, <1>8, <1>9

LEMMA VaultLateKeepsStorage ==
    ASSUME BackendTyped, StorageInv, VaultLate, UNCHANGED serviceVars
    PROVE  StorageInv'
<1> USE DEF StorageInv
<1>1. UNCHANGED <<input, pc, pos, cur, out, reply>>
  BY DEF serviceVars, requestVars
<1>2. PICK c \in late :
        /\ late' = late \ {c}
        /\ stored' = IF c.call = "put" THEN stored \union {c.path} ELSE stored \ {c.path}
  BY DEF VaultLate
<1>3. LateOf(c)
  BY DEF LateAccounted
<1>4. \A p : Made(p) /\ Accounted(p) => Made(p)' /\ Accounted(p)'
  BY <1>1 DEF Made, Accounted, Abandoned, Creator, Place, PathOf, serviceVars, processVars
<1>5. Progress'
  BY <1>1 DEF Progress, ProgressOf, InStorage, Nonce
<1>6. StoredAccounted'
  <2> SUFFICES ASSUME NEW p \in stored' PROVE Made(p) /\ Accounted(p)
    BY <1>4 DEF StoredAccounted
  <2>1. p \in stored \/ (c.call = "put" /\ p = c.path)
    BY <1>2
  <2> QED
    BY <1>3, <2>1 DEF StoredAccounted, LateOf, Accounted
<1>7. LateAccounted'
  <2> SUFFICES ASSUME NEW d \in late' PROVE LateOf(d)'
    BY DEF LateAccounted
  <2>1. LateOf(d) /\ repeated' = repeated
    BY <1>2 DEF LateAccounted, VaultLate
  <2> QED
    BY <1>1, <1>4, <2>1 DEF LateOf, Made, Abandoned, PurgeNames, Named, Creator
<1>8. \A p : Kept(p) => Kept(p)'
  <2> SUFFICES ASSUME NEW p, Kept(p) PROVE Kept(p)'
    OBVIOUS
  <2>1. PurgeNames(p)' <=> PurgeNames(p)
    BY <1>1 DEF PurgeNames, Named
  <2>2. p \in stored /\ p \notin stored' => c.call = "delete" /\ p = c.path
    BY <1>2 DEF BackendTyped, LateCalls
  <2> QED
    BY <1>3, <2>1, <2>2 DEF Kept, LateOf
<1>9. Keeps'
  BY <1>1, <1>8 DEF Keeps, KeepsOf, InStorage
<1> QED
  BY <1>5, <1>6, <1>7, <1>9

LEMMA IdleKeepsStorage ==
    ASSUME StorageInv, config' = config \/ \A r \in Requests : pc[r] # "store",
           UNCHANGED <<input, pc, pos, cur, out, reply, stored, late, repeated>>
    PROVE  StorageInv'
<1>1. Progress' /\ Keeps'
  BY DEF StorageInv, Progress, ProgressOf, Keeps, KeepsOf, Kept, PurgeNames, Named, InStorage, Nonce
<1>2. \A p : Made(p) /\ Accounted(p) => Made(p)' /\ Accounted(p)'
  BY DEF Made, Accounted, Abandoned, PathOf, Creator, Place
<1>3. StoredAccounted'
  BY <1>2 DEF StorageInv, StoredAccounted
<1>4. LateAccounted'
  BY <1>2 DEF StorageInv, LateAccounted, LateOf, Abandoned, Creator, PurgeNames, Named
<1> QED
  BY <1>1, <1>3, <1>4 DEF StorageInv

LEMMA InitStorageInv ==
    ASSUME Init
    PROVE  StorageInv
<1> USE DEF Init, InitService, InitVault
<1>1. Progress
  BY DEF Progress, ProgressOf, Working, Steps, NoInput
<1>2. StoredAccounted /\ LateAccounted
  BY DEF StoredAccounted, LateAccounted
<1>3. Keeps
  BY DEF Keeps, KeepsOf, NoInput
<1> QED
  BY <1>1, <1>2, <1>3 DEF StorageInv

LEMMA NextStorageInv ==
    ASSUME TypeInv, StorageInv, [Next]_vars
    PROVE  StorageInv'
<1>1. ServiceInv /\ BackendTyped
  BY DEF TypeInv
<1>2. CASE \E r \in Requests : Arrival(r)
  BY <1>1, <1>2, ArrivalKeepsStorage
<1>3. CASE \E r \in Requests : RequestStep(r)
  BY <1>1, <1>3, RequestStepEffect, EffectKeepsStorage
<1>4. CASE Crash /\ VaultOutlivesCrash
  BY <1>1, <1>4, CrashKeepsStorage
<1>5. CASE VaultLate /\ UNCHANGED serviceVars
  BY <1>1, <1>5, VaultLateKeepsStorage
<1>6. CASE /\ config' = config \/ ~up
           /\ UNCHANGED <<input, pc, pos, cur, out, reply, stored, late, repeated>>
  <2>1. config' = config \/ \A r \in Requests : pc[r] # "store"
    BY <1>1, <1>6 DEF ServiceInv, Work, WorkOf, Steps
  <2> QED
    BY <1>6, <2>1, IdleKeepsStorage
<1>7. CASE Environment
  BY <1>4, <1>5, <1>6, <1>7 DEF Environment, Restart, processVars, requestVars, vaultVars
<1>8. CASE UNCHANGED vars
  BY <1>6, <1>8 DEF vars, serviceVars, processVars, requestVars, vaultVars
<1> QED
  BY <1>2, <1>3, <1>7, <1>8 DEF Next, Quiet

-----------------------------------------------------------------------------
\* The invariant holds in every state of every behaviour.
THEOREM StorageInvariance == Spec => [](TypeInv /\ StorageInv)
<1>1. Init => TypeInv /\ StorageInv
  BY InitTypeInv, InitStorageInv
<1>2. TypeInv /\ StorageInv /\ [Next]_vars => TypeInv' /\ StorageInv'
  BY NextTypeInv, NextStorageInv
<1> QED
  BY <1>1, <1>2, PTL DEF Spec

\* No orphans but a failed or unanswered create's: whatever requests run beside
\* it, and whenever Vault carries its writes out, a create whose success reached
\* the client has listed every object it left in Vault.
THEOREM AckedHeld == Spec => []AckedObjectsAreHeld
<1>1. TypeInv /\ StorageInv => AckedObjectsAreHeld
  <2> SUFFICES ASSUME TypeInv, StorageInv, NEW p \in stored,
                      pc[p.ct.n[1]] = "delivered", reply[p.ct.n[1]] = 200
               PROVE  \E s \in ToSet(out[p.ct.n[1]]) : s.cipherText = p
    BY DEF AckedObjectsAreHeld
  <2>1. /\ Place(p) \in DOMAIN out[Creator(p)]
        /\ out[Creator(p)][Place(p)].cipherText = p
    BY DEF StorageInv, StoredAccounted, Accounted, Abandoned, Creator
  <2> QED
    BY <2>1 DEF ToSet, Creator
<1> QED
  BY <1>1, StorageInvariance, PTL

\* Nothing but a purge that names it takes a secret a client holds out of Vault:
\* no failure of another request, crash, restart or late call.
THEOREM HeldStays == Spec => []HeldIsStored
<1>1. TypeInv /\ StorageInv => HeldIsStored
  <2> SUFFICES ASSUME TypeInv, StorageInv,
                      NEW r \in Requests, input[r].op = "create", NEW s \in ToSet(out[r]),
                      InStorage(s), ~PurgeAttempted(s)
               PROVE  s.cipherText \in stored
    BY DEF HeldIsStored, Held
  <2>1. PICK i \in DOMAIN out[r] : out[r][i] = s
    BY DEF ToSet
  <2>2. Kept(s.cipherText)
    BY <2>1 DEF StorageInv, Keeps, KeepsOf
  <2> QED
    BY <2>2 DEF Kept, PurgeNames, PurgeAttempted
<1> QED
  BY <1>1, StorageInvariance, PTL

-----------------------------------------------------------------------------
(* What was purged stays away. *)

\* Every token the administrator installs has a storage directory.
AlwaysStoring == \A c \in Configs : c.vault # NoDir

\* The client has the answer of the create that made p.
Delivered(p) ==
    LET c == Creator(p)
    IN  c \in Requests /\ pc[c] = "delivered" /\ reply[c] = 200

\* A purge names nothing but what was delivered, and has removed what it is past;
\* only a write that was repeated brings it back.
PurgeOf(r) ==
    input[r].op = "purge" =>
        /\ \A i \in DOMAIN input[r].items : LET s == input[r].items[i] IN
            s # Null /\ InStorage(s) => Delivered(s.cipherText)
        /\ \A i \in 1..pos[r] : LET s == input[r].items[i] IN
            InStorage(s) =>
                /\ Delivered(s.cipherText)
                /\ Creator(s.cipherText) \notin repeated => s.cipherText \notin stored

PurgeInv == \A r \in Requests : PurgeOf(r)

\* What clients send of the storage was delivered to one of them.
LEMMA SentWasDelivered ==
    ASSUME ServiceInv, Progress, NEW s \in ClientItems, s # Null, InStorage(s)
    PROVE  Delivered(s.cipherText)
<1>1. PICK h \in Held : h.backend = s.backend /\ h.cipherText = s.cipherText
  BY HeldType DEF ClientItems, EncryptedSecrets
<1>2. PICK r \in Requests :
        pc[r] = "delivered" /\ input[r].op = "create" /\ reply[r] = 200 /\ h \in ToSet(out[r])
  BY DEF Held
<1>3. PICK i \in DOMAIN out[r] : out[r][i] = h
  BY <1>2 DEF ToSet
<1>4. h.cipherText.ct.n = <<r, i>>
  BY <1>1, <1>2, <1>3 DEF Progress, ProgressOf, InStorage
<1> QED
  BY <1>1, <1>2, <1>4 DEF Delivered, Creator

\* Once a create is answered its objects are nobody's to write any more.
LEMMA GoneStays ==
    ASSUME TypeInv, StorageInv, [Next]_vars, NEW p, Delivered(p)
    PROVE  /\ Delivered(p)' /\ repeated \subseteq repeated'
           /\ p \notin stored /\ Creator(p) \notin repeated' => p \notin stored'
<1> DEFINE c == Creator(p)
<1>1. /\ c \in Requests /\ pc[c] = "delivered" /\ reply[c] = 200 /\ Creator(p)' = c
      /\ ServiceInv /\ Progress
  BY DEF Delivered, Creator, TypeInv, StorageInv
<1>2. CASE \E r \in Requests : Arrival(r)
  <2>1. PICK r \in Requests : Arrival(r)
    BY <1>2
  <2>2. c # r
    BY <1>1, <2>1, ArrivalShape
  <2> QED
    BY <1>1, <2>1, <2>2, ArrivalShape DEF Delivered
<1>3. CASE \E r \in Requests : RequestStep(r)
  <2>1. PICK r \in Requests : Effect(r)
    BY <1>1, <1>3, RequestStepEffect
  <2>2. c # r
    BY <1>1, <2>1 DEF Effect, Moves, Writes, Fails, Repeats, Ends, Lists, Serves, Completes, Working, Steps
  <2>3. Delivered(p)'
    BY <1>1, <2>1, <2>2, EffectOnly DEF Only, Delivered
  <2>5. repeated \subseteq repeated'
    BY <2>1, EffectOnly DEF Only
  <2>4. Writes(r) => Creator(PathOf(r)) = r /\ stored' = stored \union {PathOf(r)}
    BY <1>1, PathOfMade DEF Writes
  <2> QED
    BY <1>1, <2>1, <2>2, <2>3, <2>4, <2>5, EffectStored
<1>4. CASE Crash /\ VaultOutlivesCrash
  BY <1>1, <1>4 DEF Crash, VaultOutlivesCrash, Delivered, Finished
<1>5. CASE VaultLate /\ UNCHANGED serviceVars
  <2>1. PICK d \in late :
          stored' = IF d.call = "put" THEN stored \union {d.path} ELSE stored \ {d.path}
    BY <1>5 DEF VaultLate
  <2>2. d.call = "put" => Abandoned(Creator(d.path)) \/ Creator(d.path) \in repeated
    BY DEF StorageInv, LateAccounted, LateOf
  <2>3. d.call = "put" /\ c \notin repeated => d.path # p
    BY <1>1, <2>2 DEF Abandoned
  <2>4. repeated' = repeated
    BY <1>5 DEF VaultLate
  <2> QED
    BY <1>1, <1>5, <2>1, <2>3, <2>4 DEF Delivered, serviceVars, requestVars
<1>6. CASE UNCHANGED <<pc, reply, stored, repeated>>
  BY <1>1, <1>6 DEF Delivered
<1>7. CASE Environment
  BY <1>4, <1>5, <1>6, <1>7 DEF Environment, Restart, requestVars, vaultVars
<1>8. CASE UNCHANGED vars
  BY <1>6, <1>8 DEF vars, serviceVars, requestVars, vaultVars
<1> QED
  BY <1>2, <1>3, <1>7, <1>8 DEF Next, Quiet

\* A purge is past an item only when it has removed it.
LEMMA PastItem ==
    ASSUME AlwaysStoring, ServiceInv, PurgeInv, NEW r \in Requests, Effect(r),
           input[r].op = "purge", pos'[r] # pos[r], InStorage(Item(r))
    PROVE  Delivered(Item(r).cipherText) /\ Item(r).cipherText \notin stored'
<1>1. PICK result : Serves(r, result)
  <2>1. ASSUME NEW s, Lists(r, s) PROVE FALSE
    BY <2>1 DEF Lists, ServiceInv, Work, WorkOf
  <2> QED
    BY <2>1 DEF Effect, Moves, Writes, Fails, Repeats, Ends
<1>2. pc[r] \in Steps /\ pc[r] = "delete"
  BY <1>1 DEF Serves, Completes, Steps, ServiceInv, Work, WorkOf
<1>3. /\ input[r] \in Inputs /\ pos[r] + 1 \in 1..Len(input[r].items)
      /\ Item(r) \in EncryptedSecrets /\ config.vault # "off"
  BY <1>2, ItemType DEF InStorage
<1>4. pos[r] + 1 \in DOMAIN input[r].items /\ Item(r) # Null
  BY <1>3, InputItems, LenProperties, DataAssumption
<1>5. Storing
  BY DEF Storing, AlwaysStoring, ServiceInv, ServiceTyped
<1> QED
  BY <1>1, <1>2, <1>4, <1>5 DEF Serves, PurgeInv, PurgeOf, Item

LEMMA NextPurgeInv ==
    ASSUME AlwaysStoring, TypeInv, StorageInv, PurgeInv, [Next]_vars
    PROVE  PurgeInv'
<1> SUFFICES ASSUME NEW q \in Requests, input'[q].op = "purge" PROVE PurgeOf(q)'
  BY DEF PurgeInv, PurgeOf
<1>1. ServiceInv /\ Progress
  BY DEF TypeInv, StorageInv
<1>2. \A p : Delivered(p) =>
        /\ Delivered(p)' /\ repeated \subseteq repeated'
        /\ p \notin stored /\ Creator(p) \notin repeated' => p \notin stored'
  BY GoneStays
<1>3. CASE input'[q] = input[q] /\ pos'[q] = pos[q]
  BY <1>2, <1>3 DEF PurgeInv, PurgeOf, InStorage, Creator
<1>4. CASE \E r \in Requests : Arrival(r)
  <2>1. PICK r \in Requests : Arrival(r)
    BY <1>4
  <2>2. CASE q # r
    BY <1>1, <1>3, <2>1, <2>2, ArrivalShape
  <2>3. CASE q = r
    <3>1. PICK list \in BoundedSeq(ClientItems, MaxItems) :
            input'[r] = [op |-> "purge", items |-> list, rewrapKey |-> BadRewrapKey]
      BY <1>1, <2>1, <2>3 DEF Arrival, CreateSecret, RewrapSecret, DeleteSecret, RejectBody,
                              Receive, Unreadable, ServiceInv, ServiceTyped
    <3>2. input'[r].items = list /\ list \in Seq(ClientItems)
      BY <3>1, BoundedSeqType
    <3>3. ASSUME NEW i \in DOMAIN list, list[i] # Null, InStorage(list[i])
          PROVE  Delivered(list[i].cipherText)'
      <4>1. list[i] \in ClientItems
        BY <3>2, ElementOfSeq, LenProperties
      <4> QED
        BY <1>1, <1>2, <3>3, <4>1, SentWasDelivered
    <3>4. pos'[r] = 0
      BY <1>1, <2>1, ArrivalShape
    <3> QED
      BY <2>3, <3>2, <3>3, <3>4 DEF PurgeOf, InStorage
  <2> QED
    BY <2>2, <2>3
<1>5. CASE \E r \in Requests : RequestStep(r)
  <2>1. PICK r \in Requests : Effect(r)
    BY <1>1, <1>5, RequestStepEffect
  <2>2. input' = input
    BY <2>1, EffectOnly DEF Only
  <2>3. CASE q # r
    BY <1>3, <2>1, <2>2, <2>3, EffectOnly DEF Only
  <2>4. CASE q = r /\ pos'[r] # pos[r]
    <3>1. pos'[r] = pos[r] + 1
      <4>1. \E result : Completes(r, result)
        BY <2>1, <2>4 DEF Effect, Moves, Writes, Fails, Repeats, Ends, Lists, Serves
      <4> QED
        BY <4>1 DEF Completes
    <3>2. pos[r] \in Nat
      BY <1>1, DataAssumption DEF ServiceInv, ServiceTyped
    <3>3. ASSUME NEW i \in 1..(pos[r] + 1), InStorage(input[r].items[i]),
                 NEW p, p = input[r].items[i].cipherText
          PROVE  Delivered(p)' /\ (Creator(p) \notin repeated' => p \notin stored')
      <4>1. CASE i \in 1..pos[r]
        BY <1>2, <2>2, <2>4, <3>3, <4>1 DEF PurgeInv, PurgeOf
      <4>2. CASE i = pos[r] + 1
        <5>1. InStorage(Item(r)) /\ p = Item(r).cipherText
          BY <3>3, <4>2 DEF Item
        <5>2. Delivered(p) /\ p \notin stored'
          BY <1>1, <2>1, <2>2, <2>4, <5>1, PastItem
        <5>3. Delivered(p)'
          BY <1>2, <5>2
        <5>4. p \notin stored'
          BY <5>2
        <5> QED
          BY <5>3, <5>4
      <4> QED
        BY <3>2, <3>3, <4>1, <4>2
    <3> QED
      BY <1>2, <2>2, <2>4, <3>1, <3>3 DEF PurgeInv, PurgeOf, InStorage, Creator
  <2> QED
    BY <1>3, <2>2, <2>3, <2>4
<1>6. CASE Environment
  BY <1>3, <1>6 DEF Environment, Crash, Restart, requestVars, serviceVars
<1>7. CASE UNCHANGED vars
  BY <1>3, <1>7 DEF vars, serviceVars, requestVars
<1> QED
  BY <1>4, <1>5, <1>6, <1>7 DEF Next, Quiet

\* While every token has a storage directory, what a purge has got past is out of
\* Vault for good, unless the library repeated the write that made it: no other
\* late write, no crash and no restart brings it back.
THEOREM PurgedStaysGone ==
    ASSUME AlwaysStoring
    PROVE  Spec => []PurgedIsGone
<1>1. Init => PurgeInv
  BY DEF Init, InitService, PurgeInv, PurgeOf, NoInput
<1>2. TypeInv /\ StorageInv /\ PurgeInv /\ [Next]_vars => PurgeInv'
  BY NextPurgeInv
<1>3. PurgeInv => PurgedIsGone
  BY DEF PurgeInv, PurgeOf, PurgedIsGone
<1> QED
  BY <1>1, <1>2, <1>3, StorageInvariance, PTL DEF Spec
=============================================================================

----------------------------- MODULE CauseProofs -----------------------------
(***************************************************************************)
(* Where SecretDelivery does not do what its documents say, for every      *)
(* value of its constants: each of these properties holds once the one     *)
(* thing that violates it in a run is left out, so that nothing else can   *)
(* be the cause.                                                           *)
(***************************************************************************)
EXTENDS RewrapProofs

-----------------------------------------------------------------------------
(* The inductive invariant. *)

\* A create was sent nothing but what clients ask to create.
AskedOf(r) ==
    input[r].op = "create" => \A i \in DOMAIN input[r].items : input[r].items[i] \in CreateItems

\* What was acknowledged is done to its last item.
AckedOf(r) == reply[r] = 204 => pos[r] = Len(input[r].items)

\* A local key seals with 32-byte keys only: the length of the key it signs with is
\* not looked at, that of the key it encrypts with is.
KeyedOf(r) ==
    /\ pc[r] = "sign" /\ Item(r).backend = "localkey" => cur[r].cipherText.ct.key \in Keys
    /\ input[r].op = "create" =>
        \A i \in DOMAIN out[r] :
            out[r][i].backend = "localkey" => out[r][i].cipherText.ct.key \in Keys

\* Before the first replacement of a key file, only failed calls disturb a request.
UndisturbedOf(r) == replacements = 0 /\ r \in disturbed => reply[r] = 400

CauseInv ==
    /\ repeated # {} => Repeating
    /\ \A r \in Requests : AskedOf(r) /\ AckedOf(r) /\ KeyedOf(r) /\ UndisturbedOf(r)

-----------------------------------------------------------------------------
(* What a step of a request does to the marks on requests. *)

LEMMA RepeatedBy ==
    ASSUME NEW r \in Requests, RequestStep(r)
    PROVE  repeated' = repeated \/ Repeating
BY DEF RequestStep, VaultRequestStep, VaultCallFails, VaultFails, VaultRepeatStore,
       VaultRepeatDelete, VaultRepeats, VaultEncrypt, VaultStore, VaultSign, VaultFetch,
       VaultDecrypt, VaultVerify, VaultDelete, NoFault, vaultVars

LEMMA DisturbedBy ==
    ASSUME NEW r \in Requests, ServiceInv, RequestStep(r)
    PROVE  \/ disturbed' = disturbed
           \/ disturbed' = disturbed \union {r} /\ reply'[r] = 400
<1>1. CASE HandlerStep(r) \/ LocalRequestStep(r) \/ NoneRequestStep(r)
  BY <1>1, DisturbedKept
<1>2. CASE VaultRequestStep(r)
  <2>1. ASSUME NEW pending, VaultFails(r, pending)
        PROVE  disturbed' = disturbed \union {r} /\ reply'[r] = 400
    BY <2>1 DEF VaultFails, Abort, ServiceInv, ServiceTyped
  <2>2. ASSUME NEW call, VaultRepeats(call)
        PROVE  disturbed' = disturbed
    BY <2>2 DEF VaultRepeats, requestVars
  <2>3. ASSUME NoFault
        PROVE  disturbed' = disturbed
    BY <2>3 DEF NoFault
  <2> QED
    BY <1>2, <2>1, <2>2, <2>3
    DEF VaultRequestStep, VaultCallFails, VaultRepeatStore, VaultRepeatDelete, VaultEncrypt,
        VaultStore, VaultSign, VaultFetch, VaultDecrypt, VaultVerify, VaultDelete
<1> QED
  BY <1>1, <1>2 DEF RequestStep

-----------------------------------------------------------------------------
(* What it does to the keys of what it seals. *)

LEMMA AbortKeyed ==
    ASSUME NEW r \in Requests, ServiceInv, Abort(r)
    PROVE  KeyedOf(r)'
<1>1. pc'[r] = "answer" /\ out'[r] = << >>
  BY DEF Abort, ServiceInv, ServiceTyped
<1> QED
  BY <1>1 DEF KeyedOf

LEMMA GoToKeyed ==
    ASSUME NEW r \in Requests, ServiceInv, KeyedOf(r), NEW step, NEW locals,
           GoTo(r, step, locals),
           step = "sign" /\ Item(r).backend = "localkey" => locals.cipherText.ct.key \in Keys
    PROVE  KeyedOf(r)'
<1>1. /\ pc'[r] = step /\ cur'[r] = locals /\ out'[r] = out[r]
      /\ Item(r)' = Item(r) /\ input'[r] = input[r]
  BY DEF GoTo, Item, ServiceInv, ServiceTyped
<1> QED
  BY <1>1 DEF KeyedOf

LEMMA FinishKeyed ==
    ASSUME NEW r \in Requests, ServiceInv, KeyedOf(r), NEW result, FinishItem(r, result),
           \/ input[r].op # "create"
           \/ \E s : /\ result = <<s>>
                     /\ s.backend = "localkey" => s.cipherText.ct.key \in Keys
    PROVE  KeyedOf(r)'
<1>1. pc'[r] = "next" /\ out'[r] = out[r] \o result /\ input'[r] = input[r]
  BY DEF FinishItem, ServiceInv, ServiceTyped
<1>2. CASE input[r].op # "create"
  BY <1>1, <1>2 DEF KeyedOf
<1>3. ASSUME input[r].op = "create", NEW s, result = <<s>>,
             s.backend = "localkey" => s.cipherText.ct.key \in Keys
      PROVE  KeyedOf(r)'
  <2> DEFINE Out == EncryptedSecrets \union Envelopes \union {s}
  <2>1. out[r] \in Seq(Out)
    <3>1. out[r] \in Seq(EncryptedSecrets \union Envelopes)
      BY DEF ServiceInv, ServiceTyped
    <3> QED
      BY <3>1, SeqDef
  <2> HIDE DEF Out
  <2>2. /\ out'[r] \in Seq(Out) /\ Len(out'[r]) = Len(out[r]) + 1
        /\ \A i \in 1..Len(out[r]) : out'[r][i] = out[r][i]
        /\ out'[r][Len(out[r]) + 1] = s
    BY <1>1, <1>3, <2>1, OneMore DEF Out
  <2> QED
    BY <1>1, <1>3, <2>1, <2>2, LenProperties DEF KeyedOf
<1> QED
  BY <1>2, <1>3

LEMMA SealKeyed ==
    ASSUME NEW r \in Requests, ServiceInv, KeyedOf(r), pc[r] = "sign",
           NEW signature, SealItem(r, signature)
    PROVE  KeyedOf(r)'
<1> DEFINE s == [backend |-> Item(r).backend, keyName |-> Item(r).keyName,
                 cipherText |-> cur[r].cipherText, signature |-> signature]
<1>1. s.backend = Item(r).backend /\ s.cipherText = cur[r].cipherText
  OBVIOUS
<1>2. FinishItem(r, <<s>>)
  BY DEF SealItem
<1> HIDE DEF s
<1> QED
  BY <1>1, <1>2, FinishKeyed DEF KeyedOf

LEMMA WrapKeyed ==
    ASSUME NEW r \in Requests, ServiceInv, KeyedOf(r), input[r].op # "create",
           NEW text, WrapItem(r, text)
    PROVE  KeyedOf(r)'
BY AbortKeyed, FinishKeyed DEF WrapItem

LEMMA HandlerKeyed ==
    ASSUME NEW r \in Requests, ServiceInv, KeyedOf(r), HandlerStep(r)
    PROVE  KeyedOf(r)'
<1>1. CASE RefuseItem(r)
  BY <1>1, AbortKeyed DEF RefuseItem
<1>2. CASE TakeItem(r)
  <2>1. FirstStep(r) # "sign"
    BY <1>2 DEF TakeItem, FirstStep, ServiceInv, Work, WorkOf, Inputs
  <2> QED
    BY <1>2, <2>1, GoToKeyed DEF TakeItem
<1>3. CASE Finish(r)
  BY <1>3 DEF Finish, KeyedOf, ServiceInv, ServiceTyped
<1>4. CASE Deliver(r)
  BY <1>4 DEF Deliver, KeyedOf, Finished, ServiceInv, ServiceTyped
<1> QED
  BY <1>1, <1>2, <1>3, <1>4 DEF HandlerStep

LEMMA VaultKeyed ==
    ASSUME NEW r \in Requests, ServiceInv, KeyedOf(r), VaultRequestStep(r),
           UNCHANGED processVars
    PROVE  KeyedOf(r)'
<1> USE DEF At
<1>1. ASSUME NEW pending, VaultFails(r, pending)
      PROVE  KeyedOf(r)'
  BY <1>1, AbortKeyed DEF VaultFails
<1>2. ASSUME NEW call, VaultRepeats(call)
      PROVE  KeyedOf(r)'
  BY <1>2 DEF VaultRepeats, requestVars, KeyedOf, Item
<1>3. ASSUME Item(r).backend = "vault", NEW step, NEW locals, GoTo(r, step, locals)
      PROVE  KeyedOf(r)'
  BY <1>3, GoToKeyed
<1>4. CASE VaultCallFails(r) \/ VaultRepeatStore(r) \/ VaultRepeatDelete(r)
  BY <1>1, <1>2, <1>4 DEF VaultCallFails, VaultRepeatStore, VaultRepeatDelete
<1>5. CASE VaultEncrypt(r)
  BY <1>3, <1>5 DEF VaultEncrypt
<1>6. CASE VaultStore(r)
  BY <1>1, <1>3, <1>6 DEF VaultStore
<1>7. CASE VaultSign(r)
  BY <1>7, SealKeyed DEF VaultSign
<1>8. CASE VaultFetch(r)
  BY <1>3, <1>8, AbortKeyed DEF VaultFetch
<1>9. CASE VaultDecrypt(r)
  BY <1>3, <1>9, AbortKeyed DEF VaultDecrypt
<1>10. CASE VaultVerify(r)
  <2>1. input[r].op # "create"
    BY <1>10 DEF VaultVerify, ServiceInv, Work, WorkOf
  <2> QED
    BY <1>10, <2>1, AbortKeyed, WrapKeyed DEF VaultVerify
<1>11. CASE VaultDelete(r)
  <2>1. input[r].op # "create"
    BY <1>11 DEF VaultDelete, ServiceInv, Work, WorkOf
  <2> QED
    BY <1>1, <1>11, <2>1, AbortKeyed, FinishKeyed DEF VaultDelete
<1> QED
  BY <1>4, <1>5, <1>6, <1>7, <1>8, <1>9, <1>10, <1>11 DEF VaultRequestStep

LEMMA LocalKeyed ==
    ASSUME NEW r \in Requests, ServiceInv, KeyedOf(r), LocalRequestStep(r)
    PROVE  KeyedOf(r)'
<1> USE DEF At
<1>1. CASE CheckKeyFile(r)
  <2> DEFINE locals == [cur[r] EXCEPT !.checked = TRUE]
  <2>1. locals.cipherText = cur[r].cipherText
    BY DEF ServiceInv, ServiceTyped
  <2>2. Abort(r) \/ GoTo(r, pc[r], locals)
    BY <1>1 DEF CheckKeyFile
  <2> HIDE DEF locals
  <2> QED
    BY <2>1, <2>2, AbortKeyed, GoToKeyed DEF KeyedOf
<1>2. CASE LocalEncrypt(r)
  <2> DEFINE key == FileOf(r).key
             locals == [cur[r] EXCEPT
                !.checked = FALSE,
                !.cipherText = Raw(Seal("localkey", key, cur[r].clearText, Nonce(r)))]
  <2>1. locals.cipherText.ct.key = key
    BY DEF ServiceInv, ServiceTyped, Raw, Seal
  <2>2. Abort(r) \/ (key \in Keys /\ GoTo(r, "sign", locals))
    BY <1>2 DEF LocalEncrypt
  <2> HIDE DEF locals, key
  <2> QED
    BY <2>1, <2>2, AbortKeyed, GoToKeyed
<1>3. CASE LocalSign(r)
  BY <1>3, AbortKeyed, SealKeyed DEF LocalSign, Loading
<1>4. CASE LocalDecrypt(r)
  BY <1>4, AbortKeyed, GoToKeyed DEF LocalDecrypt
<1>5. CASE LocalVerify(r)
  <2>1. input[r].op # "create"
    BY <1>5 DEF LocalVerify, Loading, ServiceInv, Work, WorkOf
  <2> QED
    BY <1>5, <2>1, AbortKeyed, WrapKeyed DEF LocalVerify
<1>6. CASE LocalDelete(r)
  <2>1. input[r].op # "create"
    BY <1>6 DEF LocalDelete, ServiceInv, Work, WorkOf
  <2> QED
    BY <1>6, <2>1, FinishKeyed DEF LocalDelete
<1> QED
  BY <1>1, <1>2, <1>3, <1>4, <1>5, <1>6 DEF LocalRequestStep

LEMMA NoneKeyed ==
    ASSUME NEW r \in Requests, ServiceInv, KeyedOf(r), NoneRequestStep(r)
    PROVE  KeyedOf(r)'
<1> USE DEF At
<1>1. CASE NoneSeal(r)
  <2> DEFINE s == [backend |-> "none", keyName |-> Item(r).keyName,
                   cipherText |-> Raw(NoneSealOf(cur[r].clearText)),
                   signature |-> NoneSealOf(cur[r].clearText)]
  <2>1. s.backend # "localkey"
    OBVIOUS
  <2>2. FinishItem(r, <<s>>)
    BY <1>1 DEF NoneSeal
  <2> HIDE DEF s
  <2> QED
    BY <2>1, <2>2, FinishKeyed
<1>2. CASE NoneRewrap(r)
  <2>1. input[r].op # "create"
    BY <1>2 DEF NoneRewrap, ServiceInv, Work, WorkOf
  <2> QED
    BY <1>2, <2>1, AbortKeyed, WrapKeyed DEF NoneRewrap
<1>3. CASE NoneDelete(r)
  <2>1. input[r].op # "create"
    BY <1>3 DEF NoneDelete, ServiceInv, Work, WorkOf
  <2> QED
    BY <1>3, <2>1, FinishKeyed DEF NoneDelete
<1> QED
  BY <1>1, <1>2, <1>3 DEF NoneRequestStep

-----------------------------------------------------------------------------
(* Every step keeps the invariant. *)

\* A request that does not move keeps its part.
LEMMA OthersCause ==
    ASSUME NEW q \in Requests, AskedOf(q), AckedOf(q), KeyedOf(q), UndisturbedOf(q),
           UNCHANGED <<input[q], pos[q], out[q], reply[q]>>,
           pc'[q] = "sign" => pc[q] = "sign" /\ cur'[q] = cur[q],
           replacements' = 0 => replacements = 0 /\ (q \in disturbed' => q \in disturbed)
    PROVE  AskedOf(q)' /\ AckedOf(q)' /\ KeyedOf(q)' /\ UndisturbedOf(q)'
<1>1. Item(q)' = Item(q)
  BY DEF Item
<1> QED
  BY <1>1 DEF AskedOf, AckedOf, KeyedOf, UndisturbedOf

LEMMA RequestKeepsCause ==
    ASSUME TypeInv, StorageInv, ItemInv, CauseInv, NEW r \in Requests, RequestStep(r)
    PROVE  CauseInv'
<1>1. ServiceInv /\ Progress /\ HandOf(r)
  BY DEF TypeInv, StorageInv, ItemInv
<1>2. Effect(r) /\ Only(r) /\ Alone(r) /\ Still
  BY <1>1, RequestStepEffect, EffectOnly, RequestStepStill
<1>3. \/ disturbed' = disturbed
      \/ disturbed' = disturbed \union {r} /\ reply'[r] = 400
  BY <1>1, DisturbedBy
<1>4. repeated' # {} => Repeating
  BY RepeatedBy DEF CauseInv
<1>5. ASSUME NEW q \in Requests, q # r
      PROVE  AskedOf(q)' /\ AckedOf(q)' /\ KeyedOf(q)' /\ UndisturbedOf(q)'
  BY <1>2, <1>3, <1>5, OthersCause DEF CauseInv, Only, Still
<1>6. AskedOf(r)'
  BY <1>2 DEF Still, AskedOf, CauseInv
<1>7. pc[r] \in Working => reply[r] = 0
  BY <1>1 DEF Progress, ProgressOf
<1>8. input'[r] = input[r] /\ Steps \subseteq Working
  BY <1>2 DEF Still, Working
<1>9. Ends(r) \/ (pc[r] \in Working /\ reply'[r] \in {0, 400})
  <2>1. CASE Moves(r) \/ Writes(r)
    BY <1>7, <2>1 DEF Moves, Writes, Working, Steps
  <2>2. CASE Fails(r) \/ Repeats(r)
    BY <1>7, <2>2 DEF Fails, Repeats
  <2>3. ASSUME NEW result, Completes(r, result)
        PROVE  pc[r] \in Working /\ reply'[r] \in {0, 400}
    BY <1>7, <1>8, <2>3 DEF Completes
  <2> QED
    BY <1>2, <2>1, <2>2, <2>3 DEF Effect, Lists, Serves
<1>10. AckedOf(r)' /\ UndisturbedOf(r)'
  <2>1. AckedOf(r) /\ UndisturbedOf(r)
    BY DEF CauseInv
  <2>2. CASE Ends(r) /\ pc[r] = "next"
    <3>1. /\ pos'[r] = pos[r] /\ pos[r] = Len(input[r].items)
          /\ reply[r] = 0 /\ reply'[r] \in {200, 204}
      BY <1>7, <2>2 DEF Ends, Working
    <3> QED
      BY <1>2, <1>3, <1>8, <2>1, <3>1 DEF AckedOf, UndisturbedOf, Still
  <2>3. CASE Ends(r) /\ pc[r] # "next"
    <3>1. pos'[r] = pos[r] /\ reply'[r] = reply[r]
      BY <2>3 DEF Ends
    <3> QED
      BY <1>2, <1>3, <1>8, <2>1, <3>1 DEF AckedOf, UndisturbedOf, Still
  <2>4. CASE pc[r] \in Working /\ reply'[r] \in {0, 400}
    BY <1>2, <1>3, <1>7, <2>1, <2>4 DEF AckedOf, UndisturbedOf, Still
  <2> QED
    BY <1>9, <2>2, <2>3, <2>4
<1>11. KeyedOf(r)'
  <2>1. KeyedOf(r)
    BY DEF CauseInv
  <2> QED
    BY <1>1, <2>1, HandlerKeyed, VaultKeyed, LocalKeyed, NoneKeyed DEF RequestStep
<1> QED
  BY <1>4, <1>5, <1>6, <1>10, <1>11 DEF CauseInv

LEMMA ArrivalKeepsCause ==
    ASSUME TypeInv, StorageInv, CauseInv, NEW r \in Requests, Arrival(r)
    PROVE  CauseInv'
<1>1. ServiceInv /\ Progress
  BY DEF TypeInv, StorageInv
<1>2. /\ out'[r] = << >> /\ pc'[r] # "sign" /\ reply'[r] \in {0, 400}
      /\ UNCHANGED <<pos, cur, out, repeated>>
      /\ \A q \in Requests \ {r} :
            input'[q] = input[q] /\ pc'[q] = pc[q] /\ reply'[q] = reply[q]
  BY <1>1, ArrivalShape
<1>3. UNCHANGED <<replacements, disturbed>> /\ reply[r] = 0
  BY <1>1, ArrivalShape
  DEF Arrival, CreateSecret, RewrapSecret, DeleteSecret, Receive, RejectBody, fileVars
<1>4. ASSUME NEW q \in Requests, q # r
      PROVE  AskedOf(q)' /\ AckedOf(q)' /\ KeyedOf(q)' /\ UndisturbedOf(q)'
  BY <1>2, <1>3, <1>4, OthersCause DEF CauseInv
<1>5. AckedOf(r)' /\ KeyedOf(r)' /\ UndisturbedOf(r)'
  BY <1>2, <1>3 DEF AckedOf, KeyedOf, UndisturbedOf, CauseInv
<1>6. AskedOf(r)'
  <2>1. CASE input'[r].op # "create"
    BY <2>1 DEF AskedOf
  <2>2. CASE input'[r].op = "create"
    <3>1. PICK list \in BoundedSeq(CreateItems, MaxItems) : input'[r].items = list
      BY <1>1, <2>2 DEF Arrival, CreateSecret, RewrapSecret, DeleteSecret, RejectBody,
                        Receive, Unreadable, ServiceInv, ServiceTyped
    <3>2. list \in Seq(CreateItems)
      BY BoundedSeqType
    <3> QED
      BY <3>1, <3>2 DEF AskedOf
  <2> QED
    BY <2>1, <2>2
<1> QED
  BY <1>2, <1>4, <1>5, <1>6 DEF CauseInv

LEMMA NextCauseInv ==
    ASSUME TypeInv, StorageInv, ItemInv, CauseInv, [Next]_vars
    PROVE  CauseInv'
<1>1. CASE \E r \in Requests : Arrival(r)
  BY <1>1, ArrivalKeepsCause
<1>2. CASE \E r \in Requests : RequestStep(r)
  BY <1>2, RequestKeepsCause
<1>3. ASSUME UNCHANGED <<input, pos, out, reply, repeated>>,
             \A q \in Requests : pc'[q] = "sign" => pc[q] = "sign" /\ cur'[q] = cur[q],
             replacements' = 0 => replacements = 0 /\ disturbed' = disturbed
      PROVE  CauseInv'
  BY <1>3, OthersCause DEF CauseInv
<1>4. CASE Environment
  <2>1. CASE Crash /\ VaultOutlivesCrash /\ UNCHANGED fileVars
    BY <1>3, <2>1 DEF Crash, VaultOutlivesCrash, fileVars, Finished
  <2>2. CASE (\E c \in Configs : Restart(c)) /\ UNCHANGED <<vaultVars, fileVars>>
    BY <1>3, <2>2 DEF Restart, requestVars, vaultVars, fileVars
  <2>3. CASE VaultLate /\ UNCHANGED <<serviceVars, fileVars>>
    BY <1>3, <2>3 DEF VaultLate, serviceVars, requestVars, fileVars
  <2>4. ASSUME NEW k \in KeyNames, NEW file \in KeyFiles, ReplaceKeyFile(k, file),
               UNCHANGED <<processVars, input, pc, pos, cur, out, reply, vaultVars>>
        PROVE  CauseInv'
    <3>1. replacements' # 0
      BY <2>4, FileAssumption DEF ReplaceKeyFile, TypeInv, BackendTyped
    <3> QED
      BY <1>3, <2>4, <3>1 DEF vaultVars
  <2> QED
    BY <1>4, <2>1, <2>2, <2>3, <2>4 DEF Environment
<1>5. CASE UNCHANGED vars
  BY <1>3, <1>5 DEF vars, serviceVars, requestVars, vaultVars, fileVars
<1> QED
  BY <1>1, <1>2, <1>4, <1>5 DEF Next, Quiet

LEMMA InitCauseInv ==
    ASSUME Init
    PROVE  CauseInv
BY DEF Init, InitService, InitVault, CauseInv, AskedOf, AckedOf, KeyedOf, UndisturbedOf, NoInput

-----------------------------------------------------------------------------
\* The invariant holds in every state of every behaviour.
THEOREM CauseInvariance == Spec => []CauseInv
<1>1. Init => CauseInv
  BY InitCauseInv
<1>2. TypeInv /\ StorageInv /\ ItemInv /\ CauseInv /\ [Next]_vars => CauseInv'
  BY NextCauseInv
<1> QED
  BY <1>1, <1>2, StorageInvariance, ItemInvariance, PTL DEF Spec

\* An acknowledged purge is final as long as the client library repeats no write:
\* neither a late write of a request that failed nor a restart brings back what it
\* removed, while every token has a storage directory.
THEOREM AckedPurgesAreFinal ==
    ASSUME AlwaysStoring, ~Repeating
    PROVE  Spec => []AckedPurgeIsFinal
<1>1. TypeInv /\ CauseInv /\ PurgedIsGone => AckedPurgeIsFinal
  <2> SUFFICES ASSUME TypeInv, CauseInv, PurgedIsGone, NEW r \in Requests,
                      input[r].op = "purge", reply[r] = 204,
                      NEW i \in DOMAIN input[r].items, InStorage(input[r].items[i])
               PROVE  input[r].items[i].cipherText \notin stored
    BY DEF AckedPurgeIsFinal
  <2>1. repeated = {}
    BY DEF CauseInv
  <2>2. input[r] \in Inputs
    <3>1. Unreadable.op # "purge" /\ NoInput.op # "purge"
      BY DEF Unreadable, NoInput
    <3>2. input[r] \in Inputs \union {Unreadable, NoInput}
      BY DEF TypeInv, ServiceInv, ServiceTyped
    <3> QED
      BY <3>1, <3>2
  <2>3. DOMAIN input[r].items = 1..Len(input[r].items)
    BY <2>2, InputItems, LenProperties
  <2>4. i \in 1..pos[r]
    BY <2>3 DEF CauseInv, AckedOf
  <2> QED
    BY <2>1, <2>4 DEF PurgedIsGone
<1> QED
  BY <1>1, CauseInvariance, StorageInvariance, PurgedStaysGone, PTL

\* As long as no key file is replaced, one key opens both parts of every local key
\* secret a client holds, whatever else failed, died or was restarted: a key file of
\* another length than 32 bytes seals nothing.
THEOREM CreatedOpens == Spec => [](replacements = 0 => CreatedIsRewrappable)
<1>1. TypeInv /\ ItemInv /\ CauseInv /\ replacements = 0 => CreatedIsRewrappable
  <2> SUFFICES ASSUME TypeInv, ItemInv, CauseInv, replacements = 0,
                      NEW s \in Held, s.backend = "localkey"
               PROVE  s.cipherText.ct.key \in Keys /\ s.signature.key = s.cipherText.ct.key
    BY DEF CreatedIsRewrappable
  <2>1. PICK c \in Requests : /\ input[c].op = "create" /\ reply[c] = 200
                             /\ s \in ToSet(out[c])
    BY DEF Held
  <2>2. PICK i \in DOMAIN out[c] : s = out[c][i]
    BY <2>1 DEF ToSet
  <2>3. SealedFrom(c, i, s)
    BY <2>1, <2>2 DEF ItemInv, AnsweredOf
  <2>4. c \notin disturbed
    BY <2>1 DEF CauseInv, UndisturbedOf
  <2>5. s.cipherText.ct.key \in Keys
    BY <2>1, <2>2 DEF CauseInv, KeyedOf
  <2> QED
    BY <2>3, <2>4, <2>5 DEF SealedFrom
<1> QED
  BY <1>1, CauseInvariance, ItemInvariance, PTL

\* No client gives a text plain that could be decoded as it stands, but the empty one.
NoLookalikes ==
    \A item \in CreateItems : item # Null /\ item.clearText.depth = 0 =>
        item.clearText.word \notin Base64Words \ {EmptyWord}

\* Then what a rewrap delivers decodes to the text that was given, however clients
\* put the parts of their secrets together.
THEOREM TextsComeBack ==
    ASSUME NoLookalikes
    PROVE  Spec => []RewrapDecodesToTextGiven
<1>1. TypeInv /\ ItemInv /\ RewrapInv /\ CauseInv => RewrapDecodesToTextGiven
  <2> SUFFICES ASSUME TypeInv, ItemInv, RewrapInv, CauseInv, NEW r \in Requests,
                      input[r].op = "rewrap", NEW i \in DOMAIN out[r],
                      out[r][i].text # EmptyText
               PROVE  out[r][i].text.depth = 1
    BY DEF RewrapDecodesToTextGiven
  <2> DEFINE sent == input[r].items[i]
  <2>1. /\ i \in DOMAIN input[r].items /\ sent # Null
        /\ out[r][i].text = sent.cipherText.ct.text
    <3>1. OpenedFrom(r, i, out[r][i])
      BY DEF ItemInv, AnsweredOf
    <3> QED
      BY <3>1 DEF OpenedFrom
  <2>2. PICK s \in Held : s.cipherText = sent.cipherText
    BY <2>1 DEF RewrapInv, SentHeld
  <2>3. PICK c \in Requests : \E j : input[c].op = "create" /\ SealedFrom(c, j, s)
    BY HeldSealed DEF TypeInv
  <2>4. PICK j : input[c].op = "create" /\ SealedFrom(c, j, s)
    BY <2>3
  <2> DEFINE item == input[c].items[j]
  <2>5. /\ item # Null /\ item \in CreateItems
        /\ s.cipherText.ct.text = Normalise(item.clearText)
    BY <2>4 DEF SealedFrom, CauseInv, AskedOf
  <2>6. item.clearText \in Texts
    BY <2>5, ServiceAssumption DEF UnencryptedSecrets
  <2>7. Normalise(item.clearText) # EmptyText => Normalise(item.clearText).depth = 1
    <3> HIDE DEF item
    <3> QED
      BY <2>5, <2>6 DEF Normalise, IsBase64, EmptyText, Texts, NoLookalikes
  <2> QED
    BY <2>1, <2>2, <2>5, <2>7
<1> QED
  BY <1>1, CauseInvariance, RewrapInvariance, ItemInvariance, PTL
=============================================================================

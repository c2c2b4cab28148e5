------------------------ MODULE SecretDeliveryProofs ------------------------
(***************************************************************************)
(* Theorems about SecretDelivery, for every value of its constants.        *)
(***************************************************************************)
EXTENDS SecretDelivery, SequenceTheorems, TLAPS

-----------------------------------------------------------------------------
(* The inductive invariant behind type correctness. *)

\* What the service's variables hold, disturbed apart.
ServiceTyped ==
    /\ up \in BOOLEAN
    /\ config \in Configs
    /\ restarts \in 0..MaxRestarts /\ (~up => restarts < MaxRestarts)
    /\ input \in [Requests -> Inputs \union {Unreadable, NoInput}]
    /\ pc \in [Requests -> Places]
    /\ pos \in [Requests -> 0..MaxItems]
    /\ cur \in [Requests -> [checked : BOOLEAN, cipherText : CipherTexts, clearText : Texts]]
    /\ out \in [Requests -> Seq(EncryptedSecrets \union Envelopes)]
    /\ reply \in [Requests -> {0, 200, 204, 400}]

\* How far a request is and what it has in hand fit what it asked for.
WorkOf(r) ==
    /\ pc[r] = "idle" => pos[r] = 0 /\ out[r] = << >>
    /\ pc[r] \in Steps \union {"next"} =>
        /\ up
        /\ input[r] \in Inputs
        /\ pos[r] <= Len(input[r].items)
    /\ pc[r] \in Steps => pos[r] < Len(input[r].items) /\ Acceptable(Item(r))
    /\ pc[r] \in {"encrypt", "store", "sign"} => input[r].op = "create"
    /\ pc[r] \in {"fetch", "decrypt", "verify"} => input[r].op = "rewrap"
    /\ pc[r] = "delete" => input[r].op = "purge"
    /\ pc[r] = "store" => Item(r).backend = "vault" /\ config.vault # NoDir
    /\ input[r].op = "create" => out[r] \in Seq(EncryptedSecrets)

Work == \A r \in Requests : WorkOf(r)

ServiceInv == ServiceTyped /\ Work

BackendTyped ==
    /\ disturbed \subseteq Requests
    /\ stored \subseteq Paths
    /\ late \subseteq LateCalls
    /\ faults \in 0..MaxFaults
    /\ repeated \subseteq Requests
    /\ keyFile \in [KeyNames -> KeyFiles]
    /\ replacements \in 0..MaxReplacements

TypeInv == ServiceInv /\ BackendTyped

-----------------------------------------------------------------------------
(* Facts about the data. *)

\* The lists clients send are sequences of the items they may send.
LEMMA BoundedSeqType ==
    ASSUME NEW S, NEW list \in BoundedSeq(S, MaxItems)
    PROVE  list \in Seq(S) /\ Len(list) <= MaxItems
<1>1. PICK m \in 0..MaxItems : list \in [1..m -> S]
  BY DEF BoundedSeq, SeqOf
<1>2. m \in Nat
  BY DataAssumption
<1>3. list \in Seq(S)
  BY <1>1, <1>2, SeqDef
<1>4. Len(list) = m
  BY <1>1, <1>2, <1>3, LenProperties
<1> QED
  BY <1>3, <1>4, DataAssumption

\* Normalising a text gives a text.
LEMMA NormaliseType ==
    ASSUME NEW t \in Texts
    PROVE  Normalise(t) \in Texts
<1>1. CASE IsBase64(t)
  BY <1>1 DEF Normalise
<1>2. CASE ~IsBase64(t)
  <2>1. t.word # EmptyWord /\ t.word \in Words /\ t = [word |-> t.word, depth |-> t.depth]
    BY <1>2, DataAssumption DEF IsBase64, Texts
  <2> QED
    BY <1>2, <2>1 DEF Normalise, Texts, EmptyText
<1> QED
  BY <1>1, <1>2

LEMMA EmptyTextType == EmptyText \in Texts
BY DataAssumption DEF EmptyText, Texts

LEMMA SealType ==
    ASSUME NEW b \in Backends, NEW k \in Materials, NEW t \in Texts, NEW n \in Nonces
    PROVE  /\ Seal(b, k, t, n) \in Seals
           /\ Raw(Seal(b, k, t, n)) \in CipherTexts
BY DEF Seal, Seals, Raw, CipherTexts

LEMMA BlankType ==
    Blank \in [checked : BOOLEAN, cipherText : CipherTexts, clearText : Texts]
<1>1. Raw(NoSeal) \in CipherTexts
  BY SealType, EmptyTextType DEF NoSeal, Backends, Materials, Nonces
<1> QED
  BY <1>1, EmptyTextType DEF Blank

\* The items of a request, by what it asks for.
LEMMA InputItems ==
    ASSUME NEW in \in Inputs
    PROVE  /\ in.items \in Seq(UnencryptedSecrets \union EncryptedSecrets \union {Null})
           /\ Len(in.items) <= MaxItems
           /\ in.op \in {"create", "rewrap", "purge"}
           /\ in.op = "create" =>
                in.items \in Seq(UnencryptedSecrets \union {Null})
           /\ in.op # "create" =>
                in.items \in Seq(EncryptedSecrets \union {Null})
<1>1. CASE in \in [op : {"create"}, items : ListsOf(UnencryptedSecrets \union {Null}),
                   rewrapKey : {BadRewrapKey}]
  <2>1. in.items \in ListsOf(UnencryptedSecrets \union {Null}) /\ in.op = "create"
    BY <1>1
  <2>2. Seq(UnencryptedSecrets \union {Null})
          \subseteq Seq(UnencryptedSecrets \union EncryptedSecrets \union {Null})
    BY SeqMonotonic, Zenon
  <2> QED
    BY <2>1, <2>2 DEF ListsOf
<1>2. CASE in \in [op : {"rewrap", "purge"}, items : ListsOf(EncryptedSecrets \union {Null}),
                   rewrapKey : RewrapKeys \union {BadRewrapKey}]
  <2>1. in.items \in ListsOf(EncryptedSecrets \union {Null}) /\ in.op \in {"rewrap", "purge"}
    BY <1>2
  <2>2. Seq(EncryptedSecrets \union {Null})
          \subseteq Seq(UnencryptedSecrets \union EncryptedSecrets \union {Null})
    BY SeqMonotonic, Zenon
  <2> QED
    BY <2>1, <2>2 DEF ListsOf
<1> QED
  BY <1>1, <1>2 DEF Inputs

\* What an acceptable item of a request is made of.
LEMMA ItemType ==
    ASSUME NEW r \in Requests, ServiceInv, pc[r] \in Steps
    PROVE  /\ input[r] \in Inputs
           /\ pos[r] + 1 \in 1..MaxItems /\ pos[r] + 1 \in 1..Len(input[r].items)
           /\ Nonce(r) \in Nonces
           /\ input[r].op = "create" => Item(r) \in UnencryptedSecrets
           /\ input[r].op # "create" => Item(r) \in EncryptedSecrets
           /\ Item(r).backend \in Backends
           /\ Item(r).backend # "none" => Item(r).keyName \in KeyNames
           /\ Item(r).backend = "vault" => config.vault # "off"
<1>1. /\ input[r] \in Inputs /\ pos[r] \in 0..MaxItems
      /\ pos[r] < Len(input[r].items) /\ Acceptable(Item(r))
  BY DEF ServiceInv, ServiceTyped, Work, WorkOf
<1>2. Len(input[r].items) \in Nat /\ Len(input[r].items) <= MaxItems
  BY <1>1, InputItems, LenProperties
<1>3. pos[r] + 1 \in 1..MaxItems /\ pos[r] + 1 \in 1..Len(input[r].items)
  BY <1>1, <1>2, DataAssumption
<1>4. Nonce(r) \in Nonces
  BY <1>3 DEF Nonce, Nonces
<1>5. Item(r) # Null
  BY <1>1 DEF Acceptable
<1>6. input[r].op = "create" => Item(r) \in UnencryptedSecrets
  BY <1>1, <1>3, <1>5, InputItems, ElementOfSeq DEF Item
<1>7. input[r].op # "create" => Item(r) \in EncryptedSecrets
  BY <1>1, <1>3, <1>5, InputItems, ElementOfSeq DEF Item
<1>8. Item(r).backend \in BackendNames /\ Item(r).keyName \in Names
  BY <1>6, <1>7 DEF UnencryptedSecrets, EncryptedSecrets
<1>9. Item(r).backend \in Backends /\ (Item(r).backend = "vault" => config.vault # "off")
  BY <1>1 DEF Acceptable, Configured, Backends
<1>10. Item(r).backend # "none" => Item(r).keyName \in KeyNames
  BY <1>1, <1>8 DEF Acceptable, ValidKeyName, Names
<1> QED
  BY <1>1, <1>3, <1>4, <1>6, <1>7, <1>9, <1>10

\* Clients hold encrypted secrets.
LEMMA HeldType ==
    ASSUME ServiceInv
    PROVE  Held \subseteq EncryptedSecrets
<1>1. SUFFICES ASSUME NEW r \in Requests, input[r].op = "create", NEW s \in ToSet(out[r])
               PROVE  s \in EncryptedSecrets
  BY DEF Held
<1>2. out[r] \in Seq(EncryptedSecrets)
  BY <1>1 DEF ServiceInv, Work, WorkOf
<1>3. PICK i \in DOMAIN out[r] : s = out[r][i]
  BY <1>1 DEF ToSet
<1> QED
  BY <1>2, <1>3, ElementOfSeq, LenProperties

\* They send nothing but items of that type.
LEMMA ClientItemsType ==
    ASSUME ServiceInv
    PROVE  ClientItems \subseteq EncryptedSecrets \union {Null}
<1>1. Held \subseteq EncryptedSecrets
  BY HeldType
<1>2. \A s \in Held, t \in Held : [s EXCEPT !.signature = t.signature] \in EncryptedSecrets
  BY <1>1 DEF EncryptedSecrets
<1>3. \A s \in Held, k \in KeyNames : [s EXCEPT !.keyName = k] \in EncryptedSecrets
  BY <1>1 DEF EncryptedSecrets, Names
<1> QED
  BY <1>1, <1>2, <1>3 DEF ClientItems

-----------------------------------------------------------------------------
(* The three ways a step of a request ends keep the service well typed. *)

LEMMA AbortKeeps ==
    ASSUME NEW r \in Requests, ServiceInv, pc[r] \in Steps \union {"next"},
           Abort(r), UNCHANGED processVars
    PROVE  ServiceInv'
<1> USE DEF ServiceInv, Abort, processVars
<1>1. ServiceTyped'
  <2>1. << >> \in Seq(EncryptedSecrets \union Envelopes)
    BY EmptySeq
  <2> QED
    BY <2>1, BlankType DEF ServiceTyped, Places
<1>2. ASSUME NEW q \in Requests PROVE WorkOf(q)'
  <2>1. CASE q = r
    <3>1. << >> \in Seq(EncryptedSecrets)
      BY EmptySeq
    <3> QED
      BY <2>1, <3>1 DEF ServiceTyped, WorkOf, Steps
  <2>2. CASE q # r
    BY <2>2 DEF ServiceTyped, Work, WorkOf, Item, Acceptable, Configured
  <2> QED
    BY <2>1, <2>2
<1> QED
  BY <1>1, <1>2 DEF Work

LEMMA GoToKeeps ==
    ASSUME NEW r \in Requests, ServiceInv, pc[r] \in Steps \union {"next"},
           pos[r] < Len(input[r].items), Acceptable(Item(r)),
           NEW step \in Steps,
           step \in {"encrypt", "store", "sign"} => input[r].op = "create",
           step \in {"fetch", "decrypt", "verify"} => input[r].op = "rewrap",
           step = "delete" => input[r].op = "purge",
           step = "store" => Item(r).backend = "vault" /\ config.vault # NoDir,
           NEW locals \in [checked : BOOLEAN, cipherText : CipherTexts, clearText : Texts],
           GoTo(r, step, locals), UNCHANGED processVars
    PROVE  ServiceInv'
<1> USE DEF ServiceInv, GoTo, processVars
<1>1. ServiceTyped'
  BY DEF ServiceTyped, Places
<1>2. ASSUME NEW q \in Requests PROVE WorkOf(q)'
  <2>1. CASE q = r
    <3>1. /\ up /\ input[r] \in Inputs /\ pos[r] <= Len(input[r].items)
          /\ input[r].op = "create" => out[r] \in Seq(EncryptedSecrets)
      BY DEF Work, WorkOf
    <3>2. pc'[r] = step
      BY DEF ServiceTyped
    <3>3. Acceptable(Item(r))' /\ Item(r)' = Item(r)
      BY DEF Item, Acceptable, Configured
    <3> QED
      BY <2>1, <3>1, <3>2, <3>3 DEF WorkOf, Steps
  <2>2. CASE q # r
    BY <2>2 DEF ServiceTyped, Work, WorkOf, Item, Acceptable, Configured
  <2> QED
    BY <2>1, <2>2
<1> QED
  BY <1>1, <1>2 DEF Work

LEMMA FinishItemKeeps ==
    ASSUME NEW r \in Requests, ServiceInv, pc[r] \in Steps,
           NEW result \in Seq(EncryptedSecrets \union Envelopes),
           input[r].op = "create" => result \in Seq(EncryptedSecrets),
           FinishItem(r, result), UNCHANGED processVars
    PROVE  ServiceInv'
<1> USE DEF ServiceInv, FinishItem, processVars
<1>1. pos[r] + 1 \in 0..MaxItems /\ pos[r] + 1 <= Len(input[r].items)
  BY ItemType, DataAssumption
<1>2. ServiceTyped'
  <2>1. out[r] \o result \in Seq(EncryptedSecrets \union Envelopes)
    BY ConcatProperties DEF ServiceTyped
  <2> QED
    BY <1>1, <2>1, BlankType DEF ServiceTyped, Places
<1>3. ASSUME NEW q \in Requests PROVE WorkOf(q)'
  <2>1. CASE q = r
    <3>1. input[r].op = "create" => out[r] \o result \in Seq(EncryptedSecrets)
      BY ConcatProperties DEF Work, WorkOf
    <3>2. up /\ input[r] \in Inputs
      BY DEF Work, WorkOf
    <3>3. pc'[r] = "next" /\ pos'[r] = pos[r] + 1 /\ out'[r] = out[r] \o result
      BY DEF ServiceTyped
    <3> QED
      BY <1>1, <2>1, <3>1, <3>2, <3>3 DEF WorkOf, Steps
  <2>2. CASE q # r
    BY <2>2 DEF ServiceTyped, Work, WorkOf, Item, Acceptable, Configured
  <2> QED
    BY <2>1, <2>2
<1> QED
  BY <1>2, <1>3 DEF Work

LEMMA SealItemKeeps ==
    ASSUME NEW r \in Requests, ServiceInv, pc[r] = "sign",
           NEW signature \in Seals,
           SealItem(r, signature), UNCHANGED processVars
    PROVE  ServiceInv'
<1> DEFINE secret == [backend |-> Item(r).backend, keyName |-> Item(r).keyName,
                      cipherText |-> cur[r].cipherText, signature |-> signature]
<1>1. pc[r] \in Steps /\ input[r].op = "create"
  BY DEF Steps, ServiceInv, Work, WorkOf
<1>2. Item(r) \in UnencryptedSecrets
  BY <1>1, ItemType
<1>3. cur[r].cipherText \in CipherTexts
  BY DEF ServiceInv, ServiceTyped
<1>4. secret \in EncryptedSecrets
  BY <1>2, <1>3 DEF UnencryptedSecrets, EncryptedSecrets
<1>5. <<secret>> \in Seq(EncryptedSecrets) /\ <<secret>> \in Seq(EncryptedSecrets \union Envelopes)
  BY <1>4
<1>6. FinishItem(r, <<secret>>)
  BY DEF SealItem
<1> QED
  BY <1>1, <1>5, <1>6, FinishItemKeeps

LEMMA WrapItemKeeps ==
    ASSUME NEW r \in Requests, ServiceInv, pc[r] \in {"decrypt", "verify"},
           NEW text \in Texts,
           WrapItem(r, text), UNCHANGED processVars
    PROVE  ServiceInv'
<1> DEFINE envelope == [to |-> input[r].rewrapKey, tmp |-> r, text |-> text]
<1>1. pc[r] \in Steps /\ input[r].op = "rewrap"
  BY DEF Steps, ServiceInv, Work, WorkOf
<1>2. CASE input[r].rewrapKey \in RewrapKeys
  <2>1. <<envelope>> \in Seq(EncryptedSecrets \union Envelopes)
    BY <1>2 DEF Envelopes
  <2>2. FinishItem(r, <<envelope>>)
    BY <1>2 DEF WrapItem, ParsesAsPublicKey
  <2> QED
    BY <1>1, <2>1, <2>2, FinishItemKeeps
<1>3. CASE input[r].rewrapKey \notin RewrapKeys
  BY <1>1, <1>3, AbortKeeps DEF WrapItem, ParsesAsPublicKey
<1> QED
  BY <1>2, <1>3

-----------------------------------------------------------------------------
(* Every step keeps the state well typed. *)

LEMMA ReceiveKeeps ==
    ASSUME NEW r \in Requests, ServiceInv, NEW in \in Inputs, Receive(r, in)
    PROVE  ServiceInv'
<1> USE DEF ServiceInv, Receive, processVars
<1>1. ServiceTyped'
  BY DEF ServiceTyped, Places
<1>2. ASSUME NEW q \in Requests PROVE WorkOf(q)'
  <2>1. CASE q = r
    <3>1. out[r] = << >> /\ pos[r] = 0 /\ pos[r] <= Len(in.items)
      BY InputItems, LenProperties DEF Work, WorkOf
    <3>2. << >> \in Seq(EncryptedSecrets)
      BY EmptySeq
    <3> QED
      BY <2>1, <3>1, <3>2 DEF ServiceTyped, WorkOf, Steps
  <2>2. CASE q # r
    BY <2>2 DEF ServiceTyped, Work, WorkOf, Item, Acceptable, Configured
  <2> QED
    BY <2>1, <2>2
<1> QED
  BY <1>1, <1>2 DEF Work

LEMMA ArrivalKeeps ==
    ASSUME NEW r \in Requests, ServiceInv,
           CreateSecret(r) \/ RewrapSecret(r) \/ DeleteSecret(r) \/ RejectBody(r)
    PROVE  ServiceInv'
<1>1. CASE CreateSecret(r)
  <2>1. PICK list \in BoundedSeq(CreateItems, MaxItems) :
          Receive(r, [op |-> "create", items |-> list, rewrapKey |-> BadRewrapKey])
    BY <1>1 DEF CreateSecret
  <2>2. list \in ListsOf(UnencryptedSecrets \union {Null})
    BY BoundedSeqType, ServiceAssumption, SeqMonotonic DEF ListsOf
  <2>3. [op |-> "create", items |-> list, rewrapKey |-> BadRewrapKey] \in Inputs
    BY <2>2 DEF Inputs
  <2> QED
    BY <2>1, <2>3, ReceiveKeeps
<1>2. ASSUME NEW list \in BoundedSeq(ClientItems, MaxItems)
      PROVE  list \in ListsOf(EncryptedSecrets \union {Null})
  BY <1>2, BoundedSeqType, ClientItemsType, SeqMonotonic DEF ListsOf
<1>3. CASE RewrapSecret(r)
  <2>1. PICK list \in BoundedSeq(ClientItems, MaxItems), key \in RewrapKeys \union {BadRewrapKey} :
          Receive(r, [op |-> "rewrap", items |-> list, rewrapKey |-> key])
    BY <1>3 DEF RewrapSecret
  <2>2. [op |-> "rewrap", items |-> list, rewrapKey |-> key] \in Inputs
    BY <1>2 DEF Inputs
  <2> QED
    BY <2>1, <2>2, ReceiveKeeps
<1>4. CASE DeleteSecret(r)
  <2>1. PICK list \in BoundedSeq(ClientItems, MaxItems) :
          Receive(r, [op |-> "purge", items |-> list, rewrapKey |-> BadRewrapKey])
    BY <1>4 DEF DeleteSecret
  <2>2. [op |-> "purge", items |-> list, rewrapKey |-> BadRewrapKey] \in Inputs
    BY <1>2 DEF Inputs
  <2> QED
    BY <2>1, <2>2, ReceiveKeeps
<1>5. CASE RejectBody(r)
  <2> USE <1>5 DEF ServiceInv, RejectBody, processVars
  <2>1. ServiceTyped'
    BY DEF ServiceTyped, Places
  <2>2. ASSUME NEW q \in Requests PROVE WorkOf(q)'
    <3>1. CASE q = r
      BY <3>1 DEF ServiceTyped, WorkOf, Steps, Unreadable
    <3>2. CASE q # r
      BY <3>2 DEF ServiceTyped, Work, WorkOf, Item, Acceptable, Configured
    <3> QED
      BY <3>1, <3>2
  <2> QED
    BY <2>1, <2>2 DEF Work
<1> QED
  BY <1>1, <1>3, <1>4, <1>5

LEMMA HandlerStepKeeps ==
    ASSUME NEW r \in Requests, ServiceInv, HandlerStep(r)
    PROVE  ServiceInv'
<1>1. CASE RefuseItem(r)
  BY <1>1, AbortKeeps DEF RefuseItem
<1>2. CASE TakeItem(r)
  <2> DEFINE locals == IF input[r].op = "create"
                       THEN [Blank EXCEPT !.clearText = Normalise(Item(r).clearText)]
                       ELSE Blank
  <2>1. /\ pc[r] = "next" /\ pos[r] < Len(input[r].items) /\ Acceptable(Item(r))
        /\ GoTo(r, FirstStep(r), locals) /\ UNCHANGED processVars
    BY <1>2 DEF TakeItem
  <2>2. input[r] \in Inputs /\ pos[r] \in 0..MaxItems
    BY <2>1 DEF ServiceInv, ServiceTyped, Work, WorkOf
  <2>3. input[r].op \in {"create", "rewrap", "purge"} /\ Len(input[r].items) \in Nat
    BY <2>2, InputItems, LenProperties
  <2>4. input[r].op = "create" => Item(r).clearText \in Texts
    <3>1. SUFFICES ASSUME input[r].op = "create" PROVE Item(r).clearText \in Texts
      OBVIOUS
    <3>2. input[r].items \in Seq(UnencryptedSecrets \union {Null})
      BY <2>2, <3>1, InputItems
    <3>3. pos[r] + 1 \in 1..Len(input[r].items)
      BY <2>1, <2>2, <2>3, DataAssumption
    <3>4. Item(r) \in UnencryptedSecrets
      BY <2>1, <3>2, <3>3, ElementOfSeq DEF Item, Acceptable
    <3> QED
      BY <3>4 DEF UnencryptedSecrets
  <2>5. locals \in [checked : BOOLEAN, cipherText : CipherTexts, clearText : Texts]
    BY <2>4, BlankType, NormaliseType
  <2>6. /\ FirstStep(r) \in Steps
        /\ FirstStep(r) \in {"encrypt", "store", "sign"} => input[r].op = "create"
        /\ FirstStep(r) \in {"fetch", "decrypt", "verify"} => input[r].op = "rewrap"
        /\ FirstStep(r) = "delete" => input[r].op = "purge"
        /\ FirstStep(r) # "store"
    BY <2>3 DEF FirstStep, Steps
  <2> HIDE DEF locals
  <2> QED
    BY <2>1, <2>5, <2>6, GoToKeeps
<1>3. CASE Finish(r)
  <2> USE <1>3 DEF ServiceInv, Finish, processVars
  <2>1. ServiceTyped'
    BY DEF ServiceTyped, Places
  <2>2. ASSUME NEW q \in Requests PROVE WorkOf(q)'
    BY DEF ServiceTyped, Work, WorkOf, Item, Acceptable, Configured, Steps
  <2> QED
    BY <2>1, <2>2 DEF Work
<1>4. CASE Deliver(r)
  <2> USE <1>4 DEF ServiceInv, Deliver, processVars
  <2>1. ServiceTyped'
    BY DEF ServiceTyped, Places
  <2>2. ASSUME NEW q \in Requests PROVE WorkOf(q)'
    BY DEF ServiceTyped, Work, WorkOf, Item, Acceptable, Configured, Steps, Finished
  <2> QED
    BY <2>1, <2>2 DEF Work
<1> QED
  BY <1>1, <1>2, <1>3, <1>4 DEF HandlerStep

LEMMA CrashKeeps ==
    ASSUME ServiceInv, Crash
    PROVE  ServiceInv'
<1> USE DEF ServiceInv, Crash
<1>1. ServiceTyped'
  BY BlankType DEF ServiceTyped, Places, Finished
<1>2. ASSUME NEW q \in Requests PROVE WorkOf(q)'
  BY DEF ServiceTyped, Work, WorkOf, Steps, Finished
<1> QED
  BY <1>1, <1>2 DEF Work

LEMMA RestartKeeps ==
    ASSUME ServiceInv, NEW c \in Configs, Restart(c)
    PROVE  ServiceInv'
<1> USE DEF ServiceInv, Restart, requestVars
<1>1. ServiceTyped'
  BY ServiceAssumption DEF ServiceTyped
<1>2. ASSUME NEW q \in Requests PROVE WorkOf(q)'
  BY DEF ServiceTyped, Work, WorkOf, Steps
<1> QED
  BY <1>1, <1>2 DEF Work

\* The locals of a request at work are well typed, and so is what it seals.
LEMMA LocalsType ==
    ASSUME NEW r \in Requests, ServiceInv, pc[r] \in Steps
    PROVE  /\ cur[r] \in [checked : BOOLEAN, cipherText : CipherTexts, clearText : Texts]
           /\ \A b \in Backends, k \in Materials :
                /\ Seal(b, k, cur[r].clearText, Nonce(r)) \in Seals
                /\ Raw(Seal(b, k, cur[r].clearText, Nonce(r))) \in CipherTexts
<1>1. cur[r] \in [checked : BOOLEAN, cipherText : CipherTexts, clearText : Texts]
  BY DEF ServiceInv, ServiceTyped
<1>2. cur[r].clearText \in Texts /\ Nonce(r) \in Nonces
  BY <1>1, ItemType
<1> QED
  BY <1>1, <1>2, SealType

\* A failed Vault call.
LEMMA VaultFailsKeeps ==
    ASSUME NEW r \in Requests, TypeInv, pc[r] \in Steps,
           NEW pending \in SUBSET LateCalls,
           VaultFails(r, pending), UNCHANGED <<processVars, fileVars>>
    PROVE  TypeInv'
<1>1. ServiceInv'
  BY AbortKeeps DEF TypeInv, VaultFails
<1>2. BackendTyped'
  BY VaultAssumption DEF TypeInv, BackendTyped, VaultFails, fileVars
<1> QED
  BY <1>1, <1>2 DEF TypeInv

\* A repeated one.
LEMMA VaultRepeatsKeeps ==
    ASSUME TypeInv, NEW call \in LateCalls, VaultRepeats(call),
           NEW more \in SUBSET Requests, repeated' = repeated \union more,
           UNCHANGED <<processVars, fileVars>>
    PROVE  TypeInv'
<1>1. ServiceInv'
  BY DEF TypeInv, VaultRepeats, ServiceInv, ServiceTyped, Work, WorkOf, Item, Acceptable,
         Configured, requestVars, processVars
<1>2. BackendTyped'
  BY VaultAssumption DEF TypeInv, BackendTyped, VaultRepeats, requestVars, fileVars
<1> QED
  BY <1>1, <1>2 DEF TypeInv

\* The path an item is stored at.
LEMMA PathType ==
    ASSUME NEW r \in Requests, ServiceInv, At(r, "store", "vault")
    PROVE  PathOf(r) \in Paths /\ PathOf(r) \in CipherTexts
<1>1. pc[r] \in Steps /\ config.vault # NoDir
  BY DEF At, Steps, ServiceInv, Work, WorkOf
<1>2. config.vault # "off" /\ config \in AllConfigs
  BY <1>1, ItemType, ServiceAssumption DEF At, ServiceInv, ServiceTyped
<1>3. config.vault \in StorageDirs
  BY <1>1, <1>2 DEF AllConfigs
<1>4. cur[r].cipherText \in CipherTexts
  BY <1>1, LocalsType
<1> QED
  BY <1>3, <1>4 DEF PathOf, Paths, CipherTexts

LEMMA CallType ==
    ASSUME TypeInv, NEW r \in Requests, NEW kind \in {"put", "delete"}, NEW path \in Paths
    PROVE  Call(kind, path, r) \in LateCalls
BY DEF Call, LateCalls, TypeInv, BackendTyped

\* What Vault may still carry out when the process dies.
LEMMA UnderwayType ==
    ASSUME TypeInv
    PROVE  Underway \subseteq LateCalls
<1>0. ServiceInv
  BY DEF TypeInv
<1>1. ASSUME NEW r \in Requests, At(r, "store", "vault")
      PROVE  Call("put", PathOf(r), r) \in LateCalls
  BY <1>0, <1>1, PathType, CallType
<1>2. ASSUME NEW r \in Requests, At(r, "delete", "vault"), InStorageDir(Item(r).cipherText)
      PROVE  Call("delete", Item(r).cipherText, r) \in LateCalls
  <2>1. pc[r] = "delete" /\ pc[r] \in Steps /\ input[r].op = "purge"
    BY <1>0, <1>2 DEF At, Steps, ServiceInv, Work, WorkOf
  <2>2. Item(r).cipherText \in CipherTexts
    BY <1>0, <2>1, ItemType DEF EncryptedSecrets
  <2>3. config.vault \in StorageDirs
    BY <1>0, <1>2, <2>1, ItemType, ServiceAssumption
       DEF At, InStorageDir, Storing, AllConfigs, ServiceInv, ServiceTyped
  <2>4. Item(r).cipherText \in Paths
    BY <1>2, <2>2, <2>3 DEF InStorageDir, CipherTexts, Paths
  <2> QED
    BY <2>4, CallType
<1> QED
  BY <1>1, <1>2 DEF Underway

LEMMA VaultStepKeeps ==
    ASSUME NEW r \in Requests, TypeInv, VaultRequestStep(r),
           UNCHANGED <<processVars, fileVars>>
    PROVE  TypeInv'
<1> USE DEF TypeInv
<1>1. ASSUME NoFault, UNCHANGED stored PROVE BackendTyped'
  BY <1>1 DEF NoFault, BackendTyped, fileVars
<1>2. CASE VaultCallFails(r)
  <2>1. pc[r] \in Steps /\ VaultFails(r, {})
    BY <1>2 DEF VaultCallFails, At
  <2> QED
    BY <2>1, VaultFailsKeeps
<1>10. CASE VaultRepeatStore(r)
  <2>1. Call("put", PathOf(r), r) \in LateCalls
    BY <1>10, PathType, CallType DEF VaultRepeatStore
  <2> QED
    BY <1>10, <2>1, VaultRepeatsKeeps DEF VaultRepeatStore
<1>11. CASE VaultRepeatDelete(r)
  <2>1. Call("delete", Item(r).cipherText, r) \in LateCalls
    BY <1>11, UnderwayType DEF VaultRepeatDelete, Underway
  <2>2. {} \in SUBSET Requests /\ repeated' = repeated \union {}
    BY <1>11 DEF VaultRepeatDelete
  <2>3. VaultRepeats(Call("delete", Item(r).cipherText, r))
    BY <1>11 DEF VaultRepeatDelete
  <2> HIDE DEF TypeInv
  <2> QED
    BY <2>1, <2>2, <2>3, VaultRepeatsKeeps, Zenon
<1>3. CASE VaultEncrypt(r)
  <2>1. /\ pc[r] = "encrypt" /\ pc[r] \in Steps /\ Item(r).backend = "vault"
        /\ input[r].op = "create" /\ Acceptable(Item(r)) /\ pos[r] < Len(input[r].items)
    BY <1>3 DEF VaultEncrypt, At, Steps, ServiceInv, Work, WorkOf
  <2> DEFINE locals == [cur[r] EXCEPT !.cipherText =
                Raw(Seal("vault", Item(r).keyName, cur[r].clearText, Nonce(r)))]
             step == IF Storing THEN "store" ELSE "sign"
  <2>2. Item(r).keyName \in Materials
    BY <2>1, ItemType DEF Materials
  <2>3. locals \in [checked : BOOLEAN, cipherText : CipherTexts, clearText : Texts]
    BY <2>1, <2>2, LocalsType DEF Backends
  <2>4. step \in Steps /\ step \in {"store", "sign"} /\ (step = "store" => config.vault # NoDir)
    BY DEF Storing, Steps
  <2>5. GoTo(r, step, locals)
    BY <1>3 DEF VaultEncrypt
  <2> HIDE DEF locals, step
  <2>6. ServiceInv'
    BY <2>1, <2>3, <2>4, <2>5, GoToKeeps
  <2> QED
    BY <1>1, <1>3, <2>6 DEF VaultEncrypt
<1>4. CASE VaultStore(r)
  <2>1. /\ pc[r] = "store" /\ pc[r] \in Steps /\ Item(r).backend = "vault"
        /\ input[r].op = "create" /\ Acceptable(Item(r)) /\ pos[r] < Len(input[r].items)
    BY <1>4 DEF VaultStore, At, Steps, ServiceInv, Work, WorkOf
  <2>2. PathOf(r) \in Paths /\ PathOf(r) \in CipherTexts
    BY <1>4, PathType DEF VaultStore
  <2>3. CASE /\ stored' = stored \union {PathOf(r)} /\ NoFault
             /\ GoTo(r, "sign", [cur[r] EXCEPT !.cipherText = PathOf(r)])
    <3>1. [cur[r] EXCEPT !.cipherText = PathOf(r)]
            \in [checked : BOOLEAN, cipherText : CipherTexts, clearText : Texts]
      BY <2>1, <2>2, LocalsType
    <3>2. ServiceInv'
      BY <2>1, <2>3, <3>1, GoToKeeps DEF Steps
    <3>3. BackendTyped'
      BY <2>2, <2>3 DEF NoFault, BackendTyped, fileVars
    <3> QED
      BY <3>2, <3>3
  <2>4. CASE VaultFails(r, {Call("put", PathOf(r), r)})
    <3>1. {Call("put", PathOf(r), r)} \in SUBSET LateCalls
      BY <2>2, CallType
    <3> QED
      BY <2>1, <2>4, <3>1, VaultFailsKeeps
  <2> QED
    BY <1>4, <2>3, <2>4 DEF VaultStore
<1>5. CASE VaultSign(r)
  <2>1. pc[r] = "sign" /\ pc[r] \in Steps /\ Item(r).backend = "vault"
    BY <1>5 DEF VaultSign, At, Steps
  <2>2. Seal("vault", Item(r).keyName, cur[r].clearText, Nonce(r)) \in Seals
    BY <2>1, ItemType, LocalsType DEF Materials, Backends
  <2>3. ServiceInv'
    BY <1>5, <2>1, <2>2, SealItemKeeps DEF VaultSign
  <2> QED
    BY <1>1, <1>5, <2>3 DEF VaultSign
<1>6. CASE VaultFetch(r)
  <2>1. /\ pc[r] = "fetch" /\ pc[r] \in Steps /\ input[r].op = "rewrap"
        /\ Acceptable(Item(r)) /\ pos[r] < Len(input[r].items)
    BY <1>6 DEF VaultFetch, At, Steps, ServiceInv, Work, WorkOf
  <2> DEFINE sent == Item(r).cipherText
             locals == [cur[r] EXCEPT !.cipherText = IF Storing THEN Raw(sent.ct) ELSE sent]
  <2>2. sent \in CipherTexts /\ Raw(sent.ct) \in CipherTexts
    BY <2>1, ItemType DEF EncryptedSecrets, CipherTexts, Raw
  <2>3. locals \in [checked : BOOLEAN, cipherText : CipherTexts, clearText : Texts]
    BY <2>1, <2>2, LocalsType
  <2>4. Abort(r) \/ GoTo(r, "decrypt", locals)
    BY <1>6 DEF VaultFetch
  <2> HIDE DEF locals
  <2>5. ServiceInv'
    BY <2>1, <2>3, <2>4, AbortKeeps, GoToKeeps DEF Steps
  <2> QED
    BY <1>1, <1>6, <2>5 DEF VaultFetch
<1>7. CASE VaultDecrypt(r)
  <2>1. /\ pc[r] = "decrypt" /\ pc[r] \in Steps /\ input[r].op = "rewrap"
        /\ Acceptable(Item(r)) /\ pos[r] < Len(input[r].items)
    BY <1>7 DEF VaultDecrypt, At, Steps, ServiceInv, Work, WorkOf
  <2> DEFINE locals == [cur[r] EXCEPT !.clearText = cur[r].cipherText.ct.text]
  <2>2. locals \in [checked : BOOLEAN, cipherText : CipherTexts, clearText : Texts]
    BY <2>1, LocalsType DEF CipherTexts, Seals
  <2>3. Abort(r) \/ GoTo(r, "verify", locals)
    BY <1>7 DEF VaultDecrypt
  <2> HIDE DEF locals
  <2>4. ServiceInv'
    BY <2>1, <2>2, <2>3, AbortKeeps, GoToKeeps DEF Steps
  <2> QED
    BY <1>1, <1>7, <2>4 DEF VaultDecrypt
<1>8. CASE VaultVerify(r)
  <2>1. pc[r] = "verify" /\ pc[r] \in Steps
    BY <1>8 DEF VaultVerify, At, Steps
  <2>2. cur[r].clearText \in Texts
    BY <2>1, LocalsType
  <2>3. Abort(r) \/ WrapItem(r, cur[r].clearText)
    BY <1>8 DEF VaultVerify
  <2>4. ServiceInv'
    BY <2>1, <2>2, <2>3, AbortKeeps, WrapItemKeeps
  <2> QED
    BY <1>1, <1>8, <2>4 DEF VaultVerify
<1>9. CASE VaultDelete(r)
  <2>1. pc[r] = "delete" /\ pc[r] \in Steps /\ input[r].op = "purge"
    BY <1>9 DEF VaultDelete, At, Steps, ServiceInv, Work, WorkOf
  <2>2. << >> \in Seq(EncryptedSecrets \union Envelopes)
    BY EmptySeq
  <2>3. CASE FinishItem(r, << >>) /\ NoFault /\ stored' \in SUBSET stored
    <3>1. ServiceInv'
      BY <2>1, <2>2, <2>3, FinishItemKeeps
    <3>2. BackendTyped'
      BY <2>3 DEF NoFault, BackendTyped, fileVars
    <3> QED
      BY <3>1, <3>2
  <2>4. CASE Abort(r) /\ NoFault /\ UNCHANGED stored
    BY <1>1, <2>1, <2>4, AbortKeeps
  <2>5. CASE /\ InStorageDir(Item(r).cipherText)
             /\ VaultFails(r, {Call("delete", Item(r).cipherText, r)})
    <3>1. {Call("delete", Item(r).cipherText, r)} \in SUBSET LateCalls
      BY <1>9, <2>5, UnderwayType DEF VaultDelete, Underway
    <3> QED
      BY <2>1, <2>5, <3>1, VaultFailsKeeps
  <2> QED
    BY <1>9, <2>3, <2>4, <2>5 DEF VaultDelete
<1> QED
  BY <1>2, <1>3, <1>4, <1>5, <1>6, <1>7, <1>8, <1>9, <1>10, <1>11 DEF VaultRequestStep

LEMMA LocalStepKeeps ==
    ASSUME NEW r \in Requests, ServiceInv, NEW files \in [KeyNames -> KeyFiles],
           keyFile = files, LocalRequestStep(r), UNCHANGED processVars
    PROVE  ServiceInv'
<1> DEFINE Locals == [checked : BOOLEAN, cipherText : CipherTexts, clearText : Texts]
<1>1. CASE CheckKeyFile(r)
  <2>1. /\ pc[r] \in KeySteps /\ pc[r] \in Steps
        /\ Acceptable(Item(r)) /\ pos[r] < Len(input[r].items)
        /\ pc[r] \in {"encrypt", "store", "sign"} => input[r].op = "create"
        /\ pc[r] \in {"fetch", "decrypt", "verify"} => input[r].op = "rewrap"
        /\ pc[r] # "store" /\ pc[r] # "delete"
    BY <1>1 DEF CheckKeyFile, At, KeySteps, Steps, ServiceInv, Work, WorkOf
  <2>2. [cur[r] EXCEPT !.checked = TRUE] \in Locals
    BY <2>1, LocalsType
  <2>3. Abort(r) \/ GoTo(r, pc[r], [cur[r] EXCEPT !.checked = TRUE])
    BY <1>1 DEF CheckKeyFile
  <2> QED
    BY <2>1, <2>2, <2>3, AbortKeeps, GoToKeeps
<1>2. CASE LocalEncrypt(r)
  <2>1. /\ pc[r] = "encrypt" /\ pc[r] \in Steps /\ input[r].op = "create"
        /\ Acceptable(Item(r)) /\ pos[r] < Len(input[r].items)
    BY <1>2 DEF LocalEncrypt, Loading, At, Steps, ServiceInv, Work, WorkOf
  <2> DEFINE locals == [cur[r] EXCEPT !.checked = FALSE, !.cipherText =
                Raw(Seal("localkey", FileOf(r).key, cur[r].clearText, Nonce(r)))]
  <2>2. Abort(r) \/ (FileOf(r).key \in Keys /\ GoTo(r, "sign", locals))
    BY <1>2 DEF LocalEncrypt
  <2>3. FileOf(r).key \in Keys => locals \in Locals
    BY <2>1, LocalsType DEF Materials, Backends
  <2> HIDE DEF locals
  <2> QED
    BY <2>1, <2>2, <2>3, AbortKeeps, GoToKeeps DEF Steps
<1>3. CASE LocalSign(r)
  <2>1. pc[r] = "sign" /\ pc[r] \in Steps /\ Item(r).backend = "localkey"
    BY <1>3 DEF LocalSign, Loading, At, Steps
  <2>2. FileOf(r).key \in Materials
    BY <2>1, ItemType DEF FileOf, KeyFiles, Materials
  <2>3. Seal("localkey", FileOf(r).key, cur[r].clearText, Nonce(r)) \in Seals
    BY <2>1, <2>2, LocalsType DEF Backends
  <2>4. Abort(r) \/ SealItem(r, Seal("localkey", FileOf(r).key, cur[r].clearText, Nonce(r)))
    BY <1>3 DEF LocalSign
  <2> QED
    BY <2>1, <2>3, <2>4, AbortKeeps, SealItemKeeps
<1>4. CASE LocalDecrypt(r)
  <2>1. /\ pc[r] = "decrypt" /\ pc[r] \in Steps /\ input[r].op = "rewrap"
        /\ Acceptable(Item(r)) /\ pos[r] < Len(input[r].items)
    BY <1>4 DEF LocalDecrypt, Loading, At, Steps, ServiceInv, Work, WorkOf
  <2> DEFINE locals == [cur[r] EXCEPT !.checked = FALSE,
                                      !.clearText = Item(r).cipherText.ct.text]
  <2>2. locals \in Locals
    BY <2>1, ItemType, LocalsType DEF EncryptedSecrets, CipherTexts, Seals
  <2>3. Abort(r) \/ GoTo(r, "verify", locals)
    BY <1>4 DEF LocalDecrypt
  <2> HIDE DEF locals
  <2> QED
    BY <2>1, <2>2, <2>3, AbortKeeps, GoToKeeps DEF Steps
<1>5. CASE LocalVerify(r)
  <2>1. pc[r] = "verify" /\ pc[r] \in Steps
    BY <1>5 DEF LocalVerify, Loading, At, Steps
  <2>2. cur[r].clearText \in Texts
    BY <2>1, LocalsType
  <2>3. Abort(r) \/ WrapItem(r, cur[r].clearText)
    BY <1>5 DEF LocalVerify
  <2> QED
    BY <2>1, <2>2, <2>3, AbortKeeps, WrapItemKeeps
<1>6. CASE LocalDelete(r)
  <2>1. pc[r] = "delete" /\ pc[r] \in Steps /\ input[r].op = "purge"
    BY <1>6 DEF LocalDelete, At, Steps, ServiceInv, Work, WorkOf
  <2>2. << >> \in Seq(EncryptedSecrets \union Envelopes)
    BY EmptySeq
  <2> QED
    BY <1>6, <2>1, <2>2, FinishItemKeeps DEF LocalDelete
<1> QED
  BY <1>1, <1>2, <1>3, <1>4, <1>5, <1>6 DEF LocalRequestStep

LEMMA NoneStepKeeps ==
    ASSUME NEW r \in Requests, ServiceInv, NoneRequestStep(r), UNCHANGED processVars
    PROVE  ServiceInv'
<1>1. CASE NoneSeal(r)
  <2>1. pc[r] = "encrypt" /\ pc[r] \in Steps /\ input[r].op = "create"
    BY <1>1 DEF NoneSeal, At, Steps, ServiceInv, Work, WorkOf
  <2> DEFINE seal == NoneSealOf(cur[r].clearText)
             secret == [backend |-> "none", keyName |-> Item(r).keyName,
                        cipherText |-> Raw(seal), signature |-> seal]
  <2>2. seal \in Seals /\ Raw(seal) \in CipherTexts
    BY <2>1, LocalsType, SealType DEF NoneSealOf, Backends, Materials, Nonces
  <2>3. Item(r).keyName \in Names
    BY <2>1, ItemType DEF UnencryptedSecrets
  <2>4. secret \in EncryptedSecrets
    BY <2>2, <2>3 DEF EncryptedSecrets, BackendNames, Backends
  <2>5. FinishItem(r, <<secret>>)
    BY <1>1 DEF NoneSeal
  <2> HIDE DEF secret
  <2>6. <<secret>> \in Seq(EncryptedSecrets) /\ <<secret>> \in Seq(EncryptedSecrets \union Envelopes)
    BY <2>4
  <2> QED
    BY <2>1, <2>5, <2>6, FinishItemKeeps
<1>2. CASE NoneRewrap(r)
  <2>1. pc[r] = "decrypt" /\ pc[r] \in Steps /\ input[r].op = "rewrap"
    BY <1>2 DEF NoneRewrap, At, Steps, ServiceInv, Work, WorkOf
  <2>2. Item(r).cipherText.ct.text \in Texts
    BY <2>1, ItemType DEF EncryptedSecrets, CipherTexts, Seals
  <2>3. Abort(r) \/ WrapItem(r, Item(r).cipherText.ct.text)
    BY <1>2 DEF NoneRewrap
  <2> QED
    BY <2>1, <2>2, <2>3, AbortKeeps, WrapItemKeeps
<1>3. CASE NoneDelete(r)
  <2>1. pc[r] = "delete" /\ pc[r] \in Steps /\ input[r].op = "purge"
    BY <1>3 DEF NoneDelete, At, Steps, ServiceInv, Work, WorkOf
  <2>2. << >> \in Seq(EncryptedSecrets \union Envelopes)
    BY EmptySeq
  <2> QED
    BY <1>3, <2>1, <2>2, FinishItemKeeps DEF NoneDelete
<1> QED
  BY <1>1, <1>2, <1>3 DEF NoneRequestStep

\* What no request step of the service, the local key or the none backend writes.
LEMMA DisturbedKept ==
    ASSUME NEW r \in Requests,
           HandlerStep(r) \/ LocalRequestStep(r) \/ NoneRequestStep(r)
    PROVE  UNCHANGED disturbed
BY DEF HandlerStep, RefuseItem, TakeItem, Finish, Deliver,
       LocalRequestStep, CheckKeyFile, LocalEncrypt, LocalSign, LocalDecrypt,
       LocalVerify, LocalDelete, NoneRequestStep, NoneSeal, NoneRewrap, NoneDelete

LEMMA RequestStepKeeps ==
    ASSUME NEW r \in Requests, TypeInv, RequestStep(r)
    PROVE  TypeInv'
<1>1. CASE HandlerStep(r) /\ UNCHANGED <<vaultVars, fileVars>>
  BY <1>1, HandlerStepKeeps, DisturbedKept DEF TypeInv, BackendTyped, vaultVars, fileVars
<1>2. CASE VaultRequestStep(r) /\ UNCHANGED <<processVars, fileVars>>
  BY <1>2, VaultStepKeeps
<1>3. CASE LocalRequestStep(r) /\ UNCHANGED <<processVars, vaultVars, fileVars>>
  <2>1. ServiceInv'
    BY <1>3, LocalStepKeeps DEF TypeInv, BackendTyped
  <2> QED
    BY <1>3, <2>1, DisturbedKept DEF TypeInv, BackendTyped, vaultVars, fileVars
<1>4. CASE NoneRequestStep(r) /\ UNCHANGED <<processVars, vaultVars, fileVars>>
  BY <1>4, NoneStepKeeps, DisturbedKept DEF TypeInv, BackendTyped, vaultVars, fileVars
<1> QED
  BY <1>1, <1>2, <1>3, <1>4 DEF RequestStep

LEMMA EnvironmentKeeps ==
    ASSUME TypeInv, Environment
    PROVE  TypeInv'
<1> USE DEF TypeInv
<1>1. CASE Crash /\ VaultOutlivesCrash /\ UNCHANGED fileVars
  <2>1. UNCHANGED disturbed
    BY <1>1 DEF Crash
  <2>2. Underway \subseteq LateCalls
    BY UnderwayType
  <2>3. /\ stored' = stored /\ late' \subseteq LateCalls
        /\ faults' = faults /\ repeated' = repeated
    BY <1>1, <2>2 DEF VaultOutlivesCrash, BackendTyped
  <2> QED
    BY <1>1, <2>1, <2>3, CrashKeeps DEF BackendTyped, fileVars
<1>2. CASE (\E c \in Configs : Restart(c)) /\ UNCHANGED <<vaultVars, fileVars>>
  <2>1. UNCHANGED disturbed
    BY <1>2 DEF Restart, requestVars
  <2> QED
    BY <1>2, <2>1, RestartKeeps DEF BackendTyped, vaultVars, fileVars
<1>3. CASE VaultLate /\ UNCHANGED <<serviceVars, fileVars>>
  <2>1. ServiceInv'
    BY <1>3 DEF serviceVars, processVars, requestVars, ServiceInv, ServiceTyped,
                Work, WorkOf, Item, Acceptable, Configured
  <2>2. BackendTyped'
    BY <1>3 DEF VaultLate, BackendTyped, LateCalls, serviceVars, requestVars, fileVars
  <2> QED
    BY <2>1, <2>2
<1>4. CASE /\ \E k \in KeyNames, file \in KeyFiles : ReplaceKeyFile(k, file)
           /\ UNCHANGED <<processVars, input, pc, pos, cur, out, reply, vaultVars>>
  <2>1. ServiceInv'
    BY <1>4 DEF processVars, ServiceInv, ServiceTyped, Work, WorkOf, Item, Acceptable, Configured
  <2>2. BackendTyped'
    BY <1>4, FileAssumption DEF ReplaceKeyFile, Using, BackendTyped, vaultVars
  <2> QED
    BY <2>1, <2>2
<1> QED
  BY <1>1, <1>2, <1>3, <1>4 DEF Environment

LEMMA InitTypeInv ==
    ASSUME Init
    PROVE  TypeInv
<1> USE DEF Init, InitService, InitVault, InitFiles
<1>1. ServiceTyped
  BY BlankType, EmptySeq, ServiceAssumption, DataAssumption
     DEF ServiceTyped, Places, NoInput
<1>2. Work
  BY DEF Work, WorkOf, Steps, NoInput
<1>3. BackendTyped
  BY VaultAssumption, FileAssumption DEF BackendTyped, KeyFiles
<1> QED
  BY <1>1, <1>2, <1>3 DEF TypeInv, ServiceInv

LEMMA NextTypeInv ==
    ASSUME TypeInv, [Next]_vars
    PROVE  TypeInv'
<1>1. CASE \E r \in Requests : Arrival(r)
  <2>1. PICK r \in Requests : Arrival(r)
    BY <1>1
  <2>2. UNCHANGED disturbed
    BY <2>1 DEF Arrival, CreateSecret, RewrapSecret, DeleteSecret, Receive, RejectBody
  <2> QED
    BY <2>1, <2>2, ArrivalKeeps DEF Arrival, TypeInv, BackendTyped, vaultVars, fileVars
<1>2. CASE \E r \in Requests : RequestStep(r)
  BY <1>2, RequestStepKeeps
<1>3. CASE Environment
  BY <1>3, EnvironmentKeeps
<1>4. CASE UNCHANGED vars
  BY <1>4 DEF vars, serviceVars, processVars, requestVars, vaultVars, fileVars, TypeInv,
              ServiceInv, ServiceTyped, Work, WorkOf, Item, Acceptable, Configured, BackendTyped
<1> QED
  BY <1>1, <1>2, <1>3, <1>4 DEF Next, Quiet

\* The inductive invariant holds: besides being well typed, every request is at a
\* step that fits what it asked for and in hand of an item its backend accepts.
THEOREM TypeInvariance == Spec => []TypeInv
<1>1. Init => TypeInv
  BY InitTypeInv
<1>2. TypeInv /\ [Next]_vars => TypeInv'
  BY NextTypeInv
<1> QED
  BY <1>1, <1>2, PTL DEF Spec

\* The service, its requests and its backends stay within their types and bounds,
\* for any number of requests, items, faults, restarts and configurations.
THEOREM TypeCorrect == Spec => []TypeOK
<1>1. TypeInv => TypeOK
  BY DEF TypeInv, ServiceInv, ServiceTyped, BackendTyped, TypeOK
<1> QED
  BY <1>1, TypeInvariance, PTL
=============================================================================

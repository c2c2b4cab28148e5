--------------------------- MODULE SecretRequests ---------------------------
(***************************************************************************)
(* The service process and the requests it works on, up to the point where *)
(* a request enters a backend.  net/http runs every request in a goroutine *)
(* of its own; pc[r] is where the goroutine of request r stands:           *)
(*                                                                         *)
(*   "idle"     not received yet      "next"    between two items          *)
(*   "encrypt", "store", "sign"                 sealing an item            *)
(*   "fetch", "decrypt", "verify"               rewrapping an item         *)
(*   "delete"                                   purging an item            *)
(*   "answer"   the reply is decided  "delivered", "lost"  it is over      *)
(*                                                                         *)
(* Each backend module adds its own state and the steps it takes for a     *)
(* request; SecretDelivery puts them together.                             *)
(***************************************************************************)
EXTENDS SecretData, SequencesExt

CONSTANTS
    Configs,         \* the configurations an administrator starts with
    CreateItems,     \* the items clients ask to create (Null included or not)
    Mispairings,     \* whether clients send signatures with other secrets
    MaxRestarts      \* bound: crashes followed by a restart

VARIABLES
    up,              \* whether the service process runs
    config,          \* the configuration it runs with
    restarts,        \* how often it was restarted
    input,           \* the decoded request
    pc,              \* where its goroutine stands
    pos,             \* the number of its items that are done
    cur,             \* its local variables while it works on an item
    out,             \* the items of the response built so far
    reply,           \* its status code, 0 while undecided
    disturbed        \* history: the requests that met a failed Vault call, or
                     \* whose key file was replaced while they worked on it

processVars == <<up, config, restarts>>
requestVars == <<input, pc, pos, cur, out, reply, disturbed>>
serviceVars == <<processVars, requestVars>>

ASSUME ServiceAssumption ==
    /\ Configs \subseteq AllConfigs
    /\ CreateItems \subseteq UnencryptedSecrets \union {Null}
    /\ Mispairings \in BOOLEAN
    /\ MaxRestarts \in Nat

Steps == {"encrypt", "store", "sign", "fetch", "decrypt", "verify", "delete"}
Finished == {"delivered", "lost"}
Places == Steps \union Finished \union {"idle", "next", "answer"}

\* checked: the key file passed its inspection and has not been read yet.
NoSeal == Seal("none", NoKey, EmptyText, NoNonce)
Blank == [checked |-> FALSE, cipherText |-> Raw(NoSeal), clearText |-> EmptyText]

-----------------------------------------------------------------------------
Item(r) == input[r].items[pos[r] + 1]

\* The nonce an item of request r draws.
Nonce(r) == <<r, pos[r] + 1>>

\* Request r is at the given step of an item of the given backend.
At(r, step, backend) ==
    /\ up
    /\ pc[r] = step
    /\ Item(r).backend = backend

\* What clients hold: the secrets in the create responses that reached them.
Held ==
    UNION {ToSet(out[r]) : r \in {s \in Requests :
        pc[s] = "delivered" /\ input[s].op = "create" /\ reply[s] = 200}}

\* A client sends what it holds, or (Mispairings) one secret's signature or
\* key name with another secret, or a null.
ClientItems ==
    IF Mispairings
    THEN {Null} \union
         {[s EXCEPT !.signature = t.signature] : s \in Held, t \in Held} \union
         {[s EXCEPT !.keyName = k] : s \in Held, k \in KeyNames}
    ELSE Held

-----------------------------------------------------------------------------
(* How a step of a request ends. *)

\* The handler goes on to another step of the item.
GoTo(r, step, vars) ==
    /\ pc' = [pc EXCEPT ![r] = step]
    /\ cur' = [cur EXCEPT ![r] = vars]
    /\ UNCHANGED <<input, pos, out, reply>>

\* The item is done; its result joins the response (a purge has none).
FinishItem(r, result) ==
    /\ out' = [out EXCEPT ![r] = @ \o result]
    /\ pos' = [pos EXCEPT ![r] = @ + 1]
    /\ pc' = [pc EXCEPT ![r] = "next"]
    /\ cur' = [cur EXCEPT ![r] = Blank]
    /\ UNCHANGED <<input, reply>>

\* Any error ends the request: the response built so far is dropped and the
\* client gets 400.  What earlier items did is not undone.
Abort(r) ==
    /\ reply' = [reply EXCEPT ![r] = 400]
    /\ out' = [out EXCEPT ![r] = << >>]
    /\ pc' = [pc EXCEPT ![r] = "answer"]
    /\ cur' = [cur EXCEPT ![r] = Blank]
    /\ UNCHANGED <<input, pos>>

\* The end of seal: the secret with its ciphertext (or path) and signature.
SealItem(r, signature) ==
    FinishItem(r, <<[backend |-> Item(r).backend, keyName |-> Item(r).keyName,
                     cipherText |-> cur[r].cipherText, signature |-> signature]>>)

\* PublicKeyFromString: a PEM block with an RSA key of at least 2048 bits.
ParsesAsPublicKey(key) == key \in RewrapKeys

\* createMessageEnvelope: the client's RSA key is parsed only now, after the
\* secret was decrypted and its signature verified.
WrapItem(r, text) ==
    IF ParsesAsPublicKey(input[r].rewrapKey)
    THEN FinishItem(r, <<[to |-> input[r].rewrapKey, tmp |-> r, text |-> text]>>)
    ELSE Abort(r)

-----------------------------------------------------------------------------
(* The service's own steps. *)

InitService ==
    /\ up = TRUE /\ config \in Configs /\ restarts = 0
    /\ input = [r \in Requests |-> NoInput]
    /\ pc = [r \in Requests |-> "idle"]
    /\ pos = [r \in Requests |-> 0]
    /\ cur = [r \in Requests |-> Blank]
    /\ out = [r \in Requests |-> << >>]
    /\ reply = [r \in Requests |-> 0]
    /\ disturbed = {}

\* A request arrives and its body is decoded.
Receive(r, in) ==
    /\ up /\ pc[r] = "idle"
    /\ input' = [input EXCEPT ![r] = in]
    /\ pc' = [pc EXCEPT ![r] = "next"]
    /\ UNCHANGED <<processVars, pos, cur, out, reply, disturbed>>

CreateSecret(r) ==
    \E list \in BoundedSeq(CreateItems, MaxItems) :
        Receive(r, [op |-> "create", items |-> list, rewrapKey |-> BadRewrapKey])

RewrapSecret(r) ==
    \E list \in BoundedSeq(ClientItems, MaxItems),
       key \in RewrapKeys \union {BadRewrapKey} :
        Receive(r, [op |-> "rewrap", items |-> list, rewrapKey |-> key])

DeleteSecret(r) ==
    \E list \in BoundedSeq(ClientItems, MaxItems) :
        Receive(r, [op |-> "purge", items |-> list, rewrapKey |-> BadRewrapKey])

\* decodeJSONBody fails: too large, not JSON, null, or followed by more.
RejectBody(r) ==
    /\ up /\ pc[r] = "idle"
    /\ input' = [input EXCEPT ![r] = Unreadable]
    /\ pc' = [pc EXCEPT ![r] = "answer"]
    /\ reply' = [reply EXCEPT ![r] = 400]
    /\ UNCHANGED <<processVars, pos, cur, out, disturbed>>

\* validateKeyName: the none backend takes any name.
ValidKeyName(item) == item.backend = "none" \/ item.keyName # BadKeyName

\* backends.New finds the backend configured.
Configured(backend) ==
    \/ backend = "none" /\ config.none
    \/ backend = "localkey" /\ config.local
    \/ backend = "vault" /\ config.vault # "off"

Acceptable(item) ==
    /\ item # Null
    /\ ValidKeyName(item)
    /\ Configured(item.backend)

\* Mutant: an item that cannot be used is left out.
RefuseItemSkips(r) ==
    /\ up /\ pc[r] = "next" /\ pos[r] < Len(input[r].items)
    /\ ~Acceptable(Item(r))
    /\ FinishItem(r, << >>)
    /\ UNCHANGED <<processVars, disturbed>>

\* The loops of the bulk operations stop at the first item they cannot use.
RefuseItem(r) ==
    /\ up /\ pc[r] = "next" /\ pos[r] < Len(input[r].items)
    /\ ~Acceptable(Item(r))
    /\ Abort(r)
    /\ UNCHANGED <<processVars, disturbed>>

FirstStep(r) ==
    CASE input[r].op = "create" -> "encrypt"
      [] input[r].op = "rewrap" /\ Item(r).backend = "vault" -> "fetch"
      [] input[r].op = "rewrap" /\ Item(r).backend # "vault" -> "decrypt"
      [] input[r].op = "purge" -> "delete"

\* The next item enters its backend; seal has normalised the clear text.
TakeItem(r) ==
    /\ up /\ pc[r] = "next" /\ pos[r] < Len(input[r].items)
    /\ Acceptable(Item(r))
    /\ GoTo(r, FirstStep(r),
            IF input[r].op = "create"
            THEN [Blank EXCEPT !.clearText = Normalise(Item(r).clearText)]
            ELSE Blank)
    /\ UNCHANGED <<processVars, disturbed>>

\* Every item is done: 204 for a purge, 200 with the response otherwise.
Finish(r) ==
    /\ up /\ pc[r] = "next" /\ pos[r] = Len(input[r].items)
    /\ pc' = [pc EXCEPT ![r] = "answer"]
    /\ reply' = [reply EXCEPT ![r] = IF input[r].op = "purge" THEN 204 ELSE 200]
    /\ UNCHANGED <<processVars, input, pos, cur, out, disturbed>>

\* The reply reaches the client, or the write times out or the client is gone.
Deliver(r) ==
    /\ up /\ pc[r] = "answer"
    /\ \E end \in Finished : pc' = [pc EXCEPT ![r] = end]
    /\ UNCHANGED <<processVars, input, pos, cur, out, reply, disturbed>>

\* The process dies; whatever its goroutines held is gone.
Crash ==
    /\ up /\ restarts < MaxRestarts
    /\ up' = FALSE
    /\ pc' = [r \in Requests |-> IF pc[r] = "idle" THEN "idle"
                                 ELSE IF pc[r] \in Finished THEN pc[r] ELSE "lost"]
    /\ cur' = [r \in Requests |-> Blank]
    /\ UNCHANGED <<config, restarts, input, pos, out, reply, disturbed>>

\* It is started again, with the configuration its administrator gives it now.
Restart(c) ==
    /\ ~up
    /\ up' = TRUE
    /\ config' = c
    /\ restarts' = restarts + 1
    /\ UNCHANGED requestVars

HandlerStep(r) == RefuseItem(r) \/ TakeItem(r) \/ Finish(r) \/ Deliver(r)
=============================================================================

----------------------------- MODULE SecretStore -----------------------------
(***************************************************************************)
(* What the service promises its clients, with Vault's storage in view but *)
(* not how the service works: a client asks for a list of items, they are  *)
(* done one after the other, and it is told the results when all are done  *)
(* or refused as a whole.  There are no backends' steps, configurations,   *)
(* timeouts or late calls here; of Vault's failures there is left only     *)
(* that objects of creates that failed may still appear, and objects that  *)
(* purges name may still vanish.                                           *)
(***************************************************************************)
EXTENDS SecretData, SequencesExt

CONSTANT CreateItems     \* the items clients ask to create

VARIABLES
    asked,               \* what each client asked for
    state,               \* "idle", "open", "answered", "delivered" or "lost"
    done,                \* the number of its items that are done
    told,                \* their results so far, once "delivered" the client's
    reply,               \* the status code, 0 while undecided
    objects,             \* the objects in Vault's storage
    doubtful             \* the creates that may have written an object twice

requests == <<asked, state, done, told, reply>>
store == <<requests, objects, doubtful>>

Init ==
    /\ asked = [r \in Requests |-> NoInput]
    /\ state = [r \in Requests |-> "idle"]
    /\ done = [r \in Requests |-> 0]
    /\ told = [r \in Requests |-> << >>]
    /\ reply = [r \in Requests |-> 0]
    /\ objects = {} /\ doubtful = {}

-----------------------------------------------------------------------------
Item(r) == asked[r].items[done[r] + 1]

\* Request r asked for op, and has an item to do.
Doing(r, op) ==
    /\ state[r] = "open" /\ asked[r].op = op
    /\ done[r] < Len(asked[r].items)
    /\ Item(r) # Null

\* The objects the i-th item of create c may become.
ObjectsOf(c, i) ==
    LET item == asked[c].items[i]
    IN  {[dir |-> d, ct |-> Seal("vault", item.keyName, Normalise(item.clearText), <<c, i>>)] :
            d \in StorageDirs}

\* The secrets it may become: the text it gave, twice sealed by its backend.
SecretsOf(c, i) ==
    LET item == asked[c].items[i]
        n == IF item.backend = "none" THEN NoNonce ELSE <<c, i>>
        keys == IF item.backend = "vault" THEN {item.keyName} ELSE Materials
        seals == {Seal(item.backend, k, Normalise(item.clearText), n) : k \in keys}
    IN  [backend : {item.backend}, keyName : {item.keyName},
         cipherText : [dir : StorageDirs \union {NoDir}, ct : seals], signature : seals]

\* The creates whose clients know what was sealed, and what they know.
Informed ==
    {c \in Requests : state[c] = "delivered" /\ asked[c].op = "create" /\ reply[c] = 200}

Known == UNION {ToSet(told[c]) : c \in Informed}

\* Clients put the parts of what they know together as they like.
Variants(s) ==
    [backend : {s.backend}, keyName : Names,
     cipherText : {s.cipherText}, signature : {t.signature : t \in Known}]

Sendable == {Null} \union UNION {Variants(s) : s \in Known}

-----------------------------------------------------------------------------
(* The life of a request. *)

Ask(r) ==
    /\ state[r] = "idle"
    /\ state' = [state EXCEPT ![r] = "open"]
    /\ \/ \E list \in BoundedSeq(CreateItems, MaxItems) :
            asked' = [asked EXCEPT ![r] =
                [op |-> "create", items |-> list, rewrapKey |-> BadRewrapKey]]
       \/ \E op \in {"rewrap", "purge"}, list \in BoundedSeq(Sendable, MaxItems),
             key \in RewrapKeys \union {BadRewrapKey} :
            asked' = [asked EXCEPT ![r] = [op |-> op, items |-> list, rewrapKey |-> key]]
    /\ UNCHANGED <<done, told, reply, objects, doubtful>>

\* What was asked cannot be understood.
Reject(r) ==
    /\ state[r] = "idle"
    /\ state' = [state EXCEPT ![r] = "answered"]
    /\ asked' = [asked EXCEPT ![r] = Unreadable]
    /\ reply' = [reply EXCEPT ![r] = 400]
    /\ UNCHANGED <<done, told, objects, doubtful>>

\* A create writes the object of its next item.
Write(r) ==
    /\ Doing(r, "create")
    /\ \E p \in ObjectsOf(r, done[r] + 1) : objects' = objects \union {p}
    /\ UNCHANGED <<requests, doubtful>>

\* It may have written it twice.
Doubt(r) ==
    /\ Doing(r, "create")
    /\ doubtful' = doubtful \union {r}
    /\ UNCHANGED <<requests, objects>>

\* An item is done, with the given result.
Advance(r, result) ==
    /\ done' = [done EXCEPT ![r] = @ + 1]
    /\ told' = [told EXCEPT ![r] = @ \o result]
    /\ UNCHANGED <<asked, state, reply, doubtful>>

\* The next item is sealed; if the result names an object, the object is there.
Sealed(r) ==
    /\ Doing(r, "create")
    /\ \E s \in SecretsOf(r, done[r] + 1) :
        /\ s.cipherText.dir # NoDir => s.cipherText \in objects
        /\ Advance(r, <<s>>)
    /\ UNCHANGED objects

\* The next item is opened: its ciphertext and its signature hold one text.
Opened(r) ==
    /\ Doing(r, "rewrap")
    /\ asked[r].rewrapKey \in RewrapKeys
    /\ Item(r).signature.text = Item(r).cipherText.ct.text
    /\ Advance(r, <<[to |-> asked[r].rewrapKey, tmp |-> r,
                     text |-> Item(r).cipherText.ct.text]>>)
    /\ UNCHANGED objects

\* The object of the next item is gone.
Purged(r) ==
    /\ Doing(r, "purge")
    /\ objects' = objects \ {Item(r).cipherText}
    /\ Advance(r, << >>)

\* The request is refused, and nothing told.
Refuse(r) ==
    /\ state[r] = "open"
    /\ state' = [state EXCEPT ![r] = "answered"]
    /\ reply' = [reply EXCEPT ![r] = 400]
    /\ told' = [told EXCEPT ![r] = << >>]
    /\ UNCHANGED <<asked, done, objects, doubtful>>

Succeed(r) ==
    /\ state[r] = "open" /\ done[r] = Len(asked[r].items)
    /\ state' = [state EXCEPT ![r] = "answered"]
    /\ reply' = [reply EXCEPT ![r] = IF asked[r].op = "purge" THEN 204 ELSE 200]
    /\ UNCHANGED <<asked, done, told, objects, doubtful>>

\* The answer reaches the client or it does not.
Over(r) ==
    /\ state[r] = "answered"
    /\ \E end \in {"delivered", "lost"} : state' = [state EXCEPT ![r] = end]
    /\ UNCHANGED <<asked, done, told, reply, objects, doubtful>>

-----------------------------------------------------------------------------
(* What may happen to all of them. *)

\* Every request that is not over is lost.
LoseAll ==
    /\ state' = [r \in Requests |->
                    IF state[r] \in {"open", "answered"} THEN "lost" ELSE state[r]]
    /\ UNCHANGED <<asked, done, told, reply, objects, doubtful>>

\* An object of a create that failed, or is in doubt, appears.
Appear ==
    /\ \E c \in Requests :
        /\ asked[c].op = "create"
        /\ reply[c] = 400 \/ state[c] = "lost" \/ c \in doubtful
        /\ \E i \in DOMAIN asked[c].items :
            /\ asked[c].items[i] # Null
            /\ \E p \in ObjectsOf(c, i) : objects' = objects \union {p}
    /\ UNCHANGED <<requests, doubtful>>

\* An object a purge names vanishes.
Vanish ==
    /\ \E r \in Requests :
        /\ asked[r].op = "purge"
        /\ \E i \in DOMAIN asked[r].items :
            /\ asked[r].items[i] # Null
            /\ objects' = objects \ {asked[r].items[i].cipherText}
    /\ UNCHANGED <<requests, doubtful>>

Next ==
    \/ \E r \in Requests :
        \/ Ask(r) \/ Reject(r) \/ Refuse(r) \/ Succeed(r) \/ Over(r)
        \/ Write(r) \/ Doubt(r) \/ Sealed(r) \/ Opened(r) \/ Purged(r)
    \/ LoseAll \/ Appear \/ Vanish

Spec == Init /\ [][Next]_store
=============================================================================

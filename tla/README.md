# TLA+ models of the Secret Delivery API

The service seals secrets (encrypts and signs a text), rewraps sealed secrets for
the RSA public key of a client, and purges them.  Clients keep what it returns; the
service itself keeps nothing.  State lives in two places it does not control: Vault's
storage, and a directory of key files.  These modules model the requests the service
works on side by side, the two stores, and what may happen to all three: failing,
repeated and late calls, replaced key files, lost replies, crashes and restarts.  An
abstract specification says what clients are promised of all this, and the detailed one
is shown to implement it.  Two more models cover the routes by which clients discover
the service: the catalog these requests share, and the links of their answers.

## The system

| Part | Source | State it keeps | Operations |
|---|---|---|---|
| HTTP server, router | `service/server.go`, `service/router.go` | none; one goroutine per request | POST create, rewrap, purge (single and bulk), GET schemas, versions, collection |
| Request handlers | `service/handlers.go` | local variables of a request | decode the body, run the operation, answer 200, 204 or 400 |
| Secrets core | `secrets/*.go` | the response built so far | `seal`, `rewrap`, `Delete`, item by item |
| Backend registry | `backends/client.go`, `config.go` | the configuration, set once at start | `New(name)` for every item |
| Vault backend | `backends/vault/client.go` | objects in Vault's storage under `storage_dir/v1-secrets/<sha256>` | encrypt, store, sign, fetch, decrypt, verify, delete |
| Local key backend | `backends/localkey/client.go` | none; reads key files the administrator owns | load a key twice for each seal and each rewrap |
| None backend | `backends/none/client.go` | none | encode and hash |
| Cryptography | `pkg/aesutils`, `pkg/rsautils` | none | AES-GCM, HMAC, RSA-OAEP |
| Schema catalog and routes | `compat/controlplane` | one catalog shared by all requests, **written by GET requests** | build at start, populate links, marshal |
| Response writer, URL builder | `compat/controlplane/api` | none | build links, marshal answers |
| Command line | `main.go`, `command/server.go` | none | read flags, start |

How they interact: a handler calls the secrets core, which asks the registry for a
backend for every item and calls it; the Vault backend makes up to four HTTP calls
per item (token lookup, transit, storage), each of which may fail, be sent again by the
client library, or be carried out after the service has given up on it; the local key backend makes two file operations
per load.  Nothing is locked, nothing is rolled back, no request knows of another.  Every answer
carries links, built from the headers a proxy adds; clients come back by them through
the proxy and the route table, neither of which knows how they were built.

What makes each part correct:

- *secrets core*: a rewrap that succeeds returns, position by position, the text that
  was sealed, and only if ciphertext and signature were made from it under one key;
- *Vault backend*: what a client was told of is stored until a purge names it; what
  was purged is gone; no acknowledged create leaves an object nobody knows;
- *local key backend*: a replaced file never yields a wrong text, and ciphertext and
  signature of a secret are made under one key;
- *schema routes*: the links of an answer are those of the request, never what an earlier
  one left in the shared maps, and no request harms the process;
- *URL builder and router together*: a link leads back through the proxy it came by, to
  the handler it was meant for;
- *server*: every accepted request is over in the end.

## The modules

| Module | Models | Extends |
|---|---|---|
| `SecretData` | texts and their base64 encoding, symbolic ciphertexts and signatures, secrets, envelopes, requests, configurations | |
| `SecretRequests` | the process and its requests: arrival, validation, one item after another, abort, reply, crash, restart | `SecretData` |
| `VaultBackend` | Vault's storage and the Vault steps of a request | `SecretRequests` |
| `LocalKeyBackend` | the key directory and the local key steps | `SecretRequests` |
| `NoneBackend` | the none steps | `SecretRequests` |
| `SecretDelivery` | the composition: `Next`, fairness, the properties, and the refinement mapping to `SecretStore` | the three backends |
| `SecretStore` | the abstract specification: what clients are promised, and what stays in Vault | `SecretData` |
| `SchemaCatalog` | the schema routes and the maps they share | |
| `ApiLinks` | proxies, the order of the routes, the URLs of an answer, and a client that follows them | |
| `SecretDeliveryProofs` | theorems about the types of `SecretDelivery` | `SecretDelivery` |
| `StorageProofs` | theorems about what it keeps in Vault | `SecretDeliveryProofs` |
| `ItemProofs` | theorems about what it seals and opens | `StorageProofs` |
| `RewrapProofs` | why it refuses a rewrap | `ItemProofs` |
| `CauseProofs` | that each violation of `SecretDelivery` has one cause | `RewrapProofs` |
| `RefinementProofs` | that it implements `SecretStore` | `ItemProofs` |
| `SchemaCatalogProofs` | theorems about `SchemaCatalog` | `SchemaCatalog` |
| `ApiLinksProofs` | theorems about `ApiLinks`, behind every proxy of a class | `ApiLinks` |
| `MCSecretDelivery`, `MCSchemaCatalog`, `MCApiLinks` | instances for TLC | |

### Requests

`pc[r]` is where the goroutine of request `r` stands, `pos[r]` the number of its items
that are done, `cur[r]` the local variables of `seal` or `rewrap` for the item in hand,
`out[r]` the `Data` of the response, `reply[r]` the status code.  A request for a single
secret is a list of one item, as the single and bulk handlers do the same to an item:

    idle --Receive--> next --TakeItem--> encrypt -> [store ->] sign  -+
                       ^ |               fetch -> decrypt -> verify   |  FinishItem
                       | |               delete                      -+-> next
                       | +--Finish--> answer --Deliver--> delivered / lost
                       any error: Abort --> answer with 400

`TakeItem` and `RefuseItem` are the checks each item meets first (null, key name, backend
configured), in the loop of `bulk.go`; `Abort` is every `return err` on the way: the
response is dropped, what earlier items did is not undone.  A step of a request ends
where the code reads or writes something another actor can change: the storage, or a key
file.  Calls that read nothing shared (token lookup, transit encrypt, decrypt, hmac,
verify) are part of the step they serve; that they may fail is `VaultCallFails`, at
every step of a Vault item.

The nonce of a sealed text is `<<request, item>>`: AES-GCM, Vault's transit engine and
both signatures draw one, so no two sealed texts are equal, and properties can say which
request and item a text came from.

### Vault

`stored` is the set of paths that exist.  A storage path is a record of the directory
and the ciphertext it is named after: SHA-256 has no collisions here.  A write
or delete that fails may still be under way (the client's timeout is 30 seconds,
Vault's is not); `late` holds those calls, each attempt by itself, and `VaultLate` carries
them out one by one at any later moment, or never.  A call under way when the process dies may be carried out, too
(`VaultOutlivesCrash`).  A delete of an object that is not there succeeds, as in Vault.

The client library repeats a call that Vault answered with a server error
(`api.DefaultConfig`, `vault/client.go:229`).  To the request that is nothing: it still
waits at the same step.  But the attempt that failed may have been accepted, so
`VaultRepeatStore` and `VaultRepeatDelete` put the call into `late` and leave the request
where it is.  `repeated` is a history variable: the creates whose writes were repeated,
which properties of acknowledged purges must except.

### Key files

A load is `CheckKeyFile` (Lstat, type, permissions) and then the read, which sees
whatever the name leads to by then.  `ReplaceKeyFile` lets the administrator put another
content, a key of a wrong length, an unsafe file or nothing in its place between any two
file operations.  `disturbed` remembers the requests this happened to.

### What clients are promised

`SecretStore` has no backends, steps, configurations, timeouts or late calls.  A client
asks for a list of items; they are done one after the other (`Sealed`, `Opened`,
`Purged`); the request succeeds when all are, or is refused as a whole and tells nothing.
It promises that a secret which names an object is only told when the object is there,
that opening one gives the text in its ciphertext and only if the signature was made from
the same text, and that a purge which has passed an item has removed its object.  What it
does not promise is stated too: objects may appear late, but only of creates that failed
or were repeated (`Appear`), and vanish early, but only if a purge names them (`Vanish`).

The refinement mapping (`Promised` in `SecretDelivery`) takes the list, the position and
the results of a request as they are, `pc` to one of five states, and `stored` to
`objects`.  The steps of the key files, fetches and verifications map to stutters; the
crash maps to `LoseAll`.  `KeepsPromises` is the refinement.

### Schema routes

`links` is the entry `"collection"` of the `Links` map of each schema.  A request walks
its schemas twice or three times: `populateSchema` writes, then every schema is
marshalled, then, for the whole catalog, the collection is marshalled again as a whole.
Every access of a map has a beginning and an end, and nothing locks them out from one
another.  When a write overlaps another access of the same map the Go runtime may notice
and end the process (`alive`).  When it does not, nothing is said of what the race does,
so every outcome is in the model:

- a read that overlaps a write (`window` is `"spoilt"`) delivers the link of any request,
  none, or one nobody built (`Garbled`: a Go string is two words, stored one by one), or
  panics, upon which `net/http` drops the connection (`Panic`);
- two writes at once may damage the map itself (`torn`): from then on every access of it
  may end the process, and every read of it be like one that overlaps a write.

So nothing can be promised of a map while requests race on it.  What the properties say is
what is left: `NoStaleLinks` of the maps no write has overlapped on (all but the history
variable `crossed`), with any number of requests under way, and `AloneAnswersOwnLinks` of
requests no other one ran beside (`met`), whatever came before them, short of a torn map.

### Links and proxies

A path in `ApiLinks` is a sequence of segments; a URL has a scheme, a host with a port, a
path and a query.  `setup` is how the service may be reached: the front address, the
rules by which the proxy puts one prefix in the place of another, and the headers it
sends.  `links` is what the client learned from its last answer.  One step is one
exchange: the client picks a link, the proxy rewrites it (`Received`), the first route
that fits picks the handler (`HandlerOf`), and the answer has the links the handler and
the writer put in (`RequestUrl`, `ResponseUrlBase`, `Url`).  The links of one schema come
from the same request here: what happens when requests share the catalog is the subject
of `SchemaCatalog`.  An error answer has only its link to itself: `HandleError` writes the
status first, and a header set after it (`X-API-Schemas`) is dropped.

Some links are promised nothing, as they lead nowhere in the code: the version's link to
itself and the collections no route serves.  A proxy that takes a prefix away must send
`X-API-request-url`: the other headers do not carry the prefix, and links without it do
not come back.  `Transparent` is the class of proxies that links do come back through:

- the proxy sends the URL that was asked for, and `Keeping` (passes paths on, all of them
  or those under one segment), `Stripping` (takes prefixes off, none of which begins
  another one) or `Renaming` (puts `v1-secrets` in the place of one prefix without that
  segment, and passes on the rest) says what it does to paths; or
- it sends no URL, is `Keeping`, and `Truthful`: what its headers say of scheme, host and
  port is what clients use.

All set-ups of `api_links` are `Transparent` (`SetupsAreTransparent`, evaluated by TLC),
and the one of `forwarded_port` is not.

## What is checked

All runs are complete; the bounds are in the `.cfg` files.

| Run | Bounds | Properties | Shows |
|---|---|---|---|
| `vault_race` | 3 requests of 1 item, 2 faults or repeats, 2 restarts, two configurations | `TypeOK`, `AckedObjectsAreHeld`, `HeldIsStored` | create, rewrap and purge race on the storage with late and repeated calls, and the token loses its storage directory and gets it back |
| `vault_bulk` | 2 requests of up to 2 items, 2 key names, 3 texts, mixed-up signatures and key names, 1 fault or repeat, 1 restart | `RewrapReturnsWhatWasSealed`, `PurgedIsGone`, `SealedAsAsked`, `HeldIsRewrappable`, `KeepsPromises` | partial failure, pairing of ciphertext and signature; the service implements `SecretStore` |
| `mixed_backends` | 2 requests of up to 2 items, 4 kinds of backend, 2 key contents, 1 replacement, 1 fault | `RewrapReturnsWhatWasSealed`, `SealedAsAsked`, `HeldIsRewrappable` | bulk requests over all the backends of one process, with a key file replaced at any moment; or a process with nothing but a token |
| `answered` | 2 requests of 1 item, everything else on | `Answered` | every accepted request ends |
| `api_links` | direct and 6 proxies, 6 entry paths with and without a query, every link | `LinksComeBack`, `LinksLeadWhereTheySay` | clients get everywhere by links |
| `schemas` | 3 requests, 2 schemas, 2 hosts | `TypeOK`, `NoStaleLinks`, `AloneAnswersOwnLinks` | answers from shared maps, under interleaved accesses and races with any outcome |

Six more runs show a disagreement between the code and what its documentation, comments
or tests say; each ends in a counterexample:

| Run | Property violated | What happens |
|---|---|---|
| `restart_without_storage` | `PurgedIsGone` | a secret is created in `storage_dir`, the process is restarted with a token that carries none, a purge deletes nothing and is answered 204 |
| `rotate_mid_create` | `CreatedIsRewrappable` | the key file changes between encrypting and signing; the client gets 200 and a secret that no key can rewrap |
| `repeated_write` | `AckedPurgeIsFinal` | a write is repeated by the client library; its first attempt is carried out after the purge was answered 204 |
| `lookalike` | `RewrapDecodesToTextGiven` | a plain text that is valid base64 is not encoded before it is sealed |
| `forwarded_port` | `ForwardedPortIsUsed` | a forwarded port 443 does not take the place of the port in the host |
| `schemas_fatal` | `NeverFatal` | two schema requests write one Go map at once; for the same reason an answer may carry links of another request's host, or anything a race leaves in a string |

Why the bounds are enough: a hazard of the storage needs a creator and two requests that
use what it made (a purge racing a rewrap or another purge), hence three requests; a
partial failure needs two items, one that was done and one that fails; a mix-up needs
two secrets, which one bulk create makes.  One fault is enough to fail or repeat any one
call; two let both a write and a later delete be late.  One replacement is enough to make
any two loads of a key file differ.  Two restarts take a configuration away and bring it
back.  The schema routes need two requests to clash and a third that comes after them
or runs beside only one, and two schemas, one with a link and one without, so that a loop
has a step to make after the map two requests met in.  The links need one proxy of each
kind the URL builder tells apart: none, the whole URL told (a prefix removed, a prefix
that is the version's own name, a prefix replaced by it), and the forwarded headers with
the port in the one, the other, or neither; the run follows links until nothing new turns
up.  The theorems below hold without any of these bounds.  `Words` is all strings in the
runs of `ApiLinks`: it only bounds the types.

*Properties of pairs of states.*  `AckedObjectsAreHeld` and `HeldIsStored` tie the
storage to what clients were answered; `PurgedIsGone` ties it to how far each purge got;
`RewrapReturnsWhatWasSealed` and `SealedAsAsked` tie an answer to the request of another
client that created the secret; `KeepsPromises` ties every step to one of the promises.
`LinksLeadWhereTheySay` ties the URL builder to the order of the routes, which are in
different packages.  `HeldIsRewrappable` is the converse of the refusals: a
400 always has a reason that the client, a purge or the administrator gave.

*Fairness.*  `FairSpec` of `SecretDelivery` is weakly fair to the steps of each request:
the Go scheduler runs every goroutine that can run, every Vault call ends within its
timeout (`vault/client.go:20`), and a reply is written or its write times out
(`server.go:11`); the library repeats a call a bounded number of times, which is
`MaxFaults` here.  Nothing is assumed of arrivals, late calls, administrators, crashes
or restarts.  `SchemaCatalog` and `ApiLinks` state safety only and assume no fairness.

Deadlock is checked everywhere; `Quiet` is the only way to stop.

## What is proved

The proofs hold for every value of the constants that satisfies the named assumptions
(`DataAssumption`, `ServiceAssumption`, `VaultAssumption`, `FileAssumption`,
`CatalogAssumption`, `SetupAssumption`, `EntriesAssumption`, `WordsAssumption`), which TLC
evaluates on the runs of their modules.

`SecretDeliveryProofs`
: `TypeCorrect` (`Spec => []TypeOK`).  `TypeOK` is not inductive: that a path the service
  writes to is a path needs that a request at `store` has a storage directory
  configured, that its item is one its backend accepts, and that no restart changes the
  configuration under it.  `TypeInv` adds this as `WorkOf`: the step a request is at fits
  its operation, `pos` has not passed the end of its list, the item in hand is
  acceptable, and a create's response holds encrypted secrets only.  The proof has a
  lemma per way a step can end (`AbortKeeps`, `GoToKeeps`, `FinishItemKeeps`, ...) and
  per backend.

`StorageProofs`
: `AckedHeld` (`Spec => []AckedObjectsAreHeld`) and `HeldStays` (`Spec => []HeldIsStored`)
  without further assumptions, and `PurgedStaysGone` (`Spec => []PurgedIsGone`) under
  `AlwaysStoring`: no configuration has a token without a storage directory (the run
  `restart_without_storage` shows that it fails otherwise).  The properties speak of
  finished requests and of the storage; `StorageInv` follows an object from the write to
  the response: its nonce names the request and the item it was made for, and that request
  has listed it there, or has it in hand at `sign`, or has failed.  A late write belongs to
  a failed request or to one whose write was repeated, and a late delete to a purge that
  names the path, so neither can make an object whose creator was told 200 and did not
  list it, nor remove one no purge names.  `PurgedIsGone` adds `PurgeInv`: a purge names
  nothing but what was delivered, and a create that was delivered writes no more, so what
  its purge removed has nobody left to bring it back, unless its write was repeated.  The
  proof sorts the steps of a request into seven kinds by what they do to the storage
  (`Effect`) and shows the invariant once per kind rather than once per action.

`ItemProofs`
: `HeldAsAsked` (`Spec => []SealedAsAsked`) and `RewrapsAreTrue`
  (`Spec => []RewrapReturnsWhatWasSealed`).  A rewrap does not look at the create; that
  its answer is the text that was sealed follows from what the client sent being genuine.
  `ItemInv` says so of every request: the local variables fit the step it is at (`Fits`),
  each result in its response is sealed or opened from the item in the same place, and
  each nonce in what it was sent names an item with that text (`Genuine`).  The nonces
  make the last part survive mixed-up signatures, and `disturbed` makes `SealedAsAsked`
  survive a key file replaced between its two loads.

`RewrapProofs`
: `HeldCanBeRewrapped` (`Spec => []HeldIsRewrappable`).  Every refusal needs a reason, so
  each way to abort is traced back: to the item (`Blocked`), to a failure (`disturbed`),
  or to nothing that can happen.  `RewrapInv` has what this takes: secrets fit the
  configuration and key files they were made under (`Fresh`), what a rewrap was sent is
  held by a client but for a name or a signature, and key files are safe until one is
  replaced.  That a path leads to an object is `HeldIsStored`, proved before.

`RefinementProofs`
: `PromisesAreKept` (under `AlwaysStoring`, `Spec => KeepsPromises`): the initial states
  are initial in `SecretStore`, and every step is one of its steps or a stutter.  There is
  a lemma for each kind of step of `StorageProofs`, which needs to know what a step does
  to the storage, and of `ItemProofs`, to know what it tells; a late call is `Appear` or
  `Vanish` by `StorageInv` and `WritesInv`, which says that whatever is written late is
  one of the objects an item of its creator may become.  Without `AlwaysStoring` the
  refinement fails as `PurgedIsGone` does.

`CauseProofs`
: three of the violations, turned round: the property holds for every value of the
  constants once one thing is left out, so nothing else in the code can be the cause.
  `AckedPurgesAreFinal` (under `AlwaysStoring` and `~Repeating`,
  `Spec => []AckedPurgeIsFinal`): without repeats by the client library nothing brings
  back what an acknowledged purge removed; late writes, crashes and restarts are still
  there.  `CreatedOpens` (`Spec => [](replacements = 0 => CreatedIsRewrappable)`): until
  a key file is replaced, both parts of a local key secret are made with one key of 32
  bytes.  `TextsComeBack` (under `NoLookalikes`, `Spec => []RewrapDecodesToTextGiven`):
  only plain texts that are valid base64 come back as something else.  `CauseInv` adds
  to the earlier invariants what these need: an acknowledged purge has done its last
  item, what a local key sealed was sealed with a key that may encrypt, a failed call
  disturbs only a request that is refused, and a create holds what clients ask for.
  Without `AlwaysStoring` the first one fails even without repeats.

`SchemaCatalogProofs`
: `TypeCorrect`; `NoStaleAnswers` (`Spec => []NoStaleLinks`): in the maps whose writes
  overlapped nothing, an answer has its own link or that of a request it ran beside, for
  exactly the schemas that can be listed; and `AloneCorrect`
  (`Spec => []AloneAnswersOwnLinks`).  One inductive invariant (`Inv`) carries both: requests
  under way know of one another (`Acquainted`), a read is spoilt only by such a request
  (`Inside`), a map is torn only if some have met (`Maps`), and a link a request has
  written stays, or is overwritten by one it has met, until it has read it (`Fresh`).
  `Excused` names the maps of which nothing is said: the torn ones, and the crossed ones for
  a request that has met another.  `AloneNeverFatal`
  (`Spec => []((\A r \in Requests : met[r] = {}) => NeverFatal)`) turns the violation of
  `schemas_fatal` round: as long as no two requests have met, no access goes wrong and the
  process lives.

`ApiLinksProofs`
: `LinksAlwaysComeBack` (`Spec => []LinksComeBack`) and `LinksAlwaysLeadWhereTheySay`
  (`Spec => []LinksLeadWhereTheySay`) for every set of entries and every set of set-ups
  that are `Transparent`, with any addresses, prefixes and headers.  Both follow from
  `LinksInv`: every link the client knows is `Sound`, that is, it is at the proxy's
  address, the proxy has a rule for it and hands on a path with a first segment, and the
  first route that fits is the one the link was meant for.  `LinksInv` is inductive
  because the next answer is built from this request: the URL builder's base, the part
  of the URL that was asked for before the last occurrence of the path received, is the
  prefix the proxy took off (`BaseBeforeTheEnd`), or empty when it put another in its
  place (`NoBaseWhenRenamed`, `DoesNotOccur`); put before a path of the service it gives
  a URL the same rule applies to (`KeepingLinks`, `StrippingLinks`, `RenamingLinks`), and
  in the scheme, host and port the headers describe (`AskedAtFront`); and each link a
  handler writes has a path the route table sends to the right handler (a lemma per kind
  of link, from `SelfSound` to `ActionSound`).  "The first rule that fits" is a least
  number, which `LeastOne` finds by the well-foundedness of finite sets.
  `TruePortIsUsed` turns the violation of `forwarded_port` round: a forwarded port that
  is the port clients use is in every link.  A path is a sequence of whole segments in
  these theorems as in the runs: that a path occurs inside a segment of another one is
  not excluded by them, but by the model.

Only model-checked: liveness (`Answered`), which is out of the prover's reach, as are
fairness and ENABLED; and the six violations, each with a counterexample.
Every invariant of a passing run is a theorem, and so are the violated ones with
what causes the violation excluded.

## What is not modelled

- Formats (JSON, PEM, base64 alphabets, `nonce:signature`): a value is well formed or
  refused.  Key names with control characters, which the backends refuse after
  `validateKeyName` lets them pass, are counted among the bad names.
- The lexical rules of storage directories and paths (`normalizeStorageDir`,
  `validateStoragePath`) and of the Vault address: only their outcome is modelled.
  `ApiLinks` takes paths as segments: escapes and IPv6 hosts are left out, and a segment
  that is part of another one does not occur.
- The number of times the Vault client library repeats a call, and its waits: any number
  up to the bound, at any time.
- `VersionsHandler`, which has no route, and the difference between the 404 and the 405
  the router answers.
- Building the catalog: `AddType` finds the fields of a type by reflection before the
  server listens; no link and no state depends on them.
- The JSON of an answer, beyond the passes over the shared maps.
- The decryptor of `rsautils` and `testVaultTransitKeyExists`, which the server does not
  use; flag parsing; build scripts.

## Plan

The modules are complete for what the server does with secrets, storage and links.  What
could be added, in this order:

1. `AckedPurgeIsFinal` and `RewrapDecodesToTextGiven` as properties that hold, once the
   code is changed so that they do.
2. `StoragePaths`: `normalizeStorageDir` and `validateStoragePath` over bounded sequences
   of segments, so that `InStorageDir` need not be taken as their outcome.

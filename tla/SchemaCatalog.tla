--------------------------- MODULE SchemaCatalog ----------------------------
(***************************************************************************)
(* The schema routes.  The router builds one catalog of schemas and every  *)
(* handler shares it.  GET /schemas and GET /schemas/{id} copy the Go      *)
(* structures, but a copy shares the Links map of each schema, so each     *)
(* request writes its own URL into the shared maps and then reads them to  *)
(* marshal its answer, with no lock.  An access of a Go map is not atomic: *)
(* it has a beginning and an end here, and the store of a string, which is *)
(* two words, is inside.  When a write overlaps another access of the same *)
(* map the Go runtime may notice and end the process ("concurrent map      *)
(* writes", which no handler can recover from).  When it does not notice,  *)
(* the race has no defined result: the read delivers any link, none, or    *)
(* one nobody built, or panics, and two writes may leave the map itself    *)
(* damaged for every access that comes after them.                         *)
(***************************************************************************)
EXTENDS Integers

CONSTANTS
    Requests,            \* the requests of a behaviour
    Hosts,               \* the base URLs requests are addressed to
    NoLink,              \* a Links map without the entry "collection"
    Garbled,             \* an entry that is no URL the service built
    N,                   \* the catalog holds schemas 1..N, in this order
    Listed               \* those with GET among their collection methods

ASSUME CatalogAssumption ==
    /\ N \in Nat /\ N > 1
    /\ Listed \subseteq 1..N
    /\ {NoLink, Garbled} \intersect Hosts = {} /\ NoLink # Garbled

VARIABLES
    alive,               \* whether the process runs
    links,               \* Links["collection"] of each schema, shared
    host,                \* the base URL of each request
    phase,               \* where its goroutine stands
    range,               \* the schemas it answers with: <<first, last>>
    at,                  \* the schema it has come to
    window,              \* the map access it is inside
    seen,                \* the links in the answer it marshals
    torn,                \* the maps two writes were inside at once
    crossed,             \* history: those a write and another access were inside
    met                  \* history: the requests each one ran beside

vars == <<alive, links, host, phase, range, at, window, seen, torn, crossed, met>>

Schemas == 1..N
Active == {"populate", "marshal", "remarshal"}
Phases == Active \union {"idle", "done", "broken"}

\* A spoilt access is a read that a write overlaps.
Windows == {"none", "write", "read", "spoilt"}
Reading == {"read", "spoilt"}

\* The whole catalog, one schema of it, or no schema (an id that is unknown,
\* for which Schema returns an empty structure).
Everything == <<1, N>>
Ranges == {Everything, <<1, 0>>} \union {<<s, s>> : s \in Schemas}

TypeOK ==
    /\ alive \in BOOLEAN
    /\ links \in [Schemas -> Hosts \union {NoLink}]
    /\ host \in [Requests -> Hosts \union {NoLink}]
    /\ phase \in [Requests -> Phases]
    /\ range \in [Requests -> Ranges]
    /\ at \in [Requests -> 1..(N + 1)]
    /\ window \in [Requests -> Windows]
    /\ seen \in [Requests -> [Schemas -> Hosts \union {NoLink, Garbled}]]
    /\ torn \subseteq Schemas /\ crossed \subseteq Schemas
    /\ met \in [Requests -> SUBSET Requests]

Init ==
    /\ alive = TRUE
    /\ links = [s \in Schemas |-> NoLink]
    /\ host = [r \in Requests |-> NoLink]
    /\ phase = [r \in Requests |-> "idle"]
    /\ range = [r \in Requests |-> <<1, 0>>]
    /\ at = [r \in Requests |-> 1]
    /\ window = [r \in Requests |-> "none"]
    /\ seen = [r \in Requests |-> [s \in Schemas |-> NoLink]]
    /\ torn = {} /\ crossed = {}
    /\ met = [r \in Requests |-> {}]

-----------------------------------------------------------------------------
Running(r) == phase[r] \in Active

\* The other goroutines that are inside one of these accesses of the same map.
Beside(r, accesses) ==
    {q \in Requests \ {r} : window[q] \in accesses /\ at[q] = at[r]}

Torn(r) == at[r] \in torn

\* The runtime may end the process when something is wrong.
Survives(wrong) == alive' \in (IF wrong THEN BOOLEAN ELSE {TRUE})

\* What a read may deliver that overlaps a write, or is of a damaged map.
Anything == {host[q] : q \in Requests} \union {NoLink, Garbled}

\* Mutant: the loop runs one schema too far.
InRangeInclusive(r) == at[r] <= range[r][2] + 1

InRange(r) == at[r] <= range[r][2]

Advance(r) == at' = [at EXCEPT ![r] = @ + 1]

Arrive(r, h, asked, start) ==
    /\ alive /\ phase[r] = "idle"
    /\ host' = [host EXCEPT ![r] = h]
    /\ range' = [range EXCEPT ![r] = asked]
    /\ at' = [at EXCEPT ![r] = asked[1]]
    /\ phase' = [phase EXCEPT ![r] = start]
    /\ met' = [q \in Requests |->
                CASE q = r -> {p \in Requests : Running(p)}
                  [] q # r /\ Running(q) -> met[q] \union {r}
                  [] OTHER -> met[q]]
    /\ UNCHANGED <<alive, links, window, seen, torn, crossed>>

\* Mutant: links are not built again when every schema has one.
ReceiveCached(r, h, asked) ==
    Arrive(r, h, asked,
           IF \A s \in Listed : links[s] # NoLink THEN "marshal" ELSE "populate")

\* SchemasHandler takes the whole catalog, SchemaHandler what the id names.
Receive(r, h, asked) == Arrive(r, h, asked, "populate")

\* populateSchema leaves a schema alone that has no collection to GET.
SkipSchema(r) ==
    /\ alive /\ phase[r] = "populate" /\ InRange(r)
    /\ at[r] \notin Listed
    /\ Advance(r)
    /\ UNCHANGED <<alive, links, host, phase, range, window, seen, torn, crossed, met>>

BeginAssign(r) ==
    /\ alive /\ phase[r] = "populate" /\ InRange(r) /\ window[r] = "none"
    /\ at[r] \in Listed
    /\ LET readers == Beside(r, Reading)
           writers == Beside(r, {"write"})
       IN  /\ window' = [q \in Requests |->
                            CASE q = r -> "write"
                              [] q \in readers -> "spoilt"
                              [] OTHER -> window[q]]
           /\ torn' = IF writers = {} THEN torn ELSE torn \union {at[r]}
           /\ crossed' = IF readers \union writers = {} THEN crossed
                         ELSE crossed \union {at[r]}
           /\ Survives(readers \union writers # {} \/ Torn(r))
    /\ UNCHANGED <<links, host, phase, range, at, seen, met>>

\* Mutant: a link that is there already is kept, as setIfNot would.
EndAssignIfUnset(r) ==
    /\ alive /\ window[r] = "write"
    /\ links' = [links EXCEPT ![at[r]] = IF @ = NoLink THEN host[r] ELSE @]
    /\ window' = [window EXCEPT ![r] = "none"]
    /\ Advance(r)
    /\ Survives(Torn(r))
    /\ UNCHANGED <<host, phase, range, seen, torn, crossed, met>>

\* What a torn map holds no longer matters: a read of it delivers anything.
EndAssign(r) ==
    /\ alive /\ window[r] = "write"
    /\ links' = [links EXCEPT ![at[r]] = host[r]]
    /\ window' = [window EXCEPT ![r] = "none"]
    /\ Advance(r)
    /\ Survives(Torn(r))
    /\ UNCHANGED <<host, phase, range, seen, torn, crossed, met>>

BeginMarshal(r) ==
    /\ alive /\ phase[r] \in {"marshal", "remarshal"} /\ InRange(r)
    /\ window[r] = "none"
    /\ LET writers == Beside(r, {"write"})
       IN  /\ window' = [window EXCEPT ![r] = IF writers = {} THEN "read" ELSE "spoilt"]
           /\ crossed' = IF writers = {} THEN crossed ELSE crossed \union {at[r]}
           /\ Survives(writers # {} \/ Torn(r))
    /\ UNCHANGED <<links, host, phase, range, at, seen, torn, met>>

Spoilt(r) == window[r] = "spoilt" \/ Torn(r)

\* CollectionToMap marshals every schema for the answer, then the collection as a
\* whole, schemas included, of which it only keeps the rest.
EndMarshal(r) ==
    /\ alive /\ window[r] \in Reading
    /\ \E link \in (IF Spoilt(r) THEN Anything ELSE {links[at[r]]}) :
            seen' = IF phase[r] = "marshal" THEN [seen EXCEPT ![r][at[r]] = link] ELSE seen
    /\ window' = [window EXCEPT ![r] = "none"]
    /\ Advance(r)
    /\ Survives(Spoilt(r))
    /\ UNCHANGED <<links, host, phase, range, torn, crossed, met>>

\* The marshaller panics on what it reads: net/http drops the connection, and the
\* process goes on.
Panic(r) ==
    /\ alive /\ window[r] \in Reading /\ Spoilt(r)
    /\ phase' = [phase EXCEPT ![r] = "broken"]
    /\ window' = [window EXCEPT ![r] = "none"]
    /\ UNCHANGED <<alive, links, host, range, at, seen, torn, crossed, met>>

NextPhase(r) ==
    CASE phase[r] = "populate" -> "marshal"
      [] phase[r] = "marshal" /\ range[r] = Everything -> "remarshal"
      [] OTHER -> "done"

\* The loop over the schemas is through.
EndLoop(r) ==
    /\ alive /\ Running(r) /\ ~InRange(r)
    /\ phase' = [phase EXCEPT ![r] = NextPhase(r)]
    /\ at' = [at EXCEPT ![r] = range[r][1]]
    /\ UNCHANGED <<alive, links, host, range, window, seen, torn, crossed, met>>

HandlerStep(r) ==
    \/ SkipSchema(r)
    \/ BeginAssign(r) \/ EndAssign(r)
    \/ BeginMarshal(r) \/ EndMarshal(r) \/ Panic(r)
    \/ EndLoop(r)

\* The process is dead, or every request is over.
Quiet ==
    /\ ~alive \/ \A r \in Requests : phase[r] \in {"done", "broken"}
    /\ UNCHANGED vars

Next ==
    \/ \E r \in Requests, h \in Hosts, asked \in Ranges : Receive(r, h, asked)
    \/ \E r \in Requests : HandlerStep(r)
    \/ Quiet

Spec == Init /\ [][Next]_vars

-----------------------------------------------------------------------------
Answered(r) == phase[r] = "done"

\* The schemas of an answer that carry a collection link.
Linked(r) == {s \in Listed : range[r][1] <= s /\ s <= range[r][2]}

\* An answer has a collection link for exactly the schemas it covers that can be
\* listed, and each is built from its own URL or that of a request it ran beside:
\* what an earlier request left in the shared maps is never in it.  This is what a
\* lock around every single access would give, and holds of the maps of which every
\* write happened to have the map to itself.
NoStaleLinks ==
    \A r \in Requests : Answered(r) =>
        \A s \in Schemas \ crossed :
            IF s \in Linked(r)
            THEN \E q \in {r} \union met[r] : seen[r][s] = host[q]
            ELSE seen[r][s] = NoLink

\* A request that no other request ran beside answers with links built from its
\* own URL, whatever earlier requests left in the shared maps, unless two writes
\* at once have damaged one.
AloneAnswersOwnLinks ==
    \A r \in Requests : Answered(r) /\ met[r] = {} =>
        \A s \in Linked(r) \ torn : seen[r][s] = host[r]

\* What the race tests are run to establish: no schema request ends the process.
NeverFatal == alive
=============================================================================

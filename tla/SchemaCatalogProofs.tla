------------------------ MODULE SchemaCatalogProofs -------------------------
(***************************************************************************)
(* Theorems about SchemaCatalog, for any number of requests, hosts and     *)
(* schemas.  One inductive invariant follows a link from the write into    *)
(* the shared map to the answer, whoever wrote it.                         *)
(***************************************************************************)
EXTENDS SchemaCatalog, TLAPS

\* A request is inside a map access only where its loop makes one, and a read is
\* spoilt only by a request beside it.
Inside(r) ==
    /\ window[r] = "write" => phase[r] = "populate" /\ InRange(r) /\ at[r] \in Listed
    /\ window[r] \in Reading => phase[r] \in {"marshal", "remarshal"} /\ InRange(r)
    /\ window[r] = "spoilt" => at[r] \in crossed /\ met[r] # {}

\* Requests under way at the same time know of one another, and a request has met
\* only requests that came.
Acquainted ==
    /\ \A r, q \in Requests : Running(r) /\ Running(q) /\ r # q => q \in met[r]
    /\ \A r \in Requests : \A q \in met[r] : phase[q] # "idle"

\* Only overlapping requests damage a map, and only a schema that can be listed
\* has anything in its map.
Maps ==
    /\ torn \subseteq crossed
    /\ torn # {} => \E r \in Requests : met[r] # {}
    /\ \A s \in Schemas : links[s] # NoLink => s \in Listed

Started(r) ==
    /\ host[r] = NoLink <=> phase[r] = "idle"
    /\ range[r][1] <= at[r]
    /\ phase[r] = "idle" => met[r] = {}
    /\ phase[r] \in {"idle", "populate"} => \A s \in Schemas : seen[r][s] = NoLink

\* The link was built for the request, or for one it ran beside.
Timely(r, l) == \E q \in {r} \union met[r] : l = host[q]

\* The maps of which a request may have got anything.
Excused(r, s) == s \in torn \/ (s \in crossed /\ met[r] # {})

\* What a request has written is in the shared maps until it reads it, unless a
\* request beside it has written there since, and what it reads it answers with.
Fresh(r) ==
    /\ phase[r] = "populate" =>
        \A s \in Linked(r) : s < at[r] => Timely(r, links[s])
    /\ phase[r] = "marshal" =>
        \A s \in Linked(r) : /\ Timely(r, links[s])
                             /\ s < at[r] /\ ~Excused(r, s) => Timely(r, seen[r][s])
    /\ phase[r] \in {"remarshal", "done"} =>
        \A s \in Linked(r) : ~Excused(r, s) => Timely(r, seen[r][s])
    /\ \A s \in Schemas \ Linked(r) : ~Excused(r, s) => seen[r][s] = NoLink

TypeInv == TypeOK /\ (\A r \in Requests : Inside(r))

Inv ==
    /\ TypeInv /\ Acquainted /\ Maps
    /\ \A r \in Requests : Started(r) /\ Fresh(r)

-----------------------------------------------------------------------------
LEMMA RangeType ==
    ASSUME NEW asked \in Ranges
    PROVE  asked[1] \in 1..N /\ asked[2] \in 0..N
BY CatalogAssumption DEF Ranges, Everything, Schemas

LEMMA LinkedSchemas ==
    ASSUME NEW r \in Requests
    PROVE  Linked(r) \subseteq Schemas
BY CatalogAssumption DEF Linked, Schemas

LEMMA InitInv ==
    ASSUME Init
    PROVE  Inv
<1>1. TypeInv
  BY CatalogAssumption DEF Init, TypeInv, TypeOK, Inside, Schemas, Phases, Ranges, Windows, Reading
<1>2. Acquainted /\ Maps
  BY DEF Init, Acquainted, Maps, Running, Active
<1>3. ASSUME NEW r \in Requests PROVE Started(r) /\ Fresh(r)
  <2>1. /\ phase[r] = "idle" /\ host[r] = NoLink /\ range[r] = <<1, 0>> /\ at[r] = 1
        /\ met[r] = {} /\ \A s \in Schemas : seen[r][s] = NoLink
    BY DEF Init
  <2> QED
    BY <2>1 DEF Started, Fresh
<1> QED
  BY <1>1, <1>2, <1>3 DEF Inv

\* A step that leaves the loops where they are, and what they work on.
LEMMA FreshKept ==
    ASSUME Inv, NEW r \in Requests,
           UNCHANGED <<links, host>>,
           phase'[r] = phase[r], range'[r] = range[r], at'[r] = at[r], seen'[r] = seen[r],
           met'[r] = met[r], torn \subseteq torn', crossed \subseteq crossed'
    PROVE  Started(r)' /\ Fresh(r)'
<1>1. Started(r) /\ Fresh(r)
  BY DEF Inv
<1>2. Linked(r)' = Linked(r)
  BY DEF Linked
<1>3. \A l : Timely(r, l) => Timely(r, l)'
  BY DEF Timely
<1>4. \A s : Excused(r, s) => Excused(r, s)'
  BY DEF Excused
<1>5. Started(r)'
  BY <1>1 DEF Started
<1>6. \A s \in Schemas : links'[s] = links[s] /\ seen'[r][s] = seen[r][s]
  OBVIOUS
<1> QED
  BY <1>1, <1>2, <1>3, <1>4, <1>5, <1>6, LinkedSchemas DEF Fresh

LEMMA ReceiveKeeps ==
    ASSUME Inv, NEW r \in Requests, NEW h \in Hosts, NEW asked \in Ranges,
           Receive(r, h, asked)
    PROVE  Inv'
<1> USE DEF TypeInv, TypeOK, Receive, Arrive
<1>0. TypeInv /\ Acquainted /\ Maps /\ \A q \in Requests : Started(q) /\ Fresh(q)
  BY DEF Inv
<1>1. asked[1] \in 1..N /\ asked[2] \in 0..N /\ h # NoLink
  BY RangeType, CatalogAssumption
<1>2. \A q \in Requests :
        met'[q] = IF q = r THEN {p \in Requests : Running(p)}
                  ELSE IF Running(q) THEN met[q] \union {r} ELSE met[q]
  OBVIOUS
<1>3. ~Running(r)
  BY DEF Running, Active
<1>4. TypeInv'
  <2>1. met' \in [Requests -> SUBSET Requests]
    BY <1>0
  <2>2. TypeOK'
    BY <1>0, <1>1, <2>1, CatalogAssumption DEF Phases, Active
  <2>3. ASSUME NEW q \in Requests PROVE Inside(q)'
    <3>1. CASE q = r
      BY <1>0, <3>1 DEF Inside, InRange, Reading
    <3>2. CASE q # r
      BY <1>0, <1>2, <3>2 DEF Inside, InRange
    <3> QED
      BY <3>1, <3>2
  <2> QED
    BY <2>2, <2>3
<1>5. Acquainted'
  <2>1. \A q \in Requests \ {r} : Running(q)' <=> Running(q)
    BY <1>0 DEF Running
  <2>2. \A q \in Requests : phase'[q] # "idle" <=> (q = r \/ phase[q] # "idle")
    BY <1>0
  <2>3. \A q \in Requests : Running(q) => phase[q] # "idle"
    BY DEF Running, Active
  <2> HIDE DEF Receive, Arrive, TypeInv, TypeOK
  <2>4. ASSUME NEW p \in Requests, NEW q \in Requests, Running(p)', Running(q)', p # q
        PROVE  q \in met'[p]
    BY <1>0, <1>2, <1>3, <2>1, <2>4 DEF Acquainted
  <2>5. ASSUME NEW p \in Requests, NEW q \in met'[p] PROVE phase'[q] # "idle"
    <3>1. q = r \/ (q \in Requests /\ Running(q)) \/ q \in met[p]
      BY <1>2, <2>5
    <3>2. q \in met[p] => q \in Requests
      BY <1>0 DEF TypeInv, TypeOK
    <3> QED
      BY <1>0, <2>2, <2>3, <3>1, <3>2 DEF Acquainted
  <2> QED
    BY <2>4, <2>5 DEF Acquainted
<1>6. Maps'
  <2>1. \A q \in Requests : met[q] # {} /\ q # r => met'[q] # {}
    BY <1>2
  <2>2. met[r] = {}
    BY <1>0 DEF Started
  <2> QED
    BY <1>0, <2>1, <2>2 DEF Maps
<1>7. ASSUME NEW q \in Requests PROVE Started(q)' /\ Fresh(q)'
  <2>1. CASE q = r
    <3>1. \A s \in Schemas : seen'[r][s] = NoLink
      BY <1>0 DEF Started
    <3>2. \A s \in Linked(r)' : s \in Int /\ asked[1] <= s
      BY <1>0, CatalogAssumption DEF Linked
    <3>3. /\ phase'[r] = "populate" /\ host'[r] = h /\ range'[r] = asked
          /\ at'[r] = asked[1]
      BY <1>0
    <3> HIDE DEF TypeInv, TypeOK, Receive, Arrive
    <3> QED
      BY <1>1, <2>1, <3>1, <3>2, <3>3 DEF Started, Fresh
  <2>2. CASE q # r
    <3>1. r \notin met[q]
      BY <1>0 DEF Acquainted
    <3>2. \A l : Timely(q, l) => Timely(q, l)'
      BY <1>0, <1>2, <2>2, <3>1 DEF Timely
    <3>3. \A s : Excused(q, s) => Excused(q, s)'
      BY <1>2, <2>2 DEF Excused
    <3>4. /\ phase'[q] = phase[q] /\ range'[q] = range[q] /\ at'[q] = at[q]
          /\ seen' = seen /\ links' = links /\ host'[q] = host[q]
          /\ phase[q] = "idle" => met'[q] = met[q]
      BY <1>0, <2>2 DEF Running, Active
    <3>5. Linked(q)' = Linked(q)
      BY <3>4 DEF Linked
    <3> HIDE DEF TypeInv, TypeOK, Receive, Arrive
    <3> QED
      BY <1>0, <3>2, <3>3, <3>4, <3>5 DEF Started, Fresh
  <2> QED
    BY <2>1, <2>2
<1> QED
  BY <1>4, <1>5, <1>6, <1>7 DEF Inv

LEMMA SkipKeeps ==
    ASSUME Inv, NEW r \in Requests, SkipSchema(r)
    PROVE  Inv'
<1> USE DEF TypeInv, TypeOK, SkipSchema, Advance
<1>0. TypeInv /\ Acquainted /\ Maps /\ \A q \in Requests : Started(q) /\ Fresh(q)
  BY DEF Inv
<1>1. at[r] + 1 \in 1..(N + 1) /\ range[r][1] \in 1..N
  BY <1>0, RangeType, CatalogAssumption DEF InRange
<1>2. TypeInv'
  <2>1. TypeOK'
    BY <1>0, <1>1
  <2>2. ASSUME NEW q \in Requests PROVE Inside(q)'
    BY <1>0 DEF Inside, InRange, Reading
  <2> QED
    BY <2>1, <2>2
<1>3. Acquainted' /\ Maps'
  BY <1>0 DEF Acquainted, Maps, Running, Active
<1>4. ASSUME NEW q \in Requests PROVE Started(q)' /\ Fresh(q)'
  <2>1. CASE q = r
    <3>1. ASSUME NEW s \in Linked(r), s < at[r] + 1 PROVE s < at[r]
      <4>1. s \in Listed /\ s \in Int /\ at[r] \in Int /\ s # at[r]
        BY <1>0, CatalogAssumption DEF Linked
      <4> HIDE DEF TypeInv, TypeOK, SkipSchema, Advance
      <4> QED
        BY <3>1, <4>1
    <3>2. /\ phase[r] = "populate" /\ at'[r] = at[r] + 1 /\ at[r] \in Int
          /\ UNCHANGED <<links, host, phase, range, seen, torn, crossed, met>>
      BY <1>0
    <3> HIDE DEF TypeInv, TypeOK, SkipSchema, Advance
    <3> QED
      BY <1>0, <1>1, <2>1, <3>1, <3>2 DEF Started, Fresh, Linked, Timely, Excused
  <2>2. CASE q # r
    BY <1>0, <2>2, FreshKept
  <2> QED
    BY <2>1, <2>2
<1> QED
  BY <1>2, <1>3, <1>4 DEF Inv

LEMMA BeginAssignKeeps ==
    ASSUME Inv, NEW r \in Requests, BeginAssign(r)
    PROVE  Inv'
<1> USE DEF TypeInv, TypeOK, BeginAssign
<1>0. TypeInv /\ Acquainted /\ Maps
  BY DEF Inv
<1> DEFINE readers == Beside(r, Reading)
           writers == Beside(r, {"write"})
<1>1. /\ window' = [q \in Requests |->
            CASE q = r -> "write" [] q \in readers -> "spoilt" [] OTHER -> window[q]]
      /\ torn' = IF writers = {} THEN torn ELSE torn \union {at[r]}
      /\ crossed' = IF readers \union writers = {} THEN crossed ELSE crossed \union {at[r]}
      /\ UNCHANGED <<links, host, phase, range, at, seen, met>>
      /\ phase[r] = "populate" /\ InRange(r) /\ at[r] \in Listed /\ at[r] \in Schemas
  BY <1>0, CatalogAssumption DEF Schemas
<1>2. ASSUME NEW q \in readers \union writers
      PROVE  q \in Requests \ {r} /\ at[q] = at[r] /\ q \in met[r] /\ r \in met[q]
  <2>1. q \in Requests \ {r} /\ at[q] = at[r] /\ window[q] \in {"write", "read", "spoilt"}
    BY <1>2 DEF Beside, Reading
  <2>2. Running(q) /\ Running(r)
    BY <1>0, <1>1, <2>1 DEF Inside, Running, Active, Reading
  <2> QED
    BY <1>0, <2>1, <2>2 DEF Acquainted
<1>3. alive' \in BOOLEAN
  BY DEF Survives
<1> HIDE DEF BeginAssign
<1>4. torn \subseteq torn' /\ crossed \subseteq crossed' /\ torn' \subseteq Schemas /\ crossed' \subseteq Schemas
  BY <1>0, <1>1
<1>5. TypeInv'
  <2>1. window' \in [Requests -> Windows]
    BY <1>0, <1>1 DEF Windows
  <2>2. TypeOK'
    BY <1>0, <1>1, <1>3, <1>4, <2>1
  <2>3. ASSUME NEW q \in Requests PROVE Inside(q)'
    <3>1. CASE q = r
      <4>1. window'[q] = "write"
        BY <1>1, <3>1 DEF Beside
      <4>2. phase'[q] = "populate" /\ InRange(q)' /\ at'[q] \in Listed
        BY <1>1, <3>1 DEF InRange
      <4> QED
        BY <4>1, <4>2 DEF Inside, Reading
    <3>2. CASE q \in readers
      <4>1. window[q] \in Reading /\ q # r
        BY <3>2 DEF Beside
      <4>2. window'[q] = "spoilt"
        BY <1>1, <3>2, <4>1
      <4>3. at'[q] \in crossed' /\ met'[q] # {}
        BY <1>1, <1>2, <3>2
      <4>4. phase[q] \in {"marshal", "remarshal"} /\ InRange(q)
        BY <1>0, <4>1 DEF Inside
      <4> QED
        BY <1>1, <4>2, <4>3, <4>4 DEF Inside, InRange, Reading
    <3>3. CASE q # r /\ q \notin readers
      <4>1. window'[q] = window[q]
        BY <1>1, <3>3
      <4> QED
        BY <1>0, <1>1, <1>4, <4>1 DEF Inside, InRange
    <3> QED
      BY <3>1, <3>2, <3>3
  <2> QED
    BY <2>2, <2>3
<1>6. Acquainted'
  BY <1>0, <1>1 DEF Acquainted, Running
<1>7. Maps'
  BY <1>0, <1>1, <1>2 DEF Maps
<1>8. ASSUME NEW q \in Requests PROVE Started(q)' /\ Fresh(q)'
  BY <1>1, <1>4, FreshKept
<1> QED
  BY <1>5, <1>6, <1>7, <1>8 DEF Inv

LEMMA BeginMarshalKeeps ==
    ASSUME Inv, NEW r \in Requests, BeginMarshal(r)
    PROVE  Inv'
<1> USE DEF TypeInv, TypeOK, BeginMarshal
<1>0. TypeInv /\ Acquainted /\ Maps
  BY DEF Inv
<1> DEFINE writers == Beside(r, {"write"})
<1>1. /\ window' = [window EXCEPT ![r] = IF writers = {} THEN "read" ELSE "spoilt"]
      /\ crossed' = IF writers = {} THEN crossed ELSE crossed \union {at[r]}
      /\ UNCHANGED <<links, host, phase, range, at, seen, torn, met>>
      /\ phase[r] \in {"marshal", "remarshal"} /\ InRange(r)
  OBVIOUS
<1>2. at[r] \in Schemas
  BY <1>0, <1>1, RangeType, CatalogAssumption DEF InRange, Schemas
<1>3. writers # {} => met[r] # {}
  <2>1. ASSUME NEW q \in writers PROVE q \in met[r]
    BY <1>0, <1>1 DEF Beside, Inside, Acquainted, Running, Active
  <2> QED
    BY <2>1
<1>4. alive' \in BOOLEAN
  BY DEF Survives
<1> HIDE DEF BeginMarshal
<1>5. TypeInv'
  <2>1. TypeOK'
    BY <1>0, <1>1, <1>2, <1>4 DEF Windows
  <2>2. ASSUME NEW q \in Requests PROVE Inside(q)'
    <3>1. CASE q = r
      BY <1>0, <1>1, <1>3, <3>1 DEF Inside, InRange, Reading
    <3>2. CASE q # r
      BY <1>0, <1>1, <3>2 DEF Inside, InRange
    <3> QED
      BY <3>1, <3>2
  <2> QED
    BY <2>1, <2>2
<1>6. Acquainted' /\ Maps'
  BY <1>0, <1>1 DEF Acquainted, Running, Maps
<1>7. ASSUME NEW q \in Requests PROVE Started(q)' /\ Fresh(q)'
  BY <1>1, FreshKept
<1> QED
  BY <1>5, <1>6, <1>7 DEF Inv

\* The link is written, for whoever is under way.
LEMMA EndAssignKeeps ==
    ASSUME Inv, NEW r \in Requests, EndAssign(r)
    PROVE  Inv'
<1> USE DEF TypeInv, TypeOK, EndAssign, Advance
<1>0. TypeInv /\ Acquainted /\ Maps /\ \A q \in Requests : Started(q) /\ Fresh(q)
  BY DEF Inv
<1>1. phase[r] = "populate" /\ InRange(r) /\ at[r] \in Listed
  BY <1>0 DEF Inside
<1>2. at[r] + 1 \in 1..(N + 1) /\ at[r] \in Schemas /\ range[r][1] \in 1..N
  BY <1>0, <1>1, RangeType, CatalogAssumption DEF InRange, Schemas
<1>3. host[r] \in Hosts
  BY <1>0, <1>1 DEF Started
<1>4. /\ \A s \in Schemas : links'[s] = IF s = at[r] THEN host[r] ELSE links[s]
      /\ UNCHANGED <<host, phase, range, seen, torn, crossed, met>>
      /\ alive' \in BOOLEAN
  BY <1>0 DEF Survives
<1>5. TypeInv'
  <2>1. TypeOK'
    BY <1>0, <1>2, <1>3, <1>4 DEF Windows
  <2>2. ASSUME NEW q \in Requests PROVE Inside(q)'
    BY <1>0, <1>1 DEF Inside, InRange, Reading
  <2> QED
    BY <2>1, <2>2
<1>6. Acquainted'
  BY <1>0 DEF Acquainted, Running
<1>7. Maps'
  BY <1>0, <1>1, <1>4 DEF Maps
<1>8. ASSUME NEW q \in Requests, phase[q] \in {"populate", "marshal"},
             NEW s \in Schemas, s = at[r] \/ Timely(q, links[s])
      PROVE  Timely(q, links'[s])
  <2>1. r = q \/ r \in met[q]
    BY <1>0, <1>1, <1>8 DEF Acquainted, Running, Active
  <2> QED
    BY <1>4, <1>8, <2>1 DEF Timely
<1>9. ASSUME NEW q \in Requests PROVE Started(q)' /\ Fresh(q)'
  <2>1. Started(q) /\ Fresh(q) /\ Linked(q)' = Linked(q) /\ Linked(q) \subseteq Schemas
    BY <1>0, LinkedSchemas DEF Linked
  <2>2. /\ \A l : Timely(q, l)' <=> Timely(q, l)
        /\ \A s : Excused(q, s)' <=> Excused(q, s)
    BY DEF Timely, Excused
  <2>3. at[q] \in Int /\ at'[q] \in Int /\ at[q] <= at'[q] /\ (q # r => at'[q] = at[q])
        /\ (q = r => at'[q] = at[q] + 1)
    BY <1>0, <1>2
  <2>4. \A s \in Linked(q) : phase[q] = "populate" /\ s < at'[q] => s < at[q] \/ s = at[r]
    <3> SUFFICES ASSUME NEW s \in Linked(q), s < at'[q], ~(s < at[q])
                 PROVE  s = at[r]
      OBVIOUS
    <3>1. s \in Int
      BY <2>1 DEF Schemas
    <3> HIDE DEF TypeInv, TypeOK, EndAssign, Advance
    <3> QED
      BY <2>3, <3>1
  <2>5. range[q][1] \in Int
    BY <1>0, RangeType
  <2>6. UNCHANGED <<host, phase, range, seen, met>>
    BY <1>4
  <2>7. phase[q] = "marshal" => at'[q] = at[q]
    BY <1>1, <2>3
  <2> HIDE DEF TypeInv, TypeOK, EndAssign, Advance
  <2>8. Started(q)'
    BY <2>1, <2>3, <2>5, <2>6 DEF Started
  <2>9. phase[q] = "populate" => \A s \in Linked(q) : s < at'[q] => Timely(q, links'[s])
    BY <1>8, <2>1, <2>4 DEF Fresh
  <2>10. phase[q] = "marshal" => \A s \in Linked(q) : Timely(q, links'[s])
    BY <1>8, <2>1 DEF Fresh
  <2>11. \A s \in Linked(q) : Timely(q, links'[s]) => Timely(q, links[s])'
    BY <2>6 DEF Timely
  <2> QED
    BY <2>1, <2>2, <2>6, <2>7, <2>8, <2>9, <2>10, <2>11 DEF Fresh
<1> QED
  BY <1>5, <1>6, <1>7, <1>9 DEF Inv

\* A read that nothing spoils delivers the link the map holds.
LEMMA EndMarshalKeeps ==
    ASSUME Inv, NEW r \in Requests, EndMarshal(r)
    PROVE  Inv'
<1> USE DEF TypeInv, TypeOK, EndMarshal, Advance
<1>0. TypeInv /\ Acquainted /\ Maps /\ \A q \in Requests : Started(q) /\ Fresh(q)
  BY DEF Inv
<1>1. phase[r] \in {"marshal", "remarshal"} /\ InRange(r)
  BY <1>0 DEF Inside
<1>2. at[r] + 1 \in 1..(N + 1) /\ at[r] \in Schemas /\ range[r][1] \in 1..N /\ range[r][2] \in 0..N
  BY <1>0, <1>1, RangeType, CatalogAssumption DEF InRange, Schemas
<1>3. PICK link \in (IF Spoilt(r) THEN Anything ELSE {links[at[r]]}) :
        seen' = IF phase[r] = "marshal" THEN [seen EXCEPT ![r][at[r]] = link] ELSE seen
  OBVIOUS
<1>4. link \in Hosts \union {NoLink, Garbled}
  BY <1>0, <1>2, <1>3 DEF Anything
<1>5. alive' \in BOOLEAN
  BY DEF Survives
<1>6. TypeInv'
  <2>1. TypeOK'
    BY <1>0, <1>2, <1>3, <1>4, <1>5 DEF Windows
  <2>2. ASSUME NEW q \in Requests PROVE Inside(q)'
    BY <1>0, <1>1 DEF Inside, InRange, Reading
  <2> QED
    BY <2>1, <2>2
<1>7. Acquainted' /\ Maps'
  BY <1>0 DEF Acquainted, Running, Maps
<1>8. ASSUME NEW q \in Requests PROVE Started(q)' /\ Fresh(q)'
  <2>1. CASE q = r
    <3>1. Started(r) /\ Fresh(r) /\ Linked(r)' = Linked(r) /\ Linked(r) \subseteq Schemas
      BY <1>0, LinkedSchemas DEF Linked
    <3>2. UNCHANGED <<links, host, phase, range, torn, crossed, met>>
      OBVIOUS
    <3>3. \A s \in Schemas : seen'[r][s] =
            IF phase[r] = "marshal" /\ s = at[r] THEN link ELSE seen[r][s]
      BY <1>0, <1>2, <1>3
    <3>4. at'[r] = at[r] + 1 /\ at[r] \in Int
      BY <1>0
    <3>5. ~Excused(r, at[r]) => link = links[at[r]]
      BY <1>0, <1>3 DEF Excused, Spoilt, Torn, Inside
    <3>6. at[r] \notin Linked(r) => links[at[r]] = NoLink
      BY <1>0, <1>1, <1>2 DEF Maps, Linked, Started, InRange
    <3> HIDE DEF TypeInv, TypeOK, EndMarshal, Advance
    <3>7. \A s : (Excused(r, s)' <=> Excused(r, s)) /\ \A l : Timely(r, l)' <=> Timely(r, l)
      BY <3>2 DEF Excused, Timely
    <3>8. Started(r)'
      BY <1>1, <1>2, <3>1, <3>2, <3>4 DEF Started
    <3>9. ASSUME NEW s \in Schemas \ Linked(r), ~Excused(r, s) PROVE seen'[r][s] = NoLink
      BY <3>1, <3>3, <3>5, <3>6, <3>9 DEF Fresh
    <3>10. ASSUME NEW s \in Linked(r), ~Excused(r, s), phase[r] = "remarshal"
           PROVE  Timely(r, seen'[r][s])
      BY <3>1, <3>3, <3>10 DEF Fresh
    <3>11. ASSUME NEW s \in Linked(r), ~Excused(r, s), phase[r] = "marshal", s < at'[r]
           PROVE  Timely(r, seen'[r][s])
      <4>1. s = at[r] \/ s < at[r]
        <5>1. s \in Int
          BY <3>1 DEF Schemas
        <5> QED
          BY <3>4, <3>11, <5>1
      <4> QED
        BY <3>1, <3>3, <3>5, <3>11, <4>1 DEF Fresh
    <3>12. phase[r] = "marshal" => \A s \in Linked(r) : Timely(r, links[s])'
      BY <3>1, <3>2, <3>7 DEF Fresh
    <3>13. \A s \in Linked(r) : Timely(r, seen'[r][s]) => Timely(r, seen[r][s])'
      BY <3>2 DEF Timely
    <3> QED
      BY <1>1, <2>1, <3>1, <3>2, <3>7, <3>8, <3>9, <3>10, <3>11, <3>12, <3>13 DEF Fresh
  <2>2. CASE q # r
    BY <1>0, <1>3, <2>2, FreshKept
  <2> QED
    BY <2>1, <2>2
<1> QED
  BY <1>6, <1>7, <1>8 DEF Inv

LEMMA PanicKeeps ==
    ASSUME Inv, NEW r \in Requests, Panic(r)
    PROVE  Inv'
<1> USE DEF TypeInv, TypeOK, Panic
<1>0. TypeInv /\ Acquainted /\ Maps /\ \A q \in Requests : Started(q) /\ Fresh(q)
  BY DEF Inv
<1>1. phase[r] \in {"marshal", "remarshal"}
  BY <1>0 DEF Inside
<1>2. TypeInv'
  BY <1>0 DEF Inside, InRange, Reading, Windows, Phases
<1>3. Acquainted' /\ Maps'
  BY <1>0, <1>1 DEF Acquainted, Running, Active, Maps
<1>4. ASSUME NEW q \in Requests PROVE Started(q)' /\ Fresh(q)'
  <2>1. CASE q = r
    <3>1. phase'[r] = "broken" /\ UNCHANGED <<links, host, range, at, seen, torn, crossed, met>>
      BY <1>0
    <3>2. Linked(r)' = Linked(r) /\ \A s : Excused(r, s)' <=> Excused(r, s)
      BY DEF Linked, Excused
    <3> HIDE DEF TypeInv, TypeOK, Panic
    <3> QED
      BY <1>0, <1>1, <2>1, <3>1, <3>2 DEF Started, Fresh
  <2>2. CASE q # r
    BY <1>0, <2>2, FreshKept
  <2> QED
    BY <2>1, <2>2
<1> QED
  BY <1>2, <1>3, <1>4 DEF Inv

LEMMA EndLoopKeeps ==
    ASSUME Inv, NEW r \in Requests, EndLoop(r)
    PROVE  Inv'
<1> USE DEF TypeInv, TypeOK, EndLoop
<1>0. TypeInv /\ Acquainted /\ Maps /\ \A q \in Requests : Started(q) /\ Fresh(q)
  BY DEF Inv
<1>1. range[r][1] \in 1..N /\ range[r][2] \in 0..N
  BY <1>0, RangeType
<1>2. /\ phase[r] = "populate" => NextPhase(r) = "marshal"
      /\ phase[r] = "marshal" => NextPhase(r) \in {"remarshal", "done"}
      /\ phase[r] = "remarshal" => NextPhase(r) = "done"
      /\ phase[r] \in Active
  BY DEF NextPhase, Running
<1>3. TypeInv'
  <2>1. TypeOK'
    BY <1>0, <1>1, <1>2, CatalogAssumption DEF Phases, Active
  <2>2. ASSUME NEW q \in Requests PROVE Inside(q)'
    BY <1>0, <1>1, <1>2 DEF Inside, InRange, Reading
  <2> QED
    BY <2>1, <2>2
<1>4. Acquainted' /\ Maps'
  BY <1>0, <1>2 DEF Acquainted, Running, Maps, Active
<1>5. ASSUME NEW q \in Requests PROVE Started(q)' /\ Fresh(q)'
  <2>1. CASE q = r
    <3>1. \A s \in Linked(r) : s \in Schemas /\ s < at[r] /\ ~(s < range[r][1])
      BY <1>0, <1>1, CatalogAssumption DEF Linked, InRange, Schemas
    <3>2. /\ phase'[r] = NextPhase(r) /\ at'[r] = range[r][1]
          /\ UNCHANGED <<links, host, range, seen, torn, crossed, met>>
      BY <1>0
    <3> HIDE DEF TypeInv, TypeOK, EndLoop
    <3>3. Linked(r)' = Linked(r) /\ (\A s : Excused(r, s)' <=> Excused(r, s))
          /\ \A s : /\ Timely(r, seen[r][s]) => Timely(r, seen[r][s])'
                    /\ Timely(r, links[s]) => Timely(r, links[s])'
      BY <3>2 DEF Linked, Excused, Timely
    <3>4. Started(r)'
      BY <1>0, <1>1, <1>2, <3>2 DEF Started, Active
    <3> QED
      BY <1>0, <1>2, <2>1, <3>1, <3>2, <3>3, <3>4 DEF Fresh, Active
  <2>2. CASE q # r
    BY <1>0, <2>2, FreshKept
  <2> QED
    BY <2>1, <2>2
<1> QED
  BY <1>3, <1>4, <1>5 DEF Inv

LEMMA NextInv ==
    ASSUME Inv, [Next]_vars
    PROVE  Inv'
<1>1. ASSUME NEW r \in Requests, NEW h \in Hosts, NEW asked \in Ranges, Receive(r, h, asked)
      PROVE  Inv'
  BY <1>1, ReceiveKeeps
<1>2. ASSUME NEW r \in Requests, HandlerStep(r)
      PROVE  Inv'
  BY <1>2, SkipKeeps, BeginAssignKeeps, EndAssignKeeps, BeginMarshalKeeps, EndMarshalKeeps,
     PanicKeeps, EndLoopKeeps DEF HandlerStep
<1>3. CASE UNCHANGED vars
  <2>1. \A r \in Requests : Started(r)' /\ Fresh(r)'
    BY <1>3, FreshKept DEF vars
  <2> QED
    BY <1>3, <2>1 DEF vars, Inv, TypeInv, TypeOK, Inside, InRange, Acquainted, Maps, Running
<1> QED
  BY <1>1, <1>2, <1>3 DEF Next, Quiet

THEOREM Invariance == Spec => []Inv
BY InitInv, NextInv, PTL DEF Spec

\* The schema routes stay within their types: no loop runs past the catalog.
THEOREM TypeCorrect == Spec => []TypeOK
BY Invariance, PTL DEF Inv, TypeInv

\* In the maps of which every write had the map to itself, an answer finds no link
\* that an earlier request left there, however many requests interleave.
THEOREM NoStaleAnswers == Spec => []NoStaleLinks
<1>1. Inv => NoStaleLinks
  <2> SUFFICES ASSUME Inv, NEW r \in Requests, Answered(r), NEW s \in Schemas \ crossed
               PROVE  IF s \in Linked(r)
                      THEN \E q \in {r} \union met[r] : seen[r][s] = host[q]
                      ELSE seen[r][s] = NoLink
    BY DEF NoStaleLinks
  <2>1. Fresh(r) /\ ~Excused(r, s)
    BY DEF Inv, Maps, Excused
  <2> QED
    BY <2>1 DEF Fresh, Timely, Answered
<1> QED
  BY <1>1, Invariance, PTL

\* A schema request that ran beside no other one answers with links built from its
\* own URL, although it works on maps every earlier request has written, unless two
\* of those requests have damaged one.
THEOREM AloneCorrect == Spec => []AloneAnswersOwnLinks
<1>1. Inv => AloneAnswersOwnLinks
  BY DEF Inv, Fresh, Excused, Timely, AloneAnswersOwnLinks, Answered
<1> QED
  BY <1>1, Invariance, PTL

\* Only requests that ran beside one another end the process: as long as each is
\* answered before the next one comes, no access of a shared map goes wrong.
THEOREM AloneNeverFatal == Spec => []((\A r \in Requests : met[r] = {}) => NeverFatal)
<1> DEFINE Lonely == \A r \in Requests : met[r] = {}
<1>1. Init => (Lonely => alive)
  BY DEF Init
<1>2. ASSUME Inv, Lonely => alive, [Next]_vars, Lonely'
      PROVE  alive'
  <2>0. TypeInv /\ Acquainted /\ Maps
    BY <1>2 DEF Inv
  <2>1. ASSUME NEW r \in Requests, NEW h \in Hosts, NEW asked \in Ranges, Receive(r, h, asked)
        PROVE  alive'
    BY <2>1 DEF Receive, Arrive
  <2>2. ASSUME NEW r \in Requests, HandlerStep(r)
        PROVE  alive'
    <3>1. met' = met /\ alive
      BY <2>2 DEF HandlerStep, SkipSchema, BeginAssign, EndAssign, BeginMarshal, EndMarshal,
                  Panic, EndLoop
    <3>2. torn = {}
      BY <1>2, <2>0, <3>1 DEF Maps
    <3>3. ~Torn(r) /\ ~Spoilt(r)
      BY <1>2, <2>0, <3>1, <3>2 DEF Torn, Spoilt, TypeInv, Inside
    <3>4. ASSUME Running(r), NEW accesses \in SUBSET {"write", "read", "spoilt"},
                 NEW q \in Beside(r, accesses)
          PROVE  FALSE
      <4>1. q \in Requests \ {r} /\ Running(q)
        BY <2>0, <3>4 DEF Beside, TypeInv, Inside, Running, Active, Reading
      <4> QED
        BY <1>2, <2>0, <3>1, <3>4, <4>1 DEF Acquainted
    <3>5. Running(r) => Beside(r, {"write"}) = {} /\ Beside(r, Reading) = {}
      BY <3>4 DEF Reading
    <3>6. CASE BeginAssign(r)
      BY <3>3, <3>5, <3>6 DEF BeginAssign, Survives, Running, Active
    <3>7. CASE BeginMarshal(r)
      BY <3>3, <3>5, <3>7 DEF BeginMarshal, Survives, Running, Active
    <3>8. CASE EndAssign(r) \/ EndMarshal(r)
      BY <3>3, <3>8 DEF EndAssign, EndMarshal, Survives
    <3>9. CASE SkipSchema(r) \/ Panic(r) \/ EndLoop(r)
      BY <3>1, <3>9 DEF SkipSchema, Panic, EndLoop
    <3> QED
      BY <2>2, <3>6, <3>7, <3>8, <3>9 DEF HandlerStep
  <2>3. CASE UNCHANGED vars
    BY <1>2, <2>3 DEF vars
  <2> QED
    BY <1>2, <2>1, <2>2, <2>3 DEF Next, Quiet
<1>3. Inv /\ (Lonely => alive) /\ [Next]_vars => (Lonely => alive)'
  BY <1>2
<1>4. (Lonely => alive) => (Lonely => NeverFatal)
  BY DEF NeverFatal
<1> QED
  BY <1>1, <1>3, <1>4, Invariance, PTL DEF Spec
=============================================================================

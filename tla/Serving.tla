------------------------------- MODULE Serving -------------------------------
(***************************************************************************)
(* brolga-api and the `context` command: one process answers, a request at *)
(* a time, out of a store that other processes commit to.  Every statement *)
(* of a read has a view of its own: the lock of ApiState keeps the server's *)
(* own readers apart and no other process out.                             *)
(*                                                                         *)
(* The subject of every request is the node 0.  `past` holds the store at  *)
(* every version it has had.                                               *)
(***************************************************************************)
EXTENDS Packs, StoreReads

CONSTANTS
  Catalogue,     \* table -> id -> the documents a feed may have for it
  Configs,       \* servers: address and credential
  Requests,      \* what may be asked
  Formats,       \* formats a pack is exported in
  MaxCommits     \* bound on commits

Tables == {"claims", "edges", "sightings", "entities"}
RouteNames == {"context", "health", "entities list", "entity", "neighbours",
               "ready", "stats"}

(* A table is finite, and its ids are numbers in the order of their text;  *)
(* a record that is read under a policy has finitely many markings; an     *)
(* entity is stored under its identifier.                                  *)
ASSUME ServingAssumption ==
  /\ None \notin Nat
  /\ MaxCommits \in Nat
  /\ \A c \in Configs : c \in [loopback : BOOLEAN, credential : BOOLEAN]
  /\ \A t \in Tables :
       /\ DOMAIN Catalogue[t] \subseteq Nat
       /\ IsFiniteSet(DOMAIN Catalogue[t])
       /\ \A id \in DOMAIN Catalogue[t] : Catalogue[t][id] # {}
  /\ \A t \in {"claims", "edges"} : \A id \in DOMAIN Catalogue[t] :
       \A doc \in Catalogue[t][id] : IsFiniteSet(doc.markings)
  /\ \A id \in DOMAIN Catalogue["entities"] :
       \A doc \in Catalogue["entities"][id] : doc.id = id
  /\ \A r \in Requests :
       /\ r.route \in RouteNames
       /\ r.objects \in Nat \union {None}
       /\ r.relationships \in Nat \union {None}

VARIABLES
  store, past,
  config,        \* the server's, or None for the command
  phase,         \* what is done next
  request,
  gathered,      \* what has been read for it
  answer

servingVars == <<store, past, config, phase, request, gathered, answer>>

Version(s) == s.version
Subject == 0

(* Every entity an edge names is there.                                    *)
Attached(s, edge) == {edge.source, edge.target} \ {Subject} \subseteq DOMAIN s.entities

Put(table, id, doc) == [i \in DOMAIN table \union {id} |-> IF i = id THEN doc ELSE table[i]]

(* Another process changes one record, and the version with it.  Bound:    *)
(* only between two reads of a request, where there is one to disturb.     *)
Commit ==
  /\ phase \in {"edges", "sightings", "entities", "version",
               "entities list", "edges of", "counting"}
  /\ \E t \in Tables : \E id \in DOMAIN Catalogue[t] : \E doc \in Catalogue[t][id] :
       /\ Len(past) <= MaxCommits
       /\ Get(store[t], id) # doc
       /\ t = "edges" => Attached(store, doc)
       /\ store' = [store EXCEPT ![t] = Put(@, id, doc), !.version = @ + 1]
       /\ past' = Append(past, store')
  /\ UNCHANGED <<config, phase, request, gathered, answer>>

-----------------------------------------------------------------------------
DefaultBudget == 2   \* DEFAULT_BUDGET, scaled down from 50
MaxBudget == 3       \* MAX_BUDGET, scaled down from 500

Clamped(asked) ==
  IF asked = None THEN DefaultBudget
  ELSE IF asked < 1 THEN 1 ELSE IF asked > MaxBudget THEN MaxBudget ELSE asked

(* ApiConfig::bind: who can be reached from elsewhere needs a credential.  *)
MayBind(c) == c.loopback \/ c.credential

(* Only a loopback server without a credential serves its operator.        *)
PolicyIdentity(c) ==
  IF c.loopback /\ ~c.credential THEN LocalOperator ELSE Anonymous

IsCommand == config = None

Reader == IF IsCommand THEN LocalOperator ELSE PolicyIdentity(config)

(* authenticate: the health route is always open.                          *)
Authenticated(r) == config.credential => r.token \/ r.route = "health"

Objects == IF IsCommand THEN request.objects ELSE Clamped(request.objects)
Relationships == IF IsCommand THEN request.relationships ELSE Clamped(request.relationships)

Nothing == [claims |-> <<>>, edges |-> <<>>, sightings |-> <<>>, entities |-> <<>>,
            version |-> 0, missed |-> {}, listed |-> <<>>, page |-> None]

Reply(a) ==
  /\ answer' = a
  /\ phase' = "answered"
  /\ UNCHANGED <<store, past, config, request, gathered>>

(* What a command line says, its defaults filled in.                       *)
IsContextCommand(r) ==
  r.route = "context" /\ None \notin {r.objects, r.relationships}

Ask(r) ==
  /\ phase = "idle"
  /\ request' = r
  /\ phase' = CASE ~IsCommand /\ ~Authenticated(r) -> "unauthorised"
                [] OTHER                           -> r.route
  /\ UNCHANGED <<store, past, config, gathered, answer>>

Refuse == phase = "unauthorised" /\ Reply([refused |-> "unauthorized"])

(* The timeout layer answers; what is being read goes on and is dropped.   *)
TimeOut ==
  /\ ~IsCommand /\ phase \notin {"idle", "answered"}
  /\ Reply([refused |-> "timeout"])

Health == phase = "health" /\ Reply([status |-> "ok"])

-----------------------------------------------------------------------------
(* The context of a subject.                                               *)
Rows(table, ids) == [i \in DOMAIN ids |-> table[ids[i]]]
EdgeQuery == [node |-> Subject, direction |-> "either", kinds |-> {}, statuses |-> {}]

Read(change, next) ==
  /\ gathered' = change
  /\ phase' = next
  /\ UNCHANGED <<store, past, config, request, answer>>

RejectSubject ==
  /\ phase = "context" /\ ~request.subject
  /\ Reply([refused |-> "bad request"])

RejectLevel ==
  /\ phase = "context" /\ request.subject /\ IsCommand
  /\ ParseLevel(request.level) = None
  /\ Reply([refused |-> "usage"])

ReadClaims ==
  /\ phase = "context" /\ request.subject
  /\ IsCommand => ParseLevel(request.level) # None
  /\ LET ids == ClaimsAbout(store.claims, Subject, First(Objects)) IN
     Read([gathered EXCEPT !.claims = Rows(store.claims, ids),
             !.missed = {i \in DOMAIN store.claims :
                           store.claims[i].subject = Subject} \ ToSet(ids)], "edges")

ReadEdges ==
  /\ phase = "edges"
  /\ Read([gathered EXCEPT !.edges =
             Rows(store.edges, EdgesAt(store.edges, EdgeQuery, First(Relationships)))],
          "sightings")

ReadSightings ==
  /\ phase = "sightings"
  /\ Read([gathered EXCEPT !.sightings =
             Rows(store.sightings,
                  SightingsOf(store.sightings, Subject, First(Objects)))],
          "entities")

EndsOf(edges) == UNION {{e.source, e.target} : e \in ToSet(edges)}

(* Both ends of every edge, as far as they are entities; once each.  The   *)
(* edges are those read, of which none is withheld yet.                    *)
ReadEntities ==
  /\ phase = "entities"
  /\ LET found == EndsOf(gathered.edges) \intersect DOMAIN store.entities IN
     Read([gathered EXCEPT !.entities = Rows(store.entities, ById(found))],
          "version")

(* Mutant: the version is the one the store was opened at.                 *)
ReadVersionAtOpen ==
  /\ phase = "version"
  /\ Read([gathered EXCEPT !.version = 1], "assemble")

ReadVersion ==
  /\ phase = "version"
  /\ Read([gathered EXCEPT !.version = Version(store)], "assemble")

(* The instant it is: the store's commits are what passes.                 *)
Clock == Len(past)

Assembly(g, now) ==
  [identity |-> Reader, level |-> IF IsCommand THEN request.level ELSE "L1",
   max_objects |-> Objects, max_relationships |-> Relationships,
   version |-> g.version, now |-> now, request_id |-> None]

(* The server serves L1, whatever was asked, and says so; the budget it    *)
(* reports is the one asked for.                                           *)
Served(made) ==
  LET asked == request.level # None /\ request.level # "L1" IN
  [made EXCEPT !.exclusions = @ \union (IF asked
                 THEN {Exclusion("detail_level", "not_implemented")} ELSE {}),
     !.gaps = @ \union (IF asked THEN {"detail_level"} ELSE {}),
     !.requested = <<request.objects, request.relationships>>]

AnswerOf(g, now) ==
  IF IsCommand THEN Build(Assembly(g, now), g)
  ELSE Validated(Served(Assembled(Assembly(g, now), g)))

Assemble ==
  /\ phase = "assemble"
  /\ Reply([pack |-> AnswerOf(gathered, Clock)])

(* `context --format`: a pack goes out in another format.                  *)
ExportAs(format) ==
  /\ phase = "answered" /\ IsCommand
  /\ "pack" \in DOMAIN answer /\ IsPack(answer.pack)
  /\ answer' = [pack |-> answer.pack, format |-> format,
                 exported |-> Export(format, request.kind, answer.pack, Reader)]
  /\ phase' = "exported"
  /\ UNCHANGED <<store, past, config, request, gathered>>

-----------------------------------------------------------------------------
MaxPageSize == 3       \* MAX_PAGE_SIZE, scaled down from 1000
DefaultPageSize == 2   \* DEFAULT_PAGE_SIZE, scaled down from 100

IntoPage(limit, offset) ==
  Page(IF limit = None THEN DefaultPageSize
       ELSE IF limit < 1 THEN 1 ELSE IF limit > MaxPageSize THEN MaxPageSize ELSE limit,
       offset)

(* Mutant: the next page begins one row too far.                           *)
NextOffsetBeyond(returned, page) ==
  IF returned >= page.limit THEN page.offset + page.limit + 1 ELSE None

(* A full page may have another after it.                                  *)
NextOffset(returned, page) ==
  IF returned >= page.limit THEN page.offset + page.limit ELSE None

EntityQuery == [kinds |-> {}, statuses |-> {}, last_seen_from |-> None,
                last_seen_before |-> None]

(* GET /entities, by a client that follows next_offset to its end.         *)
ListPage ==
  /\ phase = "entities list"
  /\ LET page == IntoPage(request.objects, IF gathered.page = None THEN 0 ELSE gathered.page)
         found == SearchEntities(store.entities, EntityQuery, page)
         next == NextOffset(Len(found), page) IN
     Read([gathered EXCEPT !.listed = @ \o found, !.page = next,
             !.missed = IF gathered.page = None THEN DOMAIN store.entities ELSE @],
          IF next = None THEN "listed" ELSE "entities list")

ListEnds == phase = "listed" /\ Reply([listed |-> ToSet(gathered.listed)])

GetEntity ==
  /\ phase = "entity"
  /\ Reply(IF Exists(store.entities, request.id)
           THEN [entity |-> store.entities[request.id]] ELSE [refused |-> "not found"])

(* Whether it exists is one read, its edges are another.                   *)
FindNode ==
  /\ phase = "neighbours"
  /\ IF Exists(store.entities, request.id) THEN Read(gathered, "edges of")
     ELSE Reply([refused |-> "not found"])

ReadNeighbours ==
  /\ phase = "edges of"
  /\ Reply([edges |-> EdgesAt(store.edges, About(EdgeQuery, request.id),
                              IntoPage(request.objects, 0))])

(* ready: the schema's version, then how many entities.                    *)
Ready == phase = "ready" /\ Reply([entities |-> Cardinality(DOMAIN store.entities)])

(* stats: a count after the other.                                         *)
CountEntities ==
  /\ phase = "stats"
  /\ Read([gathered EXCEPT !.entities = <<Cardinality(DOMAIN store.entities)>>], "counting")

CountRest ==
  /\ phase = "counting"
  /\ Reply([entities |-> gathered.entities[1],
            relationships |-> Cardinality(DOMAIN store.edges),
            claims |-> Cardinality(DOMAIN store.claims),
            sightings |-> Cardinality(DOMAIN store.sightings)])

-----------------------------------------------------------------------------
EmptyStore == [claims |-> [i \in {} |-> 0], edges |-> [i \in {} |-> 0],
               sightings |-> [i \in {} |-> 0], entities |-> [i \in {} |-> 0], version |-> 1]

(* The store a request meets is one that feeds could have filled.          *)
Stores ==
  {s \in [claims : {[i \in S |-> CHOOSE d \in Catalogue.claims[i] : TRUE] :
                      S \in SUBSET DOMAIN Catalogue.claims},
          edges : {[i \in S |-> CHOOSE d \in Catalogue.edges[i] : TRUE] :
                      S \in SUBSET DOMAIN Catalogue.edges},
          sightings : {EmptyStore.sightings},
          entities : {[i \in S |-> CHOOSE d \in Catalogue.entities[i] : TRUE] :
                      S \in SUBSET DOMAIN Catalogue.entities},
          version : {1}] :
     \A e \in DOMAIN s.edges : Attached(s, s.edges[e])}

ServingInit ==
  /\ store \in Stores
  /\ past = <<store>>
  /\ config \in {c \in Configs : MayBind(c)} \union {None}
  /\ phase = "idle"
  /\ request = None /\ gathered = Nothing /\ answer = None

Context ==
  \/ RejectSubject \/ RejectLevel \/ ReadClaims \/ ReadEdges \/ ReadSightings
  \/ ReadEntities \/ ReadVersion \/ Assemble
  \/ \E f \in Formats : ExportAs(f)

Routes ==
  \/ Health \/ ListPage \/ ListEnds \/ GetEntity \/ FindNode \/ ReadNeighbours
  \/ Ready \/ CountEntities \/ CountRest

ServingNext ==
  \/ Commit
  \/ \E r \in Requests : (IsCommand => IsContextCommand(r)) /\ Ask(r)
  \/ Refuse \/ TimeOut \/ Context \/ Routes

ServingSpec == ServingInit /\ [][ServingNext]_servingVars

-----------------------------------------------------------------------------
HasPack == answer # None /\ "pack" \in DOMAIN answer /\ IsPack(answer.pack)

MayRead(records) == Partition(Reader, records, "read").allowed

SourcesOf(records) == UNION {r.sources : r \in ToSet(records)}

(* No claim, edge, citation, handle, marking or disposition of a pack      *)
(* comes of a claim or an edge its reader may not read: these are withheld *)
(* before anything is made of them (assemble.rs:73, context.rs:205), and   *)
(* the pack says that some were.  Of entities and sightings this is not    *)
(* so: no marking of theirs is looked at, and an entity is read over every *)
(* edge (context.rs:177).  An entity that only a withheld edge leads to is *)
(* in the pack; all that holds is that the pack then says it is restricted.*)
ClaimsAndEdgesWithheld ==
  HasPack =>
    LET pack == answer.pack
        claims == MayRead(gathered.claims)  edges == MayRead(gathered.edges) IN
    /\ Cited(pack) \union UNION {c.evidence : c \in ToSet(pack.graph.claims)}
         \subseteq SourcesOf(claims)
    /\ {h.target : h \in ToSet(pack.handles)} = {c.id : c \in ToSet(claims)}
    /\ pack.disposition \in {c.assertion : c \in ToSet(claims)} \union {"unknown"}
    /\ pack.markings = PackMarkings(claims, edges)
    /\ {r.id : r \in ToSet(pack.graph.relationships)} \subseteq {e.id : e \in ToSet(edges)}
    /\ \/ Len(claims) < Len(gathered.claims)
       \/ Len(edges) < Len(gathered.edges)
       \/ {e.id : e \in ToSet(pack.graph.entities)} \ EndsOf(edges) # {}
       => pack.restricted

(* What assemble.rs:13 ("Records are withheld before a single string is    *)
(* built") and context.rs:205 say of records of every kind, and            *)
(* export/src/lib.rs:12 of what leaves in a format: a reader gets no       *)
(* entity and no sighting that it may not have.  The code keeps it of      *)
(* claims and edges alone.                                                 *)
AllRecordsWithheld ==
  HasPack /\ answer.pack.graph # EmptyGraph =>
    \A r \in ToSet(gathered.entities) \union ToSet(gathered.sightings) :
      /\ Allowed(Reader, r.markings, "read")
      /\ "exported" \in DOMAIN answer /\ "bytes" \in DOMAIN answer.exported =>
           Allowed(Reader, r.markings, Capability(Registry[answer.format]))

(* A pack that had to leave claims unread says so, where the page could    *)
(* hold what was asked for and nothing was withheld (assemble.rs:138), and *)
(* what it says is that asking for more would help; a file that leaves out *)
(* what it had to declare declares something (export/src/lib.rs:308).      *)
CutIsTold ==
  HasPack =>
    LET pack == answer.pack IN
    /\ gathered.missed # {} /\ Objects <= MaxLimit /\ ~pack.restricted => pack.exhausted
    /\ pack.exhausted <=> \E e \in pack.exclusions : IsRetryable(e.reason)
    /\ "exported" \in DOMAIN answer /\ "bytes" \in DOMAIN answer.exported =>
         (MustDeclareLosses(Registry[answer.format].lossiness) => answer.exported.losses # {})

ReadAt(v) == ClaimsAbout(past[v].claims, Subject, First(Objects))
EdgesReadAt(v) == EdgesAt(past[v].edges, EdgeQuery, First(Relationships))

(* What a pack was made of was there no later than the version it names:   *)
(* a handle that is not stale stands for nothing newer (context.rs:183).   *)
StampCoversReads ==
  HasPack =>
    \E v \in 1..answer.pack.graph_version : \E w \in v..answer.pack.graph_version :
      /\ gathered.claims = Rows(past[v].claims, ReadAt(v))
      /\ gathered.edges = Rows(past[w].edges, EdgesReadAt(w))

(* The stronger claim of context.rs:163 and :183: one graph, the version's.*)
PackDescribesItsVersion ==
  HasPack =>
    LET v == answer.pack.graph_version IN
    /\ gathered.claims = Rows(past[v].claims, ReadAt(v))
    /\ gathered.edges = Rows(past[v].edges, EdgesReadAt(v))

(* Of the same reads the same answer, whenever it is made: what            *)
(* pack.rs:19 says of a pack built a week later.                           *)
SameAnswerWhenever ==
  HasPack => SaysTheSameAs(answer.pack, AnswerOf(gathered, Clock + 1))

(* A file for another platform leaves only where each claim and each edge  *)
(* of the pack may be redistributed (export/src/lib.rs:277, :344): clear   *)
(* asks the pack's markings, and those are of its claims and edges         *)
(* (assemble.rs:296).  The entities in the file are not asked: an edge     *)
(* that may be redistributed leads to each, or the pack and so the file's  *)
(* note say that something was withheld.                                   *)
ClaimsAndEdgesMaySpread ==
  HasPack /\ "exported" \in DOMAIN answer /\ "bytes" \in DOMAIN answer.exported
    /\ Registry[answer.format].orientation = "interchange" =>
      LET pack == answer.pack
          spread == {r \in ToSet(MayRead(gathered.edges)) :
                       Allowed(Reader, r.markings, "redistribute")} IN
      /\ \A r \in ToSet(MayRead(gathered.claims)) \union ToSet(MayRead(gathered.edges)) :
           Allowed(Reader, r.markings, "redistribute")
      /\ \A e \in ToSet(pack.graph.entities) :
           \/ \E r \in spread : e.id \in {r.source, r.target}
           \/ Exclusion("claims", "policy_restricted") \in pack.exclusions

(* Following next_offset to its end lists every entity that was there when *)
(* the listing began, whatever is added meanwhile (routes.rs:66).          *)
ListingMissesNothing ==
  answer # None /\ "listed" \in DOMAIN answer => gathered.missed \subseteq answer.listed
=============================================================================

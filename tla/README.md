# Brolga in TLA+

Brolga keeps threat intelligence: it fetches feeds, normalises what they publish into canonical
records, stores those beside the original bytes, and answers questions over the resulting graph.
This directory holds TLA+ models of it, the TLC configurations that check them, and TLAPS proofs of
the results that matter most. Paths below are relative to `src/crates/`.

## 1. The system

| Component | Code | State it keeps | Operations |
|---|---|---|---|
| TAXII synchronisation | `brolga-connectors/src/{sync,taxii}.rs` | one durable cursor per collection (`connector_cursors`); the locals of a run | `sync_collection`: load the cursor, then per page request, ingest, write the cursor |
| OpenCTI polling | `brolga-connectors/src/{sync,opencti}.rs` | one durable cursor per instance | `sync_opencti`: the same with a GraphQL query and a page cursor that is not stored |
| Transport, network policy | `brolga-connectors/src/transport.rs`, `brolga-security/src/network.rs` | none | one request at a time, each redirect hop checked |
| Cancellation, limits, trust | `brolga-security/src/{cancel,limits,trust}.rs` | an atomic flag and a deadline per token, a chain of parents | `child`, `cancel`, `is_cancelled`, `reason`; range checks; combination of trust |
| Ingestion pipeline | `brolga-ingest/src/{pipeline,registry,detect}.rs` | none between batches | `ingest_batch`: choose a parser, prepare (parse, validate, sort), then one transaction for evidence, records and quarantine |
| Formats, mapping, canonicalisation | `brolga-ingest/src/{formats,mapping,canon}` | none | functions from bytes to records |
| Store | `brolga-storage/src/{store,sqlite,postgres}.rs` | all tables | `transaction`, reads outside it |
| Evidence retention | `brolga-storage/src/blob.rs` and both backends | `source_blobs`, `source_blob_audit` | put, release, reclassify, get |
| Canonical records | both backends | `entities`, `relationships`, `claims`, `sightings`, `graph_meta` | upserts, endpoint checks, the version counter, listings |
| Other tables | `brolga-storage/src/{quarantine,decision,checkpoint,cursor,audit}.rs` | quarantine rows, decisions, checkpoints, source objects, metrics | one call each |
| Schema migrations | `brolga-storage/src/{migration,open}.rs`, both backends | `brolga_schema_migrations` | `migrate`, run by every open |
| Checkpoints | `brolga-graph/src/checkpoint.rs` | stored checkpoints | `capture`, `still_current`, `compare` |
| Traversal | `brolga-graph/src/traverse.rs` | the locals of a walk | `prepare`, `run` |
| Graph analysis | `brolga-graph/src/{resolve,dedup,contradiction,decay,confidence,rank,budget,quality}.rs` | the ledger of analyst decisions; a lineage of observations | `apply`, `resolve`, `observe`, `evaluate`, `assess`, `rank`, `fit` |
| Canonical model | `brolga-model/src` | a provenance while it is built | derived identities, builders, readers |
| Context packs | `brolga-graph/src/assemble.rs`, `brolga-model/src/pack.rs`, `brolga-api/src/context.rs` | none | gather, withhold, assemble, validate |
| Configuration, policy | `brolga-config/src` | none | layers, secrets, profiles, decisions |
| Export | `brolga-export/src` | none | clear, then write one of nine formats |
| HTTP API, command line | `brolga-api/src`, `brolga-cli/src` | none of their own | one library call per request or command |
| Query compiler | `brolga-query/src` | none | lex, parse and compile one expression to a typed filter |

### How the parts interact

`brolga fetch` opens a store (which migrates it), builds one cancellation token from the time-out,
and calls `sync_collection` or `sync_opencti` once per feed. A sync reads the cursor through the
store, asks the remote server for a page through the transport, hands the bytes to the pipeline,
and writes the cursor. The pipeline parses outside any transaction and writes evidence, records and
quarantined rows in one. The graph layer only reads: it takes rows statement by statement and leans
on the graph version, which the upserts maintain, to know whether it saw one graph or several. The
server and `brolga context` read the same way, make a pack of what their reader may see, and export
it.

Nothing in the program excludes a second process: several commands, or a command and the server,
may have the same database open. That, a process that dies between two transactions, remote servers
that misbehave, deadlines that pass in the middle of a step, bounds that are met exactly and inputs
with more than one reading are what makes the code hard to test and what the models are about.

### What makes each component correct

* A sync may repeat a page, never skip one; the cursor claims nothing the store does not hold; a
  report that says "complete" is right; a run ends; runs that keep being started cover the feed.
* The shelf of originals and its audit trail agree; a hold is a hold; the same bytes are stored once.
* No edge dangles; the graph version moves when the graph does; a checkpoint describes one version.
* An object of a bundle ends as records or as a quarantined row; a batch lands whole or not at all,
  with the evidence behind everything in it; an edge resolves wherever its ends are in the bundle;
  nothing but a stated reason keeps a feed out.
* The schema is always the beginning of one build's migrations, and a build that opened a database
  works on its own.
* A walk keeps to each of its budgets and to its policy, and says so when it stopped short.
* Withheld claims and edges leave no trace in a pack but the note that some were; a pack that was cut
  says so; it names a version that none of its content is newer than; it leaves in a format only where
  its claims and edges may.
* Input with more than one reading is refused or noted by name; a value has one canonical form; a
  mapping accounts for each record it selects.
* The last word on an identity stands; age lends no standing; a required item is in the pack or
  there is no pack; the nearest layer and profile win; no hop of a fetch passes the policy; no child
  token outlives its parent.

PROJECT.json lists under `hazards` every place at which one of these could go wrong in a way a test
would hardly reach, and the properties that watch it.

## 2. The modules

Three kinds: state machines of what runs concurrently or may fail half way; state machines of what is
called in sequence; algorithms, as operators.

| Module | Models | Extends or uses |
|---|---|---|
| `Absence` | `None`, in one place | extended by all that need it |
| `FeedCopy` | the promise of an incremental connector: offer, copy, claim | |
| `TaxiiSync` | `sync_collection`, `TaxiiClient::objects` | implements `FeedCopy` |
| `OpenCtiSync` | `sync_opencti`, `OpenCtiClient::page` | implements `FeedCopy` |
| `StixParser` | `StixParser::parse`: one bundle to records and rejections | |
| `IngestPipeline` | `Pipeline::prepare`, `ingest_batch` | extends `StixParser` |
| `Transactions` | what a transaction of SQLite or PostgreSQL sees, waits for and is refused | |
| `RetentionStore` | `put_`, `release_`, `reclassify_source_blob` of both backends | extends `Transactions` |
| `GraphStore` | the upserts, `require_node`, `touch_graph` of both backends | extends `Transactions` |
| `GraphCapture` | `capture` and the traversal below it | extends `GraphStore` |
| `Migrations` | `migrate` of both backends, `OpenedStore::open` | |
| `StoreReads` | filters, orders and pages of the listings | |
| `Walk` | `TraversalPlan::prepare` and `run` | extends `StoreReads` |
| `Policy` | markings, identities, `decide` | |
| `Packs` | `assemble`, the rules of a valid pack; formats, clearance, declared losses | extends `Policy` |
| `Serving` | the server's routes and the `context` command over a store that changes | extends `Packs`, `StoreReads` |
| `StoreTables` | quarantine, decisions, checkpoints, sources, cursors, blobs, metrics | |
| `Identity` | the ledger of decisions, `resolve`, `judge` | |
| `Guards` | tokens; limits, trust, network policy, fetches | |
| `Records` | derived identities, builders and readers, a provenance | |
| `Checkpoints` | facets, `categorise`, `compare` | |
| `Assessments` | decay, contradiction, confidence | |
| `Ranking` | `rank`, `fit`, quality | |
| `Formats` | parser choice, delimited files | |
| `Indicators` | STIX patterns, Sigma rules, OpenIOC and IODEF | |
| `Canonical` | the canonicalisers | |
| `Mapping` | declared mappings: paths, transforms, engine | |
| `Settings` | layers, secrets, profiles | |
| `QueryLanguage` | the expression of a search, its limits, the filter it compiles to | |
| `Laws` | the laws of the five small machines, of markings, guards, listings and records | extends `Identity`, `StoreTables`, `Guards`, `Records`, `Walk`; instantiates `Policy` |
| `Readings` | the laws of what is read and made of it: checkpoints compared, documents, mappings, canonical forms, settings, queries, assessments, ranking | extends `Laws`; instantiates the other algorithmic modules |
| `MC*` | instances for TLC | |
| `TaxiiSync_proofs`, `OpenCtiSync_proofs` | the syncs: types, marks, completeness, refinement of `FeedCopy` | |
| `IngestPipeline_proofs` | batches, accounting, order; lemmas about `StixParser` | |
| `Transactions_proofs` | what a transaction sees and publishes, for the two below | |
| `GraphCapture_proofs` | endpoints, the version, checkpoints | extends `Transactions_proofs` |
| `RetentionStore_proofs` | the audit trail, holds, deduplication | extends `Transactions_proofs` |
| `Reads_proofs` | `Migrations`, `Serving`, `Walk` | |
| `Laws_proofs` | tokens, fetches, trust, limits, identities, lineages, markings, tables, pages of a listing | extends `Laws` |

Bounds of the code that matter stand at the head of the module that uses them, scaled down, each
beside the name and value it has in the code.

### The syncs

A collection is the sequence of its objects in the order in which the server added them; a page is
determined by a set of them, because the loop looks at nothing but their number, their newest
timestamp, the continuation and the tag. A run has a program counter with four places: `idle`,
`head` (top of the loop), `answered` (a response is in hand), `ingested` (the page's transaction has
committed, the cursor's has not). Each action of a run is one stretch of the code between two
effects that others can see: a read of the cursor, a request, a transaction.

`ReturnOk` is `persist(..)?` followed by `return Ok(report)`, so it has the storage error as its
second branch; `ReturnErr` is `let _ = persist(..)`, whose failure is ignored. `faults` counts
failures, crashes and cancellations together, up to `MaxFaults`. `report.upTo` is history: what the
server held at the last answer.

The server is external. Its pages obey the protocol (objects in server order, nothing left out when
it denies more), except that it may claim `more` at the end (`OverclaimsMore`), and for OpenCTI it
may return no end cursor or the one it was sent. An OpenCTI version has two times: `Modified`, which
the query orders and filters by, and `Updated`, which the mark is taken from and which may be unusable
(0). In `MCOpenCtiSync` the three versions have one of each kind: no usable mark, one later than the
object's own `modified`, and one that takes the mark back before an object already listed. What is
assumed of them is `MarksSeparate`, and that versions become visible in the order of `modified`. Entity tags identify the response (`"page"`, as
HTTP defines them) or the collection (`"collection"`, as many servers do). `NoLateArrival` is the
assumption under which a mark made of timestamps is sound at all; `MCTaxiiSync` assumes it and the
theorems name it as their hypothesis.

### Ingestion

`StixParser` is a pure operator, `Parse`, from a document to what `ParseOutput` carries. A document
is the sequence of its objects; an object is its identifier, its type, its canonical name, the
observables it names itself, the identifiers it refers to, and `usable`, which stands for the fields
whose only effect is to refuse the object. A record is its identity: kind, node, and for an edge the
other end, for a sighting the observer, for a claim which kind of statement it is. An object makes at
most one claim of a kind about an observable, so the labels of an indicator are one claim here. The
relation of an edge is left out, and records of a document are a set, which is what upserts by
identity make of them. Three distinctions are kept on purpose: `Nodes` collects endpoints under the
name as published while `MapEntity` writes under the name `Cut` and checked against `Unusable`; a
later object of an identifier replaces an earlier one; an indicator in another pattern language is a
node and not a record.

`IngestPipeline` has a batch go through `preparing` (one action per document, `PrepareFails` for the
four ways to fail), `evidence` (`RefuseEvidence` for an original longer than the store retains, the
documents `Oversized`) and `writing` (one action per record in the order of `sort_key`, one
for the quarantined rows of a document), then `Commit`. `txn` is what the open transaction sees and
`store` what is committed. `Interrupted` is a cancellation, a storage error or the death of the
process between any two of them. The caller offers batch `landed + 1` until it lands, as a sync does.

### Transactions, retention, records, capture

`Transactions` states what the two backends give, per connection: the committed table, the snapshot,
the rows written. SQLite takes its snapshot at the first statement and refuses a write when another
connection is writing or has committed since; PostgreSQL, at READ COMMITTED, lets every statement
see what is committed when it runs and makes writers of one row wait. A call of `StoreWrite` is one
action per statement that another transaction could come between. `Refused` is the error a blocked
write ends with; waiting is simply not taking a step.

An address of `RetentionStore` holds a retention class or nothing; the audit table is kept as the
number of entries per address and action. A `"void"` action is a `Released` entry whose reason says
nothing was there. A record of `GraphStore` holds a small number for its document; `changed` counts
the material changes of an open transaction, so the version can be compared with them after commit.
`GraphCapture` adds one reader that goes statement by statement between two readings of the version.
Sightings, claims and relationships differ only in which endpoints they check and are all edges.

### Migrations

A migration is its checksum; because its statements and its row commit together and the primary key
admits one row per identifier, the rows are the schema. Builds differ in how far their list goes
(`Latest`) and, for an edited build, in what it holds (`Ships`).

### The walk

`Walk` is checked inside `Laws`, as one of its machines. It takes one edge of one node per action, as
the inner loop of `run` does: `Expand` is the read with room for one row too many, `Withhold`,
`Collect`, `StopAtNodes` and `StopAtEdges` the branches for a row, `Deepen` and `Finish` the end of a
level. Each node's edges are a statement of their own (`traverse.rs:512`), so another process may import
between two of them (`ImportElsewhere`), and a walk may see edges of several versions of the graph;
`versions` remembers which there were. The token may be cancelled at any time and is looked at between
two nodes. `OpenAt`, `Beyond` and `Within` define, for any set of rows, what can be reached over them
without any of the walk's bookkeeping; the properties use them over the rows that were there at some
time (`EverThere`) and those that were there all the time as they are (`AlwaysThere`).

### Serving

One process answers one request; another commits. `phase` says which read of a request is next,
`gathered` what the earlier ones returned, and every read sees the store as it is then: that is what
the process's own mutex does not prevent. `past` is history, the store at each version. A pack is
assembled from `gathered` by `Packs`, for the server (`Served`, `Validated`) or for the command
(`Build`), and may be exported as `Packs` says (`EmitStix` and the other formats). `Policy.Allowed`
decides for one marking at a time, as `decide` does. A listing is a client that follows
`next_offset` to its end.

### The laws

An algorithm without state is an operator. `Laws` samples one input of one topic (`TakeSample`) and,
with `Readings` for what is read from documents, states a law of the answer; the sample is a
variable, so every input is a state and a counterexample is one step long. Texts are records of what
the code looks at in them, or sequences of marks. The five machines without concurrency (the ledger
of `Identity`, the tables of `StoreTables`, the tokens of `Guards`, the provenance of `Records`, the
traversal of `Walk`) run in the same module, each alone, over every sequence of calls up to its
bound; the graph a walk begins with is chosen initially. Tokens are shared by threads in the code;
each of their operations is one atomic load or store, so their interleavings are the sequences.

## 3. What TLC checks

Every property has a mutant in PROJECT.json: a plausible bug in one definition under which TLC finds
the property violated in the same run.

| Run | Shows |
|---|---|
| `Taxii` | two overlapping fetches of a 2.1 collection, one fault anywhere: the cursor is never ahead of the store (`CursorNeverAheadOfStore`), "complete" is true (`CompleteCoversFeed`), the loop implements `FeedCopy` (`CopySpec`), runs that keep being started cover the feed (`FeedCaughtUp`) |
| `OpenCti` | the same for the poll, with an update of a listed object and one that does not render, and that every run ends (`EveryRunEnds`) |
| `Ingest` | every bundle of three objects of a catalogue, small batches and feeds, both modes, one fault anywhere: objects are stored or quarantined, batches land whole and with their evidence, the order of objects decides nothing, an unobstructed feed lands |
| `Retention` | two processes over one database of either kind: the trail accounts for the shelf, which holds bytes once (`AuditBalances`); holds and deduplication in one file |
| `Graph` | two importing processes, one capturing, over either kind: endpoints, the version, an honest checkpoint |
| `Migrations` | three openers of three builds: one build's schema, an open that succeeds gets its own, a racing upgrade completes |
| `Serving` | every request of a list, server or command, over any store of a catalogue, two commits between its reads: packs and listings (five properties) |
| `Laws` | the algorithms over samples, five machines over every short sequence of calls, among them every walk of a set of graphs, starts, filters, policies and budgets with an import between two reads and a cancellation anywhere (fourteen properties) |

**The properties of `Serving`.** `ClaimsAndEdgesWithheld` compares the finished pack (claims,
edges, evidence, handles, disposition, markings) with the claims and edges its reader may read, and
has the pack say that it is restricted where some were withheld, or where an entity is in it that no
edge let through leads to. It says nothing of the markings of entities and sightings, because the code
looks at none; that they are kept too is `AllRecordsWithheld`, which the code does not do (see the
disagreements). `CutIsTold`: rows that the
page left behind make the pack say `exhausted`, it says so exactly when one of its exclusions may be
had with a larger budget, and a lossy format names what it lost. `StampCoversReads` is what survives
of "the version describes the graph": nothing in a pack is newer than its version.
`ClaimsAndEdgesMaySpread`: an interchange file exists only where every claim and every edge of its
pack may be redistributed, and each entity in it is the end of such an edge, or the pack says that
records were withheld.
`ListingMissesNothing`: entities that were there when a listing began are in it, whatever is
inserted meanwhile.

**The properties of the run `Laws`** (in the modules `Laws`, `Readings` and those they extend). A
walk keeps its budgets and its policy, and what it returns is closed (`StaysInside`); one that says
it is complete found every node that can be reached over the edges that stayed as they were while it
walked, no later than at its distance over them (`CompleteIsReachable`); without an import that is
every node at its distance, with one what was imported may be missing and the walk does not say so. A
comparison is
exact, each change once, departures traced, the mirror of the comparison the other way round, and
when it is cut short a beginning of it; two captures of one record differ exactly where the record
says something else (`ComparisonIsExact`). Age only lowers standing, contradiction is mutual,
confidence is bounded and no dispute raises it, and a decay ledger seeded with the states of one
that ended goes on as that one would have (`AssessmentsHold`). What stands of the ledger of
identities is what its history says last, corroboration counts independent publications, and who may
see a merged record is who might see both (`IdentityIsReviewed`). Quarantine rows add up, decisions
keep their actors, labels stay bounded, checkpoints are the last put, a blob that is returned has
the bytes it was stored for, and a listing read page by page is the listing
(`TablesAnswerForCalls`). A token never outlives its parent (`StopsWithItsParent`). What the
builders made the reader takes, and different records have different identities (`BuiltReadsBack`).
Patterns are read whole or not at all; ambiguous values, documents and rules are refused or noted; a
document is claimed in one shape at most; the expression of a search is refused for a fault that a
grammar of neighbouring pieces also finds, and otherwise finds what its comparisons say
(`NothingIsGuessed`). A canonical form is its own canonical form, but for a path's, of which only the part after the family
is (`CanonicalFormIsStable`). A
mapping filters, rejects once or maps wholly (`MappingAccounts`). The last layer wins and is named,
the nearest profile wins, and a document with an anchor or an alias outside quotes, or one too deep,
is refused (`WhatIsSaidLastHolds`). Every hop of a fetch has a permitted scheme and permitted
addresses as far as the check was told, trust only falls, limits that
were validated are in their ranges and an expansion ratio does not wrap (`NothingPassesTheGuards`).
Protected records and required items are kept or the budget fails, all items accounted for, a
quality report that is acceptable lost nothing it is measured on, and to know more of a claim does
not rank it lower (`PackKeepsWhatItMust`).

**Bounds.** Three objects with pages of one give a first, a middle and a last page, a page boundary
inside the feed, and an arrival during a run. Two runners are what an overlap needs; one fault puts a
failure, a crash or a cancellation at every point. A bundle of three holds an edge and both its
ends, or an observation with its artefact and its observer; `MaxFanOut = 3` is exceeded by two
relationships of a two-alternative indicator, `MaxRecords = 6` by an observation of two artefacts
beside the objects that name them, and a batch of two lets the second document fail when the first is
prepared or written. Two connections with two calls each and three transactions reach every order of
read, write and commit, including a third transaction that finds what two racing ones left. Three
migrations give a half-done upgrade that is neither empty nor complete. Five edges hold a cycle, a
parallel pair and a path longer than the depth budget, and the six budgets make each of depth, nodes,
edges and fan-out the one that binds, met exactly and by one; one import adds an edge to a node, or
takes one from the reader's sight and brings another in force. Two commits are one more than it takes
to tear a pack. Each sample set of `MCLaws` is built around the bounds at the head of its module: one
below, at and one above. `MaxPages`, `MaxTxns`, `MaxCalls`, `MaxUpserts`, `MaxFaults`, `MaxDepth`,
`MaxCommits`, `MaxImports`, `MaxHistory`, `MaxTokens`, `MaxSteps` are the bounds of exploration; each stands in a
guard under that name. Runs that do not check for deadlock are of systems that come to rest: their
transactions, openers, batches, walks and requests are finite in number.

**Fairness.** `FairSpec` of the syncs lets a run that is going take its steps (the code blocks on
nothing but a request, which has a time-out, and a write, which has one too), lets the server publish
what it has, and lets runs be started again, which is what a scheduler does with `brolga fetch`.
`FairSpec` of `IngestPipeline` says the same of one batch: `ingest_batch` runs to its end, and a sync
whose cursor did not move offers the page again. `Migrations` assumes that a failed open is tried
again. Faults, crashes and cancellations are never fair. The other runs state safety only.

### Where the code and its documentation disagree

Four runs expect a violation; each is a finding in PROJECT.json with the sentence it contradicts.

| Run | Disagreement |
|---|---|
| `OpenCtiTied` | objects that share a timestamp across a page boundary are skipped, and the run is complete; the same happens without a tie where `updated_at`, of which the mark is made (`opencti.rs:220-229`), is later than the `modified` (`transport.rs:182-186`) of an object not yet listed: give the run's `Updated` a value that reaches a later version's `Modified` |
| `RetentionHeldPostgres` | over PostgreSQL a hold set between the read and the delete of a release is not respected |
| `PackTimed` | two packs of the same reads have different fingerprints, because a handle carries the instant it was issued at |
| `PackTorn` | a pack joins reads of two versions of the graph, and so do the counts of `stats`: the lock that is to prevent it is of one process |

Five more are stated in the modules and can be had by naming the property in a copy of the run's
configuration:

* `TaxiiSync.RecordsAndCursorTogether`: records and cursor are two transactions (`sync.rs:289`,
  `:322`), not one (`sync.rs:5`, `cursor.rs:8`, `sqlite.rs:1493`); a crash between them costs a
  repeated page and `CursorNeverAheadOfStore` shows that it costs no more;
* `TaxiiSync.FeedCaughtUp` with `Version = "V20"`: the range of `taxii.rs:19` is never sent, so a
  2.0 server's second page is never fetched; with tags the unchanged page is then read as 304, so that
  `CompleteCoversFeed` fails as well, which is why its theorem asks for 2.1;
* `RetentionStore.RefusalIsAudited`: the audit entry of a refusal (`blob.rs:26`) is rolled back with
  it (`sqlite.rs:1530`);
* `Serving.AllRecordsWithheld`: "records are withheld before a single string is built"
  (`assemble.rs:15`, `context.rs:205`) and a file is cleared before it leaves (`export/src/lib.rs:12`),
  but only claims and edges are partitioned: sightings and the entities at both ends of every edge that
  was read, withheld ones included, go into the pack as they are (`context.rs:177`,
  `assemble.rs:155`), and the markings a file is cleared by are those of claims and edges
  (`assemble.rs:296`);
* `IngestPipeline.PermissiveSparesTheRest` with `Feeds <- NamesakeFeeds`: an edge between two objects
  of one kind and name refuses the whole bundle in permissive mode (`pipeline.rs:47`), on every retry.
  An original over the retention limit refuses its batch likewise; that is said to be meant
  (`pipeline.rs:578`), and `UnobstructedFeedLands` counts it among the obstructions.

Others were met while modelling. The model does what the code does:

* syncs: a cancellation while a page is being ingested ends the run as an error with a `Failed`
  cursor (`sync.rs:293`), where `cursor.rs:34` speaks of `Partial`; a run resumed after its page bound
  sends its stored tag with a later page, and a server whose tags identify the collection answers 304,
  which reads as complete (`TagScope = "collection"`); a page of older objects moves the high-water
  mark back when the server lists in another order than that of its timestamps (`sync.rs:308`);
  an object added late, behind a mark already taken, is never asked for (`NoLateArrival` rules it out
  of the properties); objects of a poll without an `updated_at` that ends in `Z` leave the mark where it
  is, and where they fill the pages of a run, or the server does not move its cursor, the poll lists
  them again for good and `FeedCaughtUp` fails;
  objects of a poll that do not render are only in a count that a later failure discards;
* STIX: a name with control characters, or longer than the field limit, is one node to
  `collect_nodes` and another or none to `map_entity` (`stix.rs:1282`, `:506`), so an edge naming it
  dangles in the store and rolls the batch back on every retry (`Drifts`);
* store: `upsert_sighting` checks its subject and not its observer (`sqlite.rs:1447`); over PostgreSQL
  a no-op of two racing imports may move the version; SQLite's `upsert_source_object` says `Updated`
  of an insert; `record_graph_decision` keeps the first policy context of a decision taken again;
* identity: a merge of an identity absorbed before overwrites what absorbed it, and a split then
  undoes the later merge (`resolve.rs:388`, `:403`); corroboration depends on the order of arrival,
  where the test at `dedup.rs:438` shows one order;
* assessment: a record of a kind that never decays keeps its standing when revoked or expired;
  a future `observed_at` has no age to `confidence.rs:681` and lends nothing to `decay.rs:52`;
* checkpoints: `retrieval_metadata` is named as excluded and is part of the rendered sources;
* packs: `exhausted` compares what was left after withholding with what was asked for
  (`assemble.rs:138`), so a cut pack with something withheld, or with a budget above the page limit,
  is not exhausted; "nothing is stored" is also said when all was withheld (`assemble.rs:105`); a
  claim longer than 2048 bytes makes every summary pack of its subject invalid (`pack.rs:689`);
* quality: contradictions that were found rather than lost, more after than before, are reported as
  dropped, unless there are more than two and a half times as many (`quality.rs:148`, `:171`);
* export: STIX and text leave records out that they do not declare lost (`stix.rs:246`);
* formats: a formula flag replaces the value it is said to accompany (`delimited.rs:537`); a byte
  order mark shifts the recorded offsets (`delimited.rs:766`); a first row of ambiguous values is
  taken for a header (`delimited.rs:420`); a prefix that ends inside a character is no text at all
  (`detect.rs:81`); an empty XML element is not counted by the depth bound (`xml.rs:185`); a mapping
  path into XML with an index above 0 selects nothing (`path.rs:427`);
* model: `Relationship::new` makes a self-edge that the reader refuses (`relationship.rs:219`,
  `:248`); a URL may be 8192 bytes to the canonicaliser and 4096 to the model;
* configuration: attributions outlive the leaves they are of (`layer.rs:114`); a later layer that
  gives a secret another source merges both and cannot be read (`layer.rs:150`); the check for a
  contradictory section can never fire (`profile.rs:594`); shares are summed in 32 bits
  (`profile.rs:372`);
* queries: `kind = a and kind = b` admits either kind, since `merge_and` unites what its sides admit
  (`compile.rs:78`), while `or` is refused; `max_depth` bounds the comparisons of a flat conjunction,
  which nests to the left; `max_result_limit` is read by nothing (`limits.rs:11`), where STORAGE.md:55
  says that limits cover the page of results;
* canonicalisation: `mod.rs:14-20` says that `canonicalise(canonicalise(x)) == canonicalise(x)` for
  every canonicaliser; `file_path` prefixes the family (`file.rs:194-213`), so `windows:C:\x` read again
  is the POSIX path `posix:windows:C:\x`, with another identity. The property test at
  `canon_property.rs:195` reads the body without its prefix, and only that holds;
* network: `network.rs:19-26` asks for the resolved address to be checked immediately before connecting,
  so that a name cannot be moved between check and use; `check_url` resolves the host
  (`transport.rs:317-329`), the HTTP client resolves it again, and `transport.rs:25-28` admits that the
  two may differ. `Guards` has both lookups, and `NothingPassesTheGuards` says that an address the policy
  refuses is reached exactly where they do;
* tokens: a budget too large for the clock is no deadline (`cancel.rs:115`).

## 4. What is proved

Theorems are for every value of the constants that the named `ASSUME`s of the modules admit: sizes are
natural numbers, page sizes positive, feeds sequences of batches of documents, graphs finite, a value
that stands for "none" unlike every other. TLC evaluates the assumptions in every run. Induction over
numbers is by sets: `LeastNumber` (a set of naturals has a least member) is shown from the library's
well-foundedness of finite sets, and whatever a recursive function computes is shown from it.

### `TaxiiSync_proofs`

* `TypeCorrect`: `Spec => []TypeOK`.
* `CursorSafe`: under `NoLateArrival`, `Spec => []CursorNeverAheadOfStore`. The property is not
  inductive: a run may be holding an old cursor, a page not yet stored, or a page stored and not yet
  claimed. `IInv` adds that every run's own cursor and the position it will send are safe
  (`RunSound`), and that a page in hand leaves nothing out between its position and its end
  (`PageSound`). One lemma says that advancing over an ingested page is safe; that is where
  `NoLateArrival` is used. One step per action shows the rest.
* `CompletenessSafe`: under `NoLateArrival` and `TagsTrusted` (conditional requests, if any, are made
  with tags of the response to a server of TAXII 2.1), `Spec => []CompleteCoversFeed`. What is added is
  `TagsHonest`: a tag in a cursor is of a page whose objects are in the store, and if that page
  promised more, the cursor has passed one of its objects, so that the page cannot be the answer again.
* `ImplementsCopy`: under `NoLateArrival`, `Spec => CopySpec`, from `IInv` and one step per action.

### `OpenCtiSync_proofs`

The same four for the poll (`TypeCorrect`, `MarkSafe`, `CompletenessSafe`, `ImplementsCopy`), under
`MarksSeparate`: no version's `updated_at`, which becomes the mark, reaches the `modified` of a later
version, which the mark is compared with. Nothing in the code sees to that; the run `OpenCtiTied` shows
that it is needed. An `updated_at` earlier than its `modified`, or one that cannot be a mark at all, is
allowed. `Sound` says of a mark that it is the `updated_at` of something published, or none (`Handed`),
and that whatever is current and not after it is in the store (`Covered`); an update moves its object to
the end, where no mark has been. A page without a mark moves the GraphQL cursor and not the mark, so
`RunSound` says of that cursor by itself that it has passed nothing that is not in the store (`Passed`).

### `IngestPipeline_proofs`

* `BatchesWhole`: `Spec => []OnlyLandedIsStored`, and `RecordsBacked`: `Spec =>
  []EvidenceBacksRecords`. Neither is inductive, because what `Commit` publishes is the transaction's
  view. `IInv` says of that view what the properties say of the store, over the batches that landed
  and the documents on offer (`Evidence`), and ties the reports, the records still to be written and
  the stage to each other (`InStep`): once the evidence is written the reports are those of the whole
  batch, and every record still to be written belongs to the report at hand. `CommitKeeps` is where
  the documents on offer become landed ones.
* `ObjectsAccounted`: `Spec => []EveryObjectAccounted`. `Written` adds that what the transaction has
  not yet written of a report is still to be written; lemmas about `Parse` say that each object is a
  marking, gives its record, or is rejected, and that only the permissive mode rejects.
* `OrderDecidesNothing`: `Spec => []MappingIgnoresOrder`, for bundles of any length. Where identifiers
  are distinct an identifier stands for its one bearer wherever that is, so nodes and names are the same
  in each order; and no order refuses more for its fan-out, because the edges counted before any
  relationship are among those counted before the last.

### `Transactions_proofs`, `GraphCapture_proofs`, `RetentionStore_proofs`

`Transactions_proofs` holds what both stores need (`TxnInv`, and what each operation keeps of it): a
transaction that has written nothing owns nothing (`OwnsWhatItWrote`); over SQLite one writes at a time,
and one that is not stale sees the committed table (`OneWriter`); over PostgreSQL a row that one
transaction wrote is written by no other until it ends (`OneWriterPerRow`).

* `TypesHold`; `NoEdgeDangles`: `Spec => []NoDanglingEdge`. An edge that a transaction wrote or is
  about to write has its ends committed or among its own rows (`EndsBacked`), and a record seen or
  written is never removed (`RecordsStay`), so an end that was there when it was looked for is there
  at commit.
* `EveryChangeCounted`: `Spec => []NoChangeUncounted`. `Counted`: the version a transaction will
  publish is ahead of the committed one by the changes it made, at least, and exactly in one file,
  where what a call read still is what its transaction sees (`SeenStands`).
* `VersionIsAFence`, an action property: a step that leaves the version leaves the graph. On it
  rests `CurrentIsHonest`: `Spec => []StillCurrentIsHonest`. `WalkSound` says that while no change
  was committed since a capture began, what it found so far is `Reached` of the one graph there is;
  what `Reached` is at each depth is shown by induction.
* `TypesHold`, `TrailBalances` (`Spec => []AuditBalances`), `HeldIsKept` and `FoundIsHeld` (the
  action properties `HeldEvidenceKeptInFile` and `DeduplicatedIsHeld`). `WillBalance` balances the
  trail with what an open transaction will leave on the shelf; in one file no open transaction
  touched what is on hold, unless it set or lifted the hold itself (`HoldStands`), and what one
  found is there (`FoundStands`); only a transaction that writes has entries to commit
  (`WritersLog`).

### `Reads_proofs`

* Migrations: `SchemaTypes`, `SchemaSound`, `OpenedSound`. `SchemaInv` is the types, the two
  properties, that rows are contiguous from 1, and `Knows(p)`: what an opener has verified stays true
  although others apply migrations behind its back. `ApplyKeeps` carries the argument: the row an
  opener adds directly follows rows it has verified or that were added since, and the primary key
  stops it otherwise.
* Serving: `StampIsHonest`, `WithheldHolds`, `CutsAreTold`, `SpreadHolds`, `ListingsComplete`,
  together every property of the run. `IInv` says that the history ends in the store, as many versions
  as it is long (`Kept`); that what a request read is of some version of it, its edges no earlier than
  its claims and, once the version was read, neither later than that (`Traced`, `ReadsAt`, `Answers`);
  that the entities read are at ends of the edges read (`NamesEnds`);
  and that what was there when a listing began was listed or is still ahead of the page (`ListsAt`,
  `Listed`). `RankIn` counts what precedes an entity in the order of identifiers, so that a page that
  begins at an offset skips none of those that only moved back.
* Walk: `WalksStayInside`, `CompleteWalks`. `WalkInv`: each node stands at the depth it was reached
  (`Placed`), which `Within` also reaches over the rows there were (`Led`); depths are gone down to only
  with a node more (`Grown`); and while nothing was cut off, whatever is within the depth over the rows
  that stay is visited and what of them a node already expanded opens to is collected or still to be
  looked at (`Exact`). An import makes the rows there were more and those that stay fewer
  (`ImportKeeps`), and over more rows no less can be reached (`WithinMore`); a row that stays is the only
  one of its id (`SameRow`), so meeting it again does not replace it.

### `Laws_proofs`

* `TokensStopWithParents`: `LawsSpec => []StopsWithItsParent`. The recursive function of `Line` climbs
  as often as there are tokens; since a parent is older than its child (`TokenKept`), that is enough to
  be closed under parents, so a child has every deadline and every cancellation its parent has.
* `GuardsHold`: `LawsSpec => []NothingPassesTheGuards`, for fetches of any length and lines of any
  number of values. `OnItsWay` is the invariant of a fetch after `n` turns: while it goes on it has
  followed `n` redirects, which the policy bounds, so it ends; every place it sent to was checked, and
  the request went where the second lookup said, which need not be one of the addresses checked; the
  place it goes to next is not down from a secure one unless that is allowed. `SamplesAssumption` says
  what a sample is: places have replies, an address is of one kind.
* `IdentitiesAreReviewed`: `LawsSpec => []IdentityIsReviewed`, for any length of the history and any
  records. `InForce` says of each pin, rejection and merge that it is in force exactly when the last
  operation about it said so; one more operation is the last about what it is about and changes
  nothing else. `Reviewed` says merges only go downwards and are finitely many, so a chain of
  merges leaves fewer absorbed identities below it at every step and ends at one that nothing
  absorbed (`CanonicalIsFixed`). Along any line of observations the publishers that corroborate are
  never more than the contents met so far, and a line observed again brings no content that was
  not there. What is denied is denied by some one marking (`AllowedFacts`), and since ranks are
  bounded some marking is the most restrictive (`MostIsThere`). Assumed of the samples: records have
  identifiers of `Ids`, and an identity's ceiling is a level this build knows.
* `TablesAnswer`: `LawsSpec => []TablesAnswerForCalls`, for any number of calls. The tables say what
  the list of calls says, so `TablesKept` relates each row to the calls about its key: the calls are
  well formed (`CallsListed`), a quarantined row has counted each of them and carries the instants of
  the first and the last (`FailuresKept`), a decision has the verdict of the last call under its key
  and the actor of all of them (`DecisionsKept`), a label that was ever refused is refused from then
  on (`LabelsKept`), a checkpoint is there exactly if the last call about its name put it
  (`CheckpointsKept`). The sum of a column is a disjoint union of intervals, whose size is added up
  row by row. For listings, `RankedFacts` shows that `Ranked` lists a finite set once each in
  any order that is total on it (each element has a rank, and by counting each rank an element),
  `ById` and `ByNewest` are such orders, and `PagesAreWhole` that pages of a sequence, one after the
  other, are the sequence, whatever the page size. Assumed of the samples: a table is finite, a row
  was seen at an instant or never, and a file has a length.
* `BuiltRecordsReadBack`: `LawsSpec => []BuiltReadsBack`, for any steps, citations and originals.
  `BuildKept` is the builder's invariant: a provenance is readable and, what makes that inductive,
  has no generated content, so that what it cites is its own evidence, and originals of finitely
  many fields. A name is taken apart from its beginning. The text of a number is digits (`DecimalIs`
  is the equation of the recursive `Decimal`, which two texts of different bounds share:
  `TextsAgree`) and tells the number (`DecimalTells`); of two names that are one, the first colon
  ends both lengths, so the lengths are one and the first parts are (`PrefixesTell`), and so on along
  the parts (`SpelledFurther`). Identities tell what a record states class by class; a relation that
  has no direction stands for its ends both ways (`RelationTells`). Assumed of the samples: texts are
  sequences, instants and counts are numbers, an assertion has the fields of its kind, and no observer
  is called `-`, as none is whose identifier is a kind and a UUID.

### What is only model-checked

* Liveness under fairness (`FeedCaughtUp`, `EveryRunEnds`, the landing of a feed, the completion of a
  racing upgrade), which the proof system does not reach.
* The laws of `Readings` (`ComparisonIsExact`, `NothingIsGuessed`, `CanonicalFormIsStable`,
  `MappingAccounts`, `WhatIsSaidLastHolds`, `AssessmentsHold`, `PackKeepsWhatItMust`): what parsers,
  canonicalisers and sorted or nested algorithms compute over sequences of sequences, by recursive
  operators or by `SortSeq`, of which the provers know nothing.

Some definitions have the form they have so that they can be reasoned about, and compute what they
would otherwise: expressions of `QueryLanguage` carry their depth and are read by a recursive
function over positions and levels; the turns of a fetch, the line of a token, the trust of a line
of values, the lineage of a line of observations and the text of a number are recursive functions
on a bounded range.
Sorting by the library's `SortSeq` says nothing to the provers, so `Ranked` of `StoreReads`, on
which `ById` and `ByNewest` rest, takes each identifier at its rank, and the order of `ByNewest`
(`Newer`) is stated as two disjoint cases; `Partition` of `Policy` is a recursive function for the
same reason, and the fan-out of `StixParser` counts a set of edges.

## 5. Not modelled, and the plan

PROJECT.json gives the reason for every component that is not or only partly modelled. In short: text
(the characters of tokens, number and date formats, punycode, SQL, the layout of output), I/O
(files, sockets, TLS), compression and hashing as such, the two version probes, the concurrency limit
and the shutdown of the server.

Still worth doing, in order:

1. proofs: comparisons of `Checkpoints`, the assessments;
2. a sync composed with `IngestPipeline` in place of its one-step ingestion, so that a page refused
   for ever shows in the feed's coverage;
3. concurrent requests of one server with its concurrency limit and shutdown.

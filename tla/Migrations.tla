---------------------------- MODULE Migrations -----------------------------
(***************************************************************************)
(* IntelligenceStore::migrate, run by every process that opens a store     *)
(* (OpenedStore::open): two commands started together on a fresh database, *)
(* an upgrade that meets an old binary, a process that dies half way, a    *)
(* build whose released migrations were edited.                            *)
(*                                                                         *)
(* A migration is its checksum.  Its statements and its row of             *)
(* brolga_schema_migrations commit in one transaction, and the primary key *)
(* of that table admits one row per identifier, so the rows are the        *)
(* schema.  A build ships migrations 1, 2, ...; every statement of migrate *)
(* outside a migration's own transaction sees the database as it is then.  *)
(***************************************************************************)
EXTENDS Naturals

CONSTANTS
  Openers,       \* processes opening the store
  LastId,        \* the highest identifier any build ships
  Checksums,
  NotApplied,    \* no row
  Latest,        \* latest_version of the build each opener runs
  Ships,         \* MIGRATIONS of that build: Ships[p][id]
  MaxFaults      \* bound on crashes and refused statements

Ids == 1..LastId

ASSUME MigrationsAssumption ==
  /\ LastId \in Nat /\ MaxFaults \in Nat
  /\ NotApplied \notin Checksums
  /\ Latest \in [Openers -> 0..LastId]
  /\ Ships \in [Openers -> [Ids -> Checksums]]

VARIABLES
  recorded,      \* brolga_schema_migrations: the checksum of each row
  pc,            \* closed, version, verify, apply
  from,          \* from_version
  at,            \* the migration the loop is at
  outcome,       \* what the last call returned
  faults

vars == <<recorded, pc, from, at, outcome, faults>>

Outcomes == {"none", "ok", "too_new", "changed", "failed"}

Fault == faults < MaxFaults /\ faults' = faults + 1

(* schema_version: MAX(id), 0 on an empty table.                           *)
IsVersion(v) ==
  /\ v = 0 \/ (v \in Ids /\ recorded[v] # NotApplied)
  /\ \A i \in Ids : i > v => recorded[i] = NotApplied

-----------------------------------------------------------------------------
Returns(p, result) ==
  /\ pc' = [pc EXCEPT ![p] = "closed"]
  /\ from' = [from EXCEPT ![p] = 0]
  /\ at' = [at EXCEPT ![p] = 0]
  /\ outcome' = [outcome EXCEPT ![p] = result]

(* CREATE TABLE IF NOT EXISTS.                                             *)
OpenStore(p) ==
  /\ pc[p] = "closed"
  /\ outcome[p] # "ok"
  /\ pc' = [pc EXCEPT ![p] = "version"]
  /\ outcome' = [outcome EXCEPT ![p] = "none"]
  /\ UNCHANGED <<recorded, from, at, faults>>

ReadSchemaVersion(p) ==
  /\ pc[p] = "version"
  /\ \E v \in 0..LastId :
       /\ IsVersion(v)
       /\ IF v > Latest[p]
          THEN Returns(p, "too_new")
          ELSE /\ pc' = [pc EXCEPT ![p] = "verify"]
               /\ from' = [from EXCEPT ![p] = v]
               /\ at' = [at EXCEPT ![p] = 1]
               /\ UNCHANGED outcome
  /\ UNCHANGED <<recorded, faults>>

(* Mutant: a row that is there is taken to be the right one.               *)
AgreesAnyway(p, i) == TRUE

(* Every migration of the build, also those above from_version.            *)
Agrees(p, i) == recorded[i] = NotApplied \/ recorded[i] = Ships[p][i]

Verify(p) ==
  /\ pc[p] = "verify"
  /\ at[p] <= Latest[p]
  /\ IF Agrees(p, at[p])
     THEN at' = [at EXCEPT ![p] = @ + 1] /\ UNCHANGED <<pc, from, outcome>>
     ELSE Returns(p, "changed")
  /\ UNCHANGED <<recorded, faults>>

(* Mutant: the loop starts at from_version instead of after it.            *)
VerifiedFromVersion(p) ==
  /\ pc[p] = "verify"
  /\ at[p] > Latest[p]
  /\ pc' = [pc EXCEPT ![p] = "apply"]
  /\ at' = [at EXCEPT ![p] = IF from[p] = 0 THEN 1 ELSE from[p]]
  /\ UNCHANGED <<recorded, from, outcome, faults>>

Verified(p) ==
  /\ pc[p] = "verify"
  /\ at[p] > Latest[p]
  /\ pc' = [pc EXCEPT ![p] = "apply"]
  /\ at' = [at EXCEPT ![p] = from[p] + 1]
  /\ UNCHANGED <<recorded, from, outcome, faults>>

(* Mutant: INSERT OR IGNORE over CREATE .. IF NOT EXISTS.                  *)
ApplyIfAbsent(p) ==
  /\ pc[p] = "apply"
  /\ at[p] <= Latest[p]
  /\ recorded' = [recorded EXCEPT ![at[p]] =
                    IF @ = NotApplied THEN Ships[p][at[p]] ELSE @]
  /\ at' = [at EXCEPT ![p] = @ + 1]
  /\ UNCHANGED <<pc, from, outcome, faults>>

Apply(p) ==
  /\ pc[p] = "apply"
  /\ at[p] <= Latest[p]
  /\ recorded[at[p]] = NotApplied
  /\ recorded' = [recorded EXCEPT ![at[p]] = Ships[p][at[p]]]
  /\ at' = [at EXCEPT ![p] = @ + 1]
  /\ UNCHANGED <<pc, from, outcome, faults>>

(* Another process applied it since from_version was read: CREATE TABLE,   *)
(* or at the latest the primary key, refuses.                              *)
ApplyCollides(p) ==
  /\ pc[p] = "apply"
  /\ at[p] <= Latest[p]
  /\ recorded[at[p]] # NotApplied
  /\ Returns(p, "failed")
  /\ UNCHANGED <<recorded, faults>>

FinishOpening(p) ==
  /\ pc[p] = "apply"
  /\ at[p] > Latest[p]
  /\ Returns(p, "ok")
  /\ UNCHANGED <<recorded, faults>>

(* A statement is refused (busy, disk full), or the process dies: the      *)
(* migration in progress is rolled back, those before it stay.             *)
Fails(p) ==
  /\ pc[p] # "closed"
  /\ Fault
  /\ Returns(p, "failed")
  /\ UNCHANGED recorded

Init ==
  /\ recorded = [i \in Ids |-> NotApplied]
  /\ pc = [p \in Openers |-> "closed"]
  /\ from = [p \in Openers |-> 0]
  /\ at = [p \in Openers |-> 0]
  /\ outcome = [p \in Openers |-> "none"]
  /\ faults = 0

Step(p) ==
  \/ ReadSchemaVersion(p) \/ Verify(p) \/ Verified(p)
  \/ Apply(p) \/ ApplyCollides(p) \/ FinishOpening(p)

Next == \E p \in Openers : OpenStore(p) \/ Step(p) \/ Fails(p)

Spec == Init /\ [][Next]_vars

(* An open that failed is tried again.                                     *)
FairSpec == Spec /\ \A p \in Openers : WF_vars(Step(p)) /\ WF_vars(OpenStore(p))

-----------------------------------------------------------------------------
TypeOK ==
  /\ recorded \in [Ids -> Checksums \union {NotApplied}]
  /\ pc \in [Openers -> {"closed", "version", "verify", "apply"}]
  /\ from \in [Openers -> 0..LastId]
  /\ at \in [Openers -> 0..(LastId + 1)]
  /\ outcome \in [Openers -> Outcomes]
  /\ faults \in 0..MaxFaults

IsPrefixOf(p) ==
  \A i \in Ids :
    recorded[i] # NotApplied =>
      /\ i <= Latest[p] /\ recorded[i] = Ships[p][i]
      /\ \A j \in 1..i : recorded[j] # NotApplied

(* migration.rs: a fresh database and an upgraded one "must end up         *)
(* identical".  However openers of different builds interleave, fail or    *)
(* die, the schema is the first migrations, in order, of one of them.      *)
SchemaIsOneBuilds ==
  (\E i \in Ids : recorded[i] # NotApplied) => \E p \in Openers : IsPrefixOf(p)

(* An open that returns Ok leaves its caller on a schema that holds every  *)
(* migration of the caller's build, as that build ships it.                *)
OpenedOnItsSchema ==
  \A p \in Openers :
    outcome[p] = "ok" => \A i \in 1..Latest[p] : recorded[i] = Ships[p][i]

(* Openers that collide fail and come back, and the upgrade gets done: in  *)
(* the end a build that ships every identifier is on a schema of its own,  *)
(* whatever the others did to it meanwhile.                                *)
UpgradeCompletes ==
  <>(\E p \in Openers : Latest[p] = LastId /\ outcome[p] = "ok")
=============================================================================

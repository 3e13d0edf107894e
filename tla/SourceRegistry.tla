-------------------------- MODULE SourceRegistry --------------------------
(***************************************************************************)
(* ingest/sources.py: descriptors, files an operator edits, become rows of  *)
(* `sources' and `authorities'.  sync_sources goes over all files in one      *)
(* transaction; sync_source of ingest/crawl.py upserts the row of its source *)
(* in the transaction that stays open for the whole crawl.  Transactions are *)
(* READ COMMITTED: a write waits for the one that holds the row, then goes   *)
(* on with what it had read before.                                          *)
(***************************************************************************)
EXTENDS Integers, FiniteSets, FiniteSetsExt

CONSTANTS
    RegistryKeys,           \* source keys, in the order of their paths
    RegistryDescriptors,    \* what a descriptor may say
    RegistryTask,           \* RegistryTask[j]: the key job j crawls; 0: it is sync_sources
    RegistryEdits,          \* bound: edits of descriptors
    RegistryNone            \* no file, no row, no authority

ASSUME RegistryAssumption ==
    /\ RegistryKeys \subseteq Nat \ {0}
    /\ \A d \in RegistryDescriptors :
         DOMAIN d = {"authority", "enabled", "rest"} /\ d.enabled \in BOOLEAN
    /\ \A j \in DOMAIN RegistryTask : RegistryTask[j] \in RegistryKeys \cup {0}
    /\ RegistryEdits \in Nat
    /\ RegistryNone \notin RegistryDescriptors
    /\ \A j \in DOMAIN RegistryTask, d \in RegistryDescriptors : <<j, d.authority>> # RegistryNone
    /\ RegistryNone \notin
         [authority : (DOMAIN RegistryTask) \X {d.authority : d \in RegistryDescriptors}
                        \cup {RegistryNone},
          enabled : BOOLEAN, descriptor : RegistryDescriptors]

VARIABLES
    registryFiles,  \* registryFiles[k]: the descriptor of k
    sourceRows,     \* sourceRows[k]: the committed row
    authorityRows,  \* committed authorities: who made them, and their name
    registryJobs,   \* the jobs
    registryEdits   \* history: edits so far

registryVars == <<registryFiles, sourceRows, authorityRows, registryJobs, registryEdits>>

RegistryJobIds == DOMAIN RegistryTask
RegistryTx == {"read", "name", "write", "open"}

\* todo: keys to go through; loaded, data, authority: what was read for the next write;
\* rows, authorities: written and not committed; quiet is history: no edit and no other
\* job met this one.
RegistryIdle ==
    [pc |-> "idle", todo |-> {}, loaded |-> RegistryNone, data |-> RegistryNone,
     authority |-> RegistryNone, rows |-> [k \in RegistryKeys |-> RegistryNone],
     authorities |-> {}, quiet |-> TRUE]

RegistryInit ==
    /\ registryFiles \in [RegistryKeys -> RegistryDescriptors \cup {RegistryNone}]
    /\ sourceRows = [k \in RegistryKeys |-> RegistryNone]
    /\ authorityRows = {}
    /\ registryJobs = [j \in RegistryJobIds |-> RegistryIdle]
    /\ registryEdits = 0

RegistryTypeOK ==
    /\ registryFiles \in [RegistryKeys -> RegistryDescriptors \cup {RegistryNone}]
    /\ \A k \in RegistryKeys : sourceRows[k] = RegistryNone \/
         /\ sourceRows[k].descriptor \in RegistryDescriptors
         /\ sourceRows[k].authority \in authorityRows \cup {RegistryNone}
    /\ \A a \in authorityRows : a[1] \in RegistryJobIds
    /\ \A j \in RegistryJobIds :
         /\ registryJobs[j].pc \in RegistryTx \cup {"idle", "done", "failed"}
         /\ registryJobs[j].todo \subseteq RegistryKeys

Job(j) == registryJobs[j]
RegistryBusy(j) == Job(j).pc \in RegistryTx

\* Job j goes on to `next'; while two are busy, neither is quiet.
RegistryGoes(j, next) ==
    LET met == next.pc \in RegistryTx /\ \E i \in RegistryJobIds \ {j} : RegistryBusy(i)
    IN  registryJobs' = [i \in RegistryJobIds |->
            LET job == IF i = j THEN next ELSE Job(i)
            IN  IF met /\ job.pc \in RegistryTx THEN [job EXCEPT !.quiet = FALSE] ELSE job]

RegistryRolledBack == [RegistryIdle EXCEPT !.pc = "failed"]

RegistryFail(j) ==
    /\ RegistryGoes(j, RegistryRolledBack)
    /\ UNCHANGED <<registryFiles, sourceRows, authorityRows, registryEdits>>

RegistryGoesOn(j, next) ==
    /\ RegistryGoes(j, next)
    /\ UNCHANGED <<registryFiles, sourceRows, authorityRows, registryEdits>>

RegistryEdit(k, d) ==
    /\ registryEdits < RegistryEdits
    /\ d # registryFiles[k]
    /\ registryFiles' = [registryFiles EXCEPT ![k] = d]
    /\ registryEdits' = registryEdits + 1
    /\ registryJobs' = [j \in RegistryJobIds |->
            IF RegistryBusy(j) THEN [Job(j) EXCEPT !.quiet = FALSE] ELSE Job(j)]
    /\ UNCHANGED <<sourceRows, authorityRows>>

\* load_config looks for the file of a key and raises when there is none.
RegistryConfigured(k) == registryFiles[k] # RegistryNone

\* A crawl is refused when the file disables the source.
RegistryCrawlable(k) == RegistryConfigured(k) /\ registryFiles[k].enabled

RegistryStart(j) ==
    /\ Job(j).pc = "idle"
    /\ IF RegistryTask[j] = 0
       THEN RegistryGoesOn(j, [Job(j) EXCEPT !.pc = "read",
                !.todo = {k \in RegistryKeys : registryFiles[k] # RegistryNone}])
       ELSE IF RegistryCrawlable(RegistryTask[j])
       THEN RegistryGoesOn(j, [Job(j) EXCEPT !.pc = "read", !.todo = {RegistryTask[j]}])
       ELSE RegistryFail(j)

RegistryKey(j) == Min(Job(j).todo)

\* The row of k as job j sees it, and the authorities of a name.
RegistryRow(j, k) == IF Job(j).rows[k] # RegistryNone THEN Job(j).rows[k] ELSE sourceRows[k]
RegistryNamed(j, name) == {a \in authorityRows \cup Job(j).authorities : a[2] = name}

\* upsert_descriptor_row reads the descriptor and the row,
RegistryRead(j) ==
    /\ Job(j).pc = "read" /\ Job(j).todo # {}
    /\ LET k == RegistryKey(j)
           d == registryFiles[k]
       IN  IF d = RegistryNone
           THEN IF \/ RegistryTask[j] = 0 \/ sourceRows[k] = RegistryNone
                   \/ ~sourceRows[k].enabled
                THEN RegistryFail(j)
                ELSE RegistryGoesOn(j, [Job(j) EXCEPT !.pc = "open", !.todo = {}])
           ELSE RegistryGoesOn(j, [Job(j) EXCEPT !.pc = "name", !.data = d,
                                                 !.loaded = RegistryRow(j, k)])

\* then the authority the descriptor names, if it names one: one_or_none raises when
\* there are two, and one that is not found is inserted.
RegistryName(j) ==
    /\ Job(j).pc = "name"
    /\ LET name == Job(j).data.authority
           named == RegistryNamed(j, name)
           a == IF named = {} THEN <<j, name>> ELSE CHOOSE n \in named : TRUE
       IN  IF name = RegistryNone
           THEN RegistryGoesOn(j, [Job(j) EXCEPT !.pc = "write", !.authority = RegistryNone])
           ELSE IF Cardinality(named) > 1 THEN RegistryFail(j)
           ELSE RegistryGoesOn(j, [Job(j) EXCEPT !.pc = "write", !.authority = a,
                                     !.authorities = @ \cup ({a} \ authorityRows)])

\* Mutant: a switch in the descriptor does not reach a row that is there.
RegistryColumnsKept(j) ==
    [authority |-> Job(j).authority, enabled |-> Job(j).loaded.enabled, descriptor |-> Job(j).data]
\* What an existing row is to become.
RegistryColumns(j) ==
    [authority |-> Job(j).authority, enabled |-> Job(j).data.enabled, descriptor |-> Job(j).data]

\* Only columns that differ from the row that was read are written.
RegistryUpdated(j, row) ==
    [c \in DOMAIN row |->
        IF RegistryColumns(j)[c] # Job(j).loaded[c] THEN RegistryColumns(j)[c] ELSE row[c]]

\* and writes: the INSERT or UPDATE, or nothing when nothing differs.  A crawl is
\* given up when the row says the source is disabled.
RegistryWrite(j) ==
    /\ Job(j).pc = "write"
    /\ LET k == RegistryKey(j)
           held == \E i \in RegistryJobIds \ {j} : Job(i).rows[k] # RegistryNone
           inserts == Job(j).loaded = RegistryNone
           same == ~inserts /\ RegistryColumns(j) = Job(j).loaded
           row == IF inserts THEN [authority |-> Job(j).authority, enabled |-> Job(j).data.enabled,
                                   descriptor |-> Job(j).data]
                  ELSE RegistryUpdated(j, RegistryRow(j, k))
       IN  /\ held => same
           /\ IF inserts /\ sourceRows[k] # RegistryNone THEN RegistryFail(j)
              ELSE IF RegistryTask[j] # 0 /\ ~Job(j).data.enabled THEN RegistryFail(j)
              ELSE RegistryGoesOn(j, [Job(j) EXCEPT !.todo = @ \ {k},
                        !.rows = IF same THEN @ ELSE [@ EXCEPT ![k] = row],
                        !.pc = IF RegistryTask[j] = 0 THEN "read" ELSE "open"])

\* The end of session_scope; a crawl ends whenever it ends.
RegistryCommit(j) ==
    /\ Job(j).todo = {}
    /\ Job(j).pc = (IF RegistryTask[j] = 0 THEN "read" ELSE "open")
    /\ sourceRows' = [k \in RegistryKeys |-> RegistryRow(j, k)]
    /\ authorityRows' = authorityRows \cup Job(j).authorities
    /\ RegistryGoes(j, [RegistryIdle EXCEPT !.pc = "done", !.quiet = Job(j).quiet])
    /\ UNCHANGED <<registryFiles, registryEdits>>

\* A crawl raises, or the process dies.
RegistryAbort(j) == RegistryBusy(j) /\ RegistryFail(j)

RegistryNext ==
    \/ \E k \in RegistryKeys, d \in RegistryDescriptors \cup {RegistryNone} : RegistryEdit(k, d)
    \/ \E j \in RegistryJobIds :
         \/ RegistryStart(j) \/ RegistryRead(j) \/ RegistryName(j) \/ RegistryWrite(j)
         \/ RegistryCommit(j) \/ RegistryAbort(j)

RegistrySpec == RegistryInit /\ [][RegistryNext]_registryVars

-----------------------------------------------------------------------------
AuthorityName(a) == IF a = RegistryNone THEN RegistryNone ELSE a[2]

RegistryMatches(row, d) ==
    row # RegistryNone /\ row.descriptor = d /\ row.enabled = d.enabled
        /\ AuthorityName(row.authority) = d.authority

(* "The descriptor is the definition" (sources.py:175): whatever lost        *)
(* updates, crashes and half-written rows came before, a sync_sources that   *)
(* no other job and no edit met leaves every row, in all its columns, as its *)
(* file says, and such a crawl the row of its source.  One that met another  *)
(* may write an older descriptor over a newer one.                           *)
RegistryHeals ==
    [][\A j \in RegistryJobIds :
         Job(j).pc # "done" /\ registryJobs'[j].pc = "done" /\ Job(j).quiet =>
           \A k \in RegistryKeys :
             registryFiles[k] # RegistryNone /\ RegistryTask[j] \in {0, k} =>
               RegistryMatches(sourceRows'[k], registryFiles[k])]_registryVars

(* "Make sure the `sources` row for `source_key` exists - upserting from its *)
(* descriptor when missing or stale" (sources.py:237-238): no authority is   *)
(* there twice, or every later upsert that names it raises (sources.py:      *)
(* 183-187).                                                                 *)
AuthoritiesUnique ==
    \A a, b \in authorityRows : a[2] = b[2] => a = b
=============================================================================

# TLA+ models of Specora

Specora compiles contracts (YAML files) into a program, and repairs the
contracts when the program reports errors. This directory holds TLA+ modules
that model parts of it, TLC configurations that check them on small instances,
and proofs that TLAPS checks for every value of the constants.

    tlasany HealerPipeline.tla                            parse
    tlc -workers 2 -config healer_crew.cfg MCHealer.tla   check one run
    tlapm Healer_proofs.tla                               check proofs

`PROJECT.json` lists the components, the runs with their properties, one
mutant per property, the source lines behind every definition, the hazards, the
findings and the theorems.

## 1. Inventory

What each part keeps, does and must guarantee. Paths are relative to `src/`.

### Healer (`healer/`)

A sidecar process next to the generated program, and a command line that works
on the same SQLite file and the same directory of contracts.

| Part | State | Operations | What makes it correct |
|---|---|---|---|
| Queue (`queue.py`, `models.py`) | tables `tickets`, `consumed_tokens`, `llm_usage`; one connection per thread | `enqueue`, `claim_next`, `update_status`, `set_classification`, `set_proposal`, `consume_token_nonce`, `record_llm_usage`, queries | a ticket is given to one worker, in the promised order; a nonce is spent once |
| Pipeline (`pipeline.py`) | nothing but what the running call holds | `process_next`, `approve_ticket`, `reject_ticket`, `_apply_and_notify`, `_auto_regenerate` | a fix is applied at most once and only if approved or certain; no ticket is forgotten |
| Applier (`applier.py`) | contract files, diff records | `apply_fix`: validate, `os.replace`, save the diff | only valid contracts are written; every applied fix is on record |
| Classifier, proposers (`analyzer/`, `proposer/`) | none (the model proposer asks the governor and records usage) | error to type, tier, priority; contract to proposal | only deterministic fixes are certain |
| Server (`api/server.py`), command line (`cli/commands.py`), watcher (`watcher.py`) | singletons, a work signal, a drain thread, an inbox directory | ingest, list, view, approve, reject, drain; `healer fix/approve/reject` | the drain loop goes on whatever happens |
| Approval tokens (`security.py`) | secret, consumed nonces | issue, verify, consume, CSRF | a link acts once, on one ticket, in time |
| Rate limiter (`ratelimit.py`) | token buckets behind a lock | `check`, eviction of idle buckets | nobody exceeds burst plus rate |
| Spend governor (`cost.py`) | usage table (window), outcomes | `check`, `record`, circuit breaker | spending stays near the budget |
| Notifier, agent, monitor | none | formatting, HTTP calls | - |

Interaction: ingest, watcher and `healer fix` enqueue; a thread of the sidecar
and each `healer fix` run `process_next` until the queue is empty; the event
loop of the sidecar and each `healer approve` or `healer reject` decide. The
event loop runs an approval to its end before it serves the next request, the
drain thread runs beside it, and other processes run beside both. What they
share is the ticket table (one statement at a time) and files (no locks).

Hard: statements of two actors in between each other; a check and a write in
two statements; content read long before it is written back; crashes and
exceptions after a status was stored; a queue order by a value decided later.

### Forge (`forge/`)

| Part | State | Operations | What makes it correct |
|---|---|---|---|
| Diff store (`diff/store.py`, `diff/models.py`) | a file per diff, `index.json` | `save`, `get_history`, `get_by_id`, `list_all` | every saved diff is found again |
| Diff tracker, change contracts (`diff/tracker.py`, `diff/change_contract.py`) | none | compare two contracts, classify a change | what is said to need no migration needs none |
| Contract parser (`parser/`) | none | load, validate, dependency graph, cycles, order | the order respects every dependency and exists unless there is a cycle |
| IR compiler (`ir/`) | none | translation, four passes, semantic checks | it accepts the sound builds, and what it hands on holds all that was written |
| Migrations (`targets/migrations/`, `targets/fastapi_prod/gen_app.py`) | IR snapshot, migration files | diff against the snapshot, number, write | the series of migrations leads to the schema of the contracts |
| Backend generator (`targets/fastapi_prod/`, `targets/postgres/`) | none here, but see below | text generation | what the program it writes promises |
| Frontend generators (`targets/nextjs/`, `targets/typescript/`, `targets/openapi/`) | none here, but see below | text generation | what the program it writes promises |
| Normalizer, naming (`normalize.py`, `targets/naming.py`, `targets/typemap.py`) | none | contract to normal form | idempotent |
| Command line, bundles (`cli/`, `bundle.py`, `provenance.py`) | none | calls the parts above | - |

### The generated program

Most of what Specora has to get right runs elsewhere: in the program its
generators write. The text is in the templates of the generators.

| Part | State | Operations | What makes it correct |
|---|---|---|---|
| Tokens (`gen_auth.py`, `gen_app.py`) | `_auth_refresh_tokens`, in memory or in Postgres | login, refresh with rotation, reuse detection, logout, logout everywhere | a refresh token is spent once; a revoked sign-in stays dead |
| Records (`gen_repositories.py`, `gen_routes.py`) | a table per entity, three adapters | create, patch, delete, keyset pages, transitions with guards | a record moves along the workflow only; paging misses nothing |
| Boots (`gen_app.py`) | the schema, `_specora_migrations` | bootstrap, pending migrations under a lock | the database follows the contracts |
| Session (`gen_session.py`, `gen_pages.py`) | memory of a tab, storage, a cookie shared by tabs | refresh joined within a tab, retry after 401, sign in and out | nobody is signed out for being busy, nobody waits for ever |
| Lists (`gen_scaffold.py`, `gen_components.py`) | rows on screen, cursor, generation of loads, names of references | load, load more, delete, drag to another state | no row is missed or comes back from the dead; references show names |

### Engine (`engine/`)

`LLMEngine.chat` asks the gates, calls a provider up to a number of attempts
(`retry.py`), and tells every sink of the result (`telemetry.py`). The registries
of gates and sinks are shared by threads. A refusal must not be retried, and the
spend governor, which is a sink, must hear of every call that was made.

### Factory (`factory/`)

`factory new` interviews a person and saves a session after every answer, from
which the next run resumes; `factory chat` lets a model propose contracts and
changes by tool calls that a person confirms; `factory refine` changes one
contract and records a diff. Hard: crashes between saves, files others write
meanwhile, and what the model is told of a call that did not do what it was
asked.

### The rest

`extractor/` reads foreign source code once; `cli/` (TypeScript) wraps the
command line; `scripts/`, `spec/` and `domains/` are data and continuous
integration.

## 2. Modules

    Healer
      HealerTypes            errors, contents, proposals, confidence
        HealerQueue          the ticket table, a statement each
          HealerPipeline     workers, operators, applier, editors, crashes: Spec
            HealerProperties what must hold; INSTANCE TicketLifecycle
              HealerInvariant    inductive invariants IInv and SoloInv
                Healer_proofs    any number of operators; one operator, refinement
                MCHealer         values for TLC
      TicketLifecycle        abstract: what the Healer promises about a ticket

    Guards of the Healer and of the engine
      RateLimiter            buckets refilled late and dropped; INSTANCE Allowance
      Allowance              abstract: buckets that fill all the time
      SpendGovernor          callers between check, call and record
      ModelCalls             gates, attempts, records for the sinks
      Approvals              links, nonces, forms, and what they decide
        Guards_proofs        the four
        MCGuards             the four in one run

    Contracts
      DependencyGraph        search for cycles, Kahn's order, loop by loop
        Compiler             stages, passes, semantic rules; and what is sound
          Compiler_proofs    the graph and the compiler
          MCCompiler         builds for TLC
      FactoryInterview       factory new, its session file, crashes
      FactoryChat            tool calls, confirmations, reports
      DiffStore              savers over diff files and index.json
        Contracts_proofs     interview, chat and diffs
        MCContracts          the three and the compiler in one run

    Generated program
      TokenFamilies          refresh tokens, one statement per step
        Session              tabs, cookie, network, over the same tokens
          Sessions_proofs    both, and that the second implements the first
          MCSessions         one tab that is busy, or two tabs and a device
      Migrations             generators, files, database and boots
      ColumnMigrations       one column: statements, guards, rows
        Migrations_proofs    both
      RecordStore            rows behind three adapters
        RecordList           pages on screen, deletions, moves
          Records_proofs     both
          RecordNames        names of what the rows refer to
      MCProgram              migrations, columns, records in one run

    Induction                induction and recursive functions, for the proofs

A definition marked `mutant` is not part of a model. It is the definition
behind it with a plausible bug, and the property named with it in
`PROJECT.json` must be violated when it takes that definition's place.

### HealerTypes and HealerQueue

| TLA+ | Code |
|---|---|
| `ErrorClass` (tier, priority, fixable) | what `classify` makes of an error; the regular expressions are abstracted into a choice of class |
| `Content`, `Valid`, `Normal` | what a contract file may hold, what `validate_contract` accepts, what `normalize_contract` and the YAML round trip make of it |
| `Confidence` | in tenths: 10 for a deterministic proposal, and for one of a model what `propose_llm_fix` assigns by tier |
| `status`, `about`, `error`, `tier`, `prio`, `proposal`, `created`, `resolved` | the columns of `tickets`; `status[t] = "absent"` before the INSERT; `error` stands for the text the classifier reads |
| `clock`, `created` | the order of `created_at`. The object is created before it is inserted, so an older time may be inserted after a younger one |
| `ClaimNext` | the single `UPDATE ... WHERE id = (SELECT ...) RETURNING` with the order of the SELECT |
| `UpdateStatus` | with the time of resolution, which terminal statuses set and none clears |

### HealerPipeline

`Worker` is whoever runs `process_next`, `Operator` whoever decides. Each has a
program counter `pc`, the ticket `held` and the proposal `draft` of the running
call. A step is one statement of the database, one look at the contracts or one
file operation, because between two of these anybody else may move.

    process_next   Claim - Classify - Propose - StoreProposal - Offer
                                    \ ProposeNothing - Fail  \ apply
                            (generator bug, data issue) - Fail
    approve        Open("approve") - Approve - apply
    reject         Open("reject") - Reject
    apply          CheckFix - Replace - SaveDiff - Settle
                   (not applicable, ReplaceFails) - Fail

`Edit` is anybody else who writes or removes a contract. `Abort` is a process
that dies or a handler that raises: what it held is forgotten, what it stored
stays. The drain loop and the server go on after an exception, and a process
that died is started again, so an aborted process is idle, not gone. `written`
is a history variable: each replacement of a contract file by a fix, with the
content that was there.

`ReplaceFails` is the exception of `_atomic_write`, which `apply_fix` catches;
any other exception is an `Abort`. The database connections wait for each other
and each statement commits at once, hence one statement is one step.

### TicketLifecycle

The abstract specification: only the status of each ticket and the set of
tickets whose fix is in. A ticket is taken once, decided once, fixed at most
once, and ends as applied exactly when its fix is in. `HealerPipeline` implements
it with `fixed <- {w.ticket : w \in written}` as long as one operator decides at
a time.

### DiffStore

`save` writes the record file, loads the index, adds an id to its copy and
writes the copy back with `write_text`, which empties the file first. A saver is
one `save` that may overlap with others: the applier in the drain thread, in the
event loop and in the command line, and `factory refine`. `blank` says whether the
file is empty when a saver fills it; if somebody has filled it since, the two
texts may be mixed and not parse, which `_load_index` treats as an empty index.
A torn record file cannot be listed, so only complete ones are kept (`files`).
`saved` and `disturbed` are history variables.

### Migrations

A generator (`specora forge generate`, or the regeneration after a fix of the
Healer) goes through `Compile`, `WriteSchema`, `Diff` and `WriteMigration`: it
compiles the contracts, which may be anything by now, writes `schema.sql`,
compares with its snapshot and saves the new one, and only then writes the
file. A migration is a set of changes and the schema it takes columns and types
from; `Migrated` says what its guarded statements make of any schema, and `Runs`
whether one of them fails. It works on each table and each column for itself.

The generated program boots with the files its image was built with: `Bootstrap`
fills an empty database and records every file, `Boot` and `Migrate` run what is
not recorded, a file and its record in one transaction, under a lock that makes
boots wait for each other. `BootEnds` is the end of a boot, or its death. A name
is the version and what the description tells: the only change, or their number.

`mishaps` counts what the series is not safe against: a generator that dies
(with a snapshot that may be torn), generated files that are deleted, and two
generators at a time.

Left out: indexes, foreign keys and triggers; rows, which may refuse a NOT NULL
or a type (the boot then ends without the file, as after any failure); more than
999 files, when names no longer sort like numbers.

### RateLimiter and Allowance

`Check` is one request: idle buckets of every key are dropped, the bucket of the
key is refilled or made, then the one for all, and a token is taken from both or
from none. It is one step because the code holds a lock. The code counts tokens
and seconds in floats; here a token is `One` units, chosen so that a bucket grows
by a whole number of units in a tick. `clock` is `time.monotonic`. `since`,
`admitted` and `admittedAll` are history variables: `BeginToCount` starts to
count at any moment, so that a bound on the count is a bound for every interval.
A restart of the sidecar starts with full buckets; the bound is for the lifetime
of a process.

`Allowance` is the limiter as it is meant: a level for each key
that grows with every tick and is never dropped. `RateLimiter` implements it,
with `level` what each bucket would hold if it were refilled now, if a bucket is
full before it may be dropped.

### SpendGovernor

A caller asks (`CheckBreaker` reads the outcomes, `CheckBudget` the totals, two
queries), calls, and records what it cost (`Answer`, `Failure`) in a statement of
its own; anybody may come in between. An attempt without a usable proposal is
followed by a second one, which asks again. `Die` is a call that is never
recorded. A record is reduced to what a check can see: its outcome, tokens, cost
and age. An age stops at `Horizon`, beyond which all checks agree, and `Tick`
leaves out what none of them sees.

### ModelCalls

A thread in `chat` is at the gates, sending, waiting between attempts, or telling
the sinks (`AskGates`, `Succeed`, `Fail`, `Resend`, `Tell`, `Return`). `emit` copies
the list of sinks and tells one after the other; a sink that raises is passed
over. `Enlist` adds and removes the sinks that come and go, `Turn` opens and shuts
the gates. The gates are asked once for a call, so a ceiling that is reached
between two attempts does not stop the second one; the model has that. What an
attempt waits, and what a record holds beyond its outcome, is left out.

### Approvals

The control plane of the sidecar, for several server processes on one database.
A page stands for the tokens it carries, and they are what their page and action
say: a signature is never forged and never misread. A request authenticates
(`Actor`), shows its CSRF token (`PassesCsrf`), burns its nonce (`Burn`), reads the
status (`Look`) and writes it (`Decide`); the last three are separate statements.
`schemes` is what is configured. Without a secret of the configuration a process
signs its forms with one of its own (`Secret`) and loses it when it dies.
`Overtake` is the command line. `decisions` and `told` are history variables. `Says` is
the answer to a form: that to a rejection does not depend on what came of it. The
token of the ingest route is left out; what an approved ticket goes through is in
`HealerPipeline`.

### DependencyGraph and Compiler

`DependencyGraph` is `detect_cycles` and `topological_order` turn by turn: the stack
of the search with its frames (`Root`, `CloseCycle`, `SkipVisited`, `Enter`, `Follow`,
`Leave`), the verdict (`Judge`), and the heap of Kahn's algorithm (`Take`, `EndOrder`).

`Compiler` puts it between loading and translation. A contract is a number that
stands for its name; a name is a sequence of words, so that prefixing a domain
can make two names equal. `CompileNode` translates, `RunPasses` runs the four
passes in their order, each an operator from representation to representation
(`ExpandMixins`, `InferTables`, `BindMachines`, `InferPaths`), and `Judgement` is
`validate_semantics`. Every stage may refuse. `BuildIsSound` is the abstract
specification: a definition over the contracts as they were written, without
stages or passes. It shares with the model the helper that prefixes names and
the rule for a workflow on its own, which both state directly. The comparison of
class names and that of module slugs are one in the model, and transitions are
pairs, so that a source state without targets is not expressed.

### FactoryInterview and FactoryChat

`FactoryInterview`: `run` is where the command is, `session` what it holds and `file`
what it saved last. `About` says which entity a file is about, because routes and
pages are named by plurals and two entities may share one. `Interrupt` is Ctrl-C,
`RunDies` a crash or an exception nobody catches, `GiveUpEmitting` an emission that
refuses. The text of answers and contracts is left out.

`FactoryChat`: the loop of messages and tool calls, with `refine` run as a tool
(`Read`, `RefineExits`, `RefuseRefinement`, `Apply`, `RecordDiff`). A contract is its
version. `Meanwhile` is anybody else who writes the files, and a result is what it
tells the model, which the code chooses by the end of the command and not by
what the command did: `RefuseRefinement` ends like a success. The history variable
`refused` marks it.

### TokenFamilies and Session

`TokenFamilies` is the server: `Decode` reads the presented token, `Consume` is the
`DELETE ... RETURNING`, `Revoke` ends families, `Verify` is the password of a sign-in,
`Issue` stores the successor. A request is one at a time in one of these, any may
fail, and `Restart` empties the store in memory. `Legacy` is the family that
stands for the sign-ins of a build that had none. `revoked`, `overlapped` and
`suspected` are history variables. `LedgerNext` lets clients present any token there
has been.

`Session` is the browser in front of it: `page`, `mode` and `stored` of each tab, the
one `cookie`, and `leader`, the refresh the other callers of the tab wait for. An
activity is an asynchronous call of the page. `StartRefresh` begins or joins a
refresh, first with the cookie (when nobody knows yet whether it works) and then
with the stored token; the answers come or are lost (`Receive`, `Lose`), and those
to a page that was left are dropped (`Discard`). `Elsewhere` is another device that
signs out everywhere.

### RecordStore, RecordList and RecordNames

`RecordStore` has the three adapters: in memory, where a move is one step because
nothing is awaited; one conditional `UPDATE`, for workflows without guards; and
`SELECT ... FOR UPDATE`, then the checks, then the write. A guard looks at whether
fields are filled, so a row is its state, that bit and its time. `Page` is the
keyset query.

`RecordList` is the component that shows them. A reload begins a generation, and
because a load only asks whether its generation is the current one, it is enough
to know which loads are old (`fresh`). `present` and `removed` are history variables.

`RecordNames` adds the effect that looks up the names of what the rows refer to.

### ColumnMigrations

`Migrations` treats a column as present with a type or absent; this module is
about one column in detail. `Edit` changes the field and says whether the change
requires a migration (`RequiresMigration`), `Generate` compares with the snapshot and
writes statements (`Statements`), `ApplyFile` runs one file as a transaction, whose
statements fail on rows they do not fit (`Fails`). `Insert` and `Backfill` are what the
program and its operators do to the rows.

### The MC modules

Components that share no state share a run: `part` says which of them moves in a
behavior, and the others keep their initial state, so the run's states are the
sum of theirs and not the product. `MCSessions` chooses two sets of initial states,
`MCCompiler` the builds.

## 3. What is checked

| Run | Question | Instance | Distinct states |
|---|---|---|---|
| `healer_sidecar` | what the deployed sidecar keeps, next to a `healer fix`; is every error handled, does every approval get a result | 2 tickets, 1 contract of 3 contents, 2 workers, 1 operator, 1 edit, 2 aborts, fairness | 482 thousand |
| `healer_crew` | what holds even with two operators who decide at the same time | 2 tickets, 2 workers, 2 operators, 1 abort | 3.1 million |
| `guards` | do the limits hold, are calls recorded and links spent as they should be | limiter: 1 contract and none, 6 ticks; governor: 2 callers, budget of 3 tokens; calls: 2 threads, 2 sinks, 2 attempts, 2 calls; approvals: 2 processes, 2 readers, 4 configurations, 1 page, 1 tick, 1 death | 1.1 million |
| `sessions` | do refresh tokens rotate safely, and is nobody signed out or left waiting without need | 2 requests, 3 tokens, 2 sign-ins and the old ones; one tab with 2 activities and a mishap, or two tabs and another device | 268 thousand |
| `program` | does the database follow the contracts, do pages, moves and deletions hold together | 3 migrations, 2 types, 1 mishap; 20 shapes of a field, 2 edits; 3 records, 2 of them made at one time, pages of 1, 3 calls | 5.0 million |
| `contracts` | is a build accepted when it is sound and only then, are answers kept and reports true, is every diff listed | all graphs of 3 contracts, 3 families of builds of 4; 2 entities with one plural, 3 runs; 5 messages; 4 diffs, 3 savers | 3.5 million |
| `healer_double` | finding: two operators | 1 ticket | violation |
| `approvals_reject` | finding: a rejection that comes too late | 2 processes, 2 readers, 2 pages | violation |
| `migrations_healer` | finding: two snapshots, one series | 2 generators, no mishap | violation |
| `sessions_revoke` | finding: a logout in the middle of a rotation | as `sessions` | violation |
| `compiler_routers` | finding: one base path for two entities | as `contracts` | violation |
| `records_names` | finding: an old lookup overwrites a newer one | 2 records, pages of 1 | violation |

Properties (with the mutant that breaks each in `PROJECT.json`):

- `healer_sidecar`: `FixAppliedOnce`, a fix reaches its contract once;
  `OnlyAbortsStrand`, without an abort no ticket in the middle of being handled is
  in nobody's hands; `ImplementsLifecycle`, the refinement of `TicketLifecycle`;
  `EveryTicketIsHandled` and `EveryApprovalIsSettled`, unless a handler aborts.
- `healer_crew`: `ClaimIsExclusive`, a claimed ticket is analyzing and nobody else's;
  `OnlyValidFixes`, what the applier writes validates; `UnattendedFixesAreCertain`, no
  fix of a model reaches a contract unapproved; `AppliedIsOnRecord`, applied means
  replaced and recorded, by the same process; `OfferedIsApplied`, an operator
  applies what stands in the queue.
- `guards`: `NobodyExceeds`, in any interval nobody, and not all together, get more
  errors in than burst plus rate; `ImplementsAllowance`, refilling late and dropping
  idle buckets changes no decision; `SpendingIsBounded`, what the window holds and
  what is under way exceed the budget by less than one call of each caller;
  `FailuresAreBounded`, within a cooldown fewer calls fail in a row than the
  threshold and one of each caller; `RefusalsEnd`, the breaker closes and the window
  moves on by themselves; `CallsAreRecorded`, a sink that stays takes one record of
  each call that was sent and none of one that was refused; `CallsEnd`;
  `LinksDecideOnce`; `LinksAreSpentWell`, a link is burned for nothing only when
  somebody else was faster or a process died; `ApprovalsAreTrue`, "Approved." is
  said of an approval this reader made with this token, "Could not approve." of a
  ticket nobody is offered any more. Of "Rejected." it says nothing: that answer is
  false of a ticket approved elsewhere, which `approvals_reject` shows.
- `sessions`: `OneHeir`, a sign-in has one live token or one about to be issued;
  `RevokedIsDead`, unless it was revoked between the two; `OnlyTroubleSignsOut`, a
  spent token comes again only after a lost answer, a page left in the middle, or
  two tabs at a time; `EverybodyHears`, every call of a page comes to an end.
- `program`: `OnlyMishapsDiverge`, `OnlyMishapsBlock`, without a mishap the database
  ends with the schema of `schema.sql` and no boot is stuck; `FilesTakeEffect`, what a
  recorded file says is there; `MigrationsArrive`, a column ends as the field was
  compared last, whatever came in between and whatever the rows hold;
  `OnlyTheNewIsUnflagged`, a change said to need no migration gets no statement;
  `PagesAreComplete`, paging to the end shows all that was there all along;
  `RemovedIsGone`, what the user deleted does not come back by an older load;
  `MovesAreLegal`, records move along edges, and with a lock only while guards hold.
- `contracts`: `DependenciesFirst`; `OrderIsComplete`, the two graph algorithms agree,
  and the search is right; `JudgedRightly`, the compiler accepts exactly the sound
  builds; `NothingIsLost`, generators get all fields, states and guards that were
  written; `AnswersAreKept`, no step of an interview loses an answer;
  `HalfWrittenResumes`, a domain written in part can be taken up again;
  `OnlyRefusalsMislead`, what a model is told of files was done, with a record,
  except that a refinement the person refused is told as "Modified";
  `OnlyOverlapsLose`, only a crash or an overlap loses history.

### Bounds

Healer. Two tickets about one contract are the smallest instance in which fixes
overwrite each other, tickets overtake each other and a claim can be given twice;
a third adds no new pair. Two workers and two operators give every race between
two calls of a kind. One abort already stops a handler at any step, a second one
another handler, or the same one again. One edit comes between any two steps and
may bring any content or remove the file. The five contents cover: normalized
into a valid content, normalized into an invalid one, already normal, another
valid one, invalid and normal. `healer_sidecar`, which checks liveness as well, has
three of them, one of each outcome; an invalid normal form and a second valid
content are in `healer_crew`. The three classes of errors cover the branches of
`_process_ticket`; `healer_crew` leaves the one that is not for a contract out to
make room for the second operator.

Guards. The limiter's six ticks let a bucket be emptied, refilled, dropped and
made again, and its two keys compete for the bucket of all. The governor's time
has no bound: its ages saturate. Two callers can both pass a check before either
records; a budget of three is reached exactly and with one call too many. Two
attempts are one retry, and two calls a thread that comes again with the records
of its first. A page has two links, one per action; two processes show them at a
time, and one tick lets everything expire.

Sessions. Three tokens are one in use, its successor, and one of somebody else;
a token that nobody holds is issued again, which loses nothing because ids are
random. Two requests are enough for every pair of statements to interleave.

Program. One table with one column is enough for files because statements about
different ones do not interact; two types let it be altered, three files are an
initial one and two that undo each other, which is when names repeat. The shapes
of a field combine all that decides whether it may be null, and vary each other
attribute. Two records of one time and one that comes later make the order of a
page depend on both keys; a page of one makes every record a boundary.

Contracts. Three contracts have every kind of cycle and a contract beside it; the
fourth gives a build room for an entity, two that it uses and one that uses it.
Interviews of two entities with one plural are what makes one file overwrite
another, and three runs interrupt a run that resumed. Four diffs and three savers
are a saver after two that overlapped.

`CHECK_DEADLOCK FALSE`: a generator stops when the bound on versions is reached, a
compiler when it has judged, an interview when its runs are used up, savers when
every diff is saved, clients when they have made their calls; the Healer is idle
when every ticket is done.

### Fairness

`healer_sidecar`. Some worker keeps claiming: the drain loop waits for its signal
with a time limit of seconds and goes on after any exception. A worker goes on with
the ticket it claimed, and an operator with the request it accepted: neither waits
for another. Nothing makes anybody report an error or decide. The properties make
an exception of stranded tickets, because nothing in the code takes up a ticket
whose handler aborted.

`guards`. Time passes for the governor, and `RefusalsEnd` does not depend on
anybody's call. It is about a model with a price; without a price, a limit on
money refuses every call, as the code means it to. A model call goes on, because
every request has a timeout and every wait is a sleep.

`sessions`. The server answers a request or the network loses it, an answer that
arrived is received, and a browser goes on with what it waits for. Nobody is made
to call, to sign in or to leave.

## 4. Findings

- `healer_double`: `approve_ticket` reads, checks and writes the status in
  separate statements; approved through the sidecar and the command line at a
  time, a fix is applied twice.
- `approvals_reject`: the form handler for a rejection does not look at what came of
  it; who clicks Reject after somebody else approved reads "Rejected.".
- `migrations_healer`: the Healer has a snapshot of its own, so its first
  migration is an initial one, which changes nothing where the tables exist.
- `sessions_revoke`: a logout that comes between a spent token and its successor
  finds nothing to delete, and the successor lives on.
- `compiler_routers`: base paths are derived without the domain and not compared;
  two entities of one name in two domains get one router prefix.
- `records_names`: the answer to an older lookup replaces that of a newer one, and
  names stay missing until the rows change.

What else was met while modelling, and is in the models as the code has it:

- A diff records the content the proposal was computed from, not the content it
  replaced.
- The queue sorts by a priority that is known only after a ticket was taken out:
  it is first in, first out.
- Two overlapping saves of diffs lose one of them in the index
  (`OnlyOverlapsLose` says what is left).
- A bucket dropped after 15 minutes would be full by then only if burst and rate
  are such (`IdleRefills`, which the defaults satisfy).
- `chat` tells the model "Modified" although the person refused the change
  (`OnlyRefusalsMislead` has it as its one exception). No document says what `chat`
  reports, so it is not listed as a finding.
- After an emission was refused, every further run resumes at the emission,
  although it says to fix the input and to run again.
- The command-line reference names another session file than the code, and the
  meta-schema of workflows speaks of a reachability check there is none of.

## 5. What is proved

Every invariant and action property of the passing runs is a theorem: it holds
for any number of actors and values, and not only for the instances of section 3.
There is no bound in these theorems but those the modules name for TLC, which are
constants of any size.

A proof has a lemma for each action and in it a step for each part of the invariant.
What the actions of a component have in common is a lemma of its own: that an action of
one thread or request leaves the part alone that speaks of the others (`NothingToldBy`,
`HandlingNext`, `NothingNew`), that a part follows from what it says of each request
(`CalmAskingNext`), or that nothing relevant happened at all (`NothingTold`,
`NothingSpent`, `AskingAtRest`).

### Assumptions

Each module names what it takes of its constants. They are of three kinds.

- *Parameters are what the code makes of its configuration*: `ErrorClassAssumption`,
  `ThresholdAssumption`, `LimiterAssumption`, `GovernorAssumption`, `CallsAssumption`,
  `ApprovalsAssumption`, `SessionAssumption`, `RecordsAssumption`, `ListAssumption`,
  `FieldsAssumption`, `GraphAssumption`, `InterviewAssumption`, `ChatAssumption`,
  `StoreAssumption`, and the bounds (`BoundAssumption`, `VersionAssumption`, which keeps
  to the 999 files whose names sort like their numbers). Callers, records, contracts
  and entities are finite because a process, a table and a directory are. `Usage` is
  finite because the tokens of an answer are limited, and because there is no dearest
  call otherwise.
- *Sentinels differ from values*, as `None` and a missing row do in the code:
  `SentinelAssumption`, `NobodyAssumption`, `AbsenceAssumption`, `ItemAssumption`,
  `GoneAssumption`, `AbsentAssumption`, `SchemaAssumption`, `FrameAssumption`,
  `LedgerAssumption` (which also lets accounts own families). `ProcessAssumption` is
  that a process is a worker or an operator.
- *`BuildAssumption`*: a build says of each contract what the compiler reads of
  its kind, and nothing is bound yet. It says nothing of whether the parts fit:
  references to anything, mixins that are none, types that differ, cycles and illegible
  guards are all builds. TLC evaluates it on the builds of `MCCompiler`.
- *`ContentAssumption`*: normal forms are contents, valid contents are contents.
  Not that normalization is idempotent or yields valid contents: the applier
  checks for itself.

Four theorems have a hypothesis of their own, and need it:

- `SingleOperator`, for the theorems about one operator; `healer_double` shows the
  fix that is applied twice without it.
- `Alone`, for those about the series of migrations: one generator. The Healer has a
  snapshot of its own, and `migrations_healer` shows where that leads.
- `IdleRefills`, for the limiter: a bucket fills before it may be dropped. The
  defaults satisfy it; with others the limiter gives away tokens.
- A threshold above 5 tenths for `NoModelFixIsUnattended`. The default has it; with
  a lower one the gate lets a model's fix through.

### Healer

`TypeOK` is not inductive: `Classify` stores the class of the ticket in memory, and
only `OwnerInv` says that this ticket was reported. `IInv` adds: `MemoryInv`, program
counters and memory agree; `OwnerInv`, whose ticket it is and what is known about
it in each status; `FixInv`, how far the running application has come and what it
has left behind; `GateInv`, that what a worker wrote still passes the gate. There is
a lemma per action, with a step per part of `IInv` it can disturb. From `IInvHolds`
follow `TypeCorrectness`, `ClaimsAreExclusive`, `OnlyValidContentIsWritten`,
`AppliedTicketsAreOnRecord`, `OfferedProposalsAreApplied`, and with a further step
argument `OldestTicketIsClaimed` and `OnlyAbortsStrandTickets`.

With one operator, the status he read cannot have changed when he writes: `SoloInv`
(`DecisionInv`), nobody starts to apply what is already in (`StartInv`), and the status
tells whether it is (`OutcomeInv`). From `SoloInvHolds` follow `FixesAreAppliedOnce`,
`RejectedFixesAreNotApplied` and `PipelineImplementsLifecycle`.

### Guards

**Limiter.** `LimiterTypes` with `BucketInv`, no bucket is ahead of the clock or holds
more than its capacity; `LimiterImplementsAllowance`, a refinement step for each
action; and `NobodyEverExceeds` from `CountInv`, what was admitted and what is left are
together within the bound.

**Governor.** `FailuresStayBounded` from `BreakerInv`: `FailuresAreBounded` is inductive
because it counts the callers past the breaker with each row of failures.
`SpendingStaysBounded` is about sums over a table. They are sums of a recursive
function of the length, and what is needed of them is: a sum over the newest calls
grows by what a new call costs, does not grow when calls get older and leave the
window, and is within bounds at the moment a check passes. Whoever is past the
check adds the dearest call at most; a record turns that into what it cost.

**Calls.** `NoRetryIsUnwarranted` from `AttemptInv`, there is room for another attempt
where one may be made, and `EveryCallIsRecordedOnce` from `RecordInv`, which says how
many records a sink has by how far the round of `emit` has come. That the governor
stays registered is what `Staying` needs; sinks that come and go are promised nothing.

**Approvals.** `EveryLinkDecidesOnce` from `NonceInv`, a burned nonce is of one request
in progress or of one decision; `ApprovalsAreToldTruly` from `ReaderInv`, a ticket
somebody has a page of is past being analyzed and cannot be offered again, and from
`AnswerInv`, in which the token of an approval that failed is burned, shown by nobody
and of no decision (`Wasted`), so that no later decision can have it;
`EveryLinkIsSpentWell` from `TokenInv`, a burned nonce is of a page that was rendered,
and a request that shows one is about the ticket of its page. The last is about times when no process has died (`boots` is 0), as the property
itself is: who dies after burning a nonce and before deciding has spent it for nothing.

### Contracts

**Graph.** The search finds a cycle wherever there is one because it finishes a
contract only after all it requires: `SearchInv` numbers the finished ones so that
requirements have lower numbers, as long as no cycle was found. `GraphInv` adds Kahn's
order: what was taken, what is in the heap, and that indegrees count what is still
missing. `RequirementsComeFirst` and `AcyclicIsOrdered` hold for any finite set of
contracts and any references, to themselves and to missing ones included.

**Compiler.** `CompilerInv` says what each stage has ruled out (`StageIsPassed`) and that
the representation is what the passes so far make of the source
(`RepresentationIsSound`). Translation goes in the order of the graph, but once it
is through, and no guard was illegible, the representation is the source whatever the order was.
The rest is about one function of the source, `Pathed`, the four passes in a row, and
is worked out pass by pass:

- the loop over the mixins gives a field to the first contract that has it, the entity
  before its mixins (`FieldsAreMixed`, from `AllUpTo`, what the loop has after so many
  mixins);
- binding changes no type, target or display of a written field (`BoundAsWritten`);
- kinds, domains and names are kept, so that a table name inferred early is the one
  the author would infer (`PathedEntity`, `PathedIsOfContracts`).

Then the last check is compared with the rules of a sound build, rule by rule. The
hard one is types: the check compares each mixin with the merged fields, where the
rule asks that all who give a field give one type (`TypesAgree`). The graph
comes in by `OrderedIsSound` and `RefusedIsNotSound`: a cycle that was found is a set of
contracts of which each requires another, and the numbers of `SearchInv` exclude
such a set. From `CompilerHolds` follow `BuildsAreJudgedRightly`, `AcceptedHoldsAll` and
`CompilerKeepsOrder`.

**Interview.** `InterviewInv` says what the phase of the saved session tells about the
run (`SessionInv`), and that what is still to be written of the accepted files is ahead
in the list (`WriteInv`). From it `NoAnswerIsLost`, an action property with one step per
action, and `HalfWrittenCanResume`.

**Chat.** `OnlyRefusalsMisleadTheModel`, an action property, from `ChatInv`: nothing is
written while a person is asked, files of an entity are written in their order, a
diff is recorded after the contract was written, and nobody has refused before
he was asked.

**Diffs.** `ListedDiffsAreStored` from the invariant that whoever is past writing the
record has a complete file. `OnlyOverlapsLoseHistory` from the invariant that,
undisturbed, one saver at most has the index in hand and his copy contains all of it.

### Migrations

**Files.** With one generator and no mishap the files are the steps of one history
of schemas: there is a sequence `S` such that file `k` leads from `S[k-1]` to `S[k]`, the
database is where the ledger says or one step further, and the generator is
between `S[k]` and `S[k+1]` (`OneHistory`). A migration leads from its old schema to its
new one, and leaves the new one as it is when it runs again; that its guarded
statements do this for any two schemas is what the lemmas about `Migrated` say. From
`FilesHold` follow `OneGeneratorConverges`, `OneGeneratorNeverBlocks` and
`OneGeneratorTakesEffect`.

**Column.** `ColumnInv`: the statements that wait lead from the column of the database
to the definition compared last, through a chain of definitions that agree where
one file ends and the next begins. A file that fails on the rows stays and so does
the column; a file that runs takes the first link off the chain. From `ColumnsHold`
follow `MigrationsDoArrive` and `TheUnflaggedAreSilent`.

### Records

`StoreInv` has, beside types, `LockInv`: whoever holds the lock of a row has found its
move legal and keeps it legal, because others can neither move, change nor erase
that row. Hence `RecordsMoveLegally` for all three adapters.

`ListInv` says that what was there all along and is not shown comes after the
cursor, or is on the page that was served to the present load, or comes after that
page (`PageInv`, `ShownInv`). One load of the present generation exists (`LoadInv`), and
no page under way holds what the user removed (`GoneInv`). That a page of the keyset
query exists and is what the query says rests on two lemmas about finite sets of
rows: they can be put in order, and a sequence in order lists each place once.
From `RecordsHold` follow `NoRecordIsSkipped` and `NothingDeletedComesBack`.

### Sessions

**Ledger.** `FamiliesHaveOneHeir` and `RevokedFamiliesAreDead` for any clients. Neither
property is inductive: a sign-in opens a family nobody holds a token of only because
of `FamilyInv`, `IssuedInv` and `HandInv`, everything in the ledger or in hand is of a
family that has been opened.

**Session.** `SessionInv` is in two parts. `AlwaysInv` holds with trouble or without it:
the invariant of the ledger, types, whatever a browser holds was issued (`HeldInv`),
a request is handled as its kind says (`HandlingInv`), and whoever waits for the
refresh of a tab has a leader who is asking (`TabInv`). While there is no trouble the
browser is `Calm`: all who ask are in one tab, and each is heard (`CalmAsking`); nobody
holds the token of another (`CalmHolding`); what is held is good unless its successor
is on the way to where it is held (`CalmTokens`); and a refresh presents what is good
and brings back what is held nowhere else (`CalmRequests`). A good token is never
taken for theft, so `OnlyTroubleIsTakenForTheft`.

`SessionImplementsLedger` maps each step of the browser to a step of the ledger or to
none: what a browser presents was issued, which is what the ledger asks of clients.
So `SessionsHaveOneHeir` needs no second proof.

### What a proof needed of the models

A few definitions became functions or operators of their own where they had been
nested in an action, with the same meaning: `Page` (the keyset query), `Listing`, `ToWrite`
and `Emitted` (what an emission writes, in order), `WriteMigration`, `Reach` (what can be
reached in so many steps), `Total` (the sum over the calls in a window),
`BoundFields`. In `Compiler` the loop over the mixins is a recursive function of the
position, `Extended` stands where the operators of the TLC module merged functions, and
the guards of a workflow, whose order nothing depends on, are a set. `Induction` has what the library states with operators for
parameters as facts about sets: a set of numbers that has 0 and all successors has
every number, and a function defined by recursion on numbers is what its
definition says.

### Only model-checked

- `EveryTicketIsHandled`, `EveryApprovalIsSettled`, `RefusalsEnd`, `CallsEnd` and
  `EverybodyHears`: liveness under fairness is beyond the prover.
- The findings: a counterexample is not a theorem.

`TypeCorrectness`, `OldestTicketIsClaimed`, `RejectedFixesAreNotApplied`,
`ListedDiffsAreStored`, `LimiterTypes`, `GovernorTypes`, `CallsAreTyped`,
`NoRetryIsUnwarranted` and `SessionsHaveTheirType` state properties that no run
repeats, because they are proved for every instance.

## 6. What is not modelled

- `_auto_regenerate` and the notifications: they change no ticket, contract or
  diff, and errors in them are swallowed.
- The text of errors, prompts, YAML and diffs; HTML pages; metrics; styles.
- Signatures and the algorithms behind them: a token is what it was made for.
- Loading and schema validation, as text; they are verdicts on a contract.
- In the generated program: middleware, roles and row scopes, the compose files,
  generated tests, forms, indexes, foreign keys and triggers of the database. The
  pool of connections, whose double creation changes no answer.
- More than 999 migrations, after which names no longer sort like numbers.
- Text generation as such: one large function of its input, better served by its
  golden tests.
- `extractor/`: a one-way scan of foreign source code into a report; it has no
  state and no second actor, and all of its work is the parsing of text.
- `cli/`, `scripts/`, `spec/`, `domains/`: shells, data, continuous integration.

## 7. Plan

Done: the Healer's core, guards, approvals, diffs; the compiler and its graph; the
factory; migrations; tokens, sessions, records and lists of the generated program.
Proved: all of their invariants and action properties that a run checks.

Next, most important first:

1. Roles and row scopes of the generated program, as a module beside `RecordStore`.
2. The attributes of a field that generators read and the passes copy (`required`,
   `sensitive`, `computed`), so that `NothingIsLost` speaks of them as well.

# TenderFlow: TLA+ specifications

TenderFlow ingests public tenders from several sources, scores and stores them in
Postgres, and serves them to organizations through an API, an MCP server and a web
console. This directory specifies the parts of it that are hard to test because several
processes, crashes or clocks take part: the job queue, the outbox of domain events, the
delivery of webhooks, the tokens of the MCP server, the named locks and the cron plane, the
closing of the pipeline, the runs of a connector with their fall back to monthly files, the
dead-letter queue, and the opportunities with their portfolio. Names of state, actions and
constants are those of the source, in Spanish where the source is.

## 1. Inventory

The program runs as three kinds of process over one Postgres database:

- **GitHub Actions runs** (`scrape-daily`, every four hours, serialized by the
  concurrency group `scrape`): connectors fetch and parse the sources, then the
  *closing* runs some twenty post-ingestion steps.
- **The API** (FastAPI on Render), with a thread in the same process that consumes the
  job queue. Render restarts it in every deployment.
- **The MCP server**, with its own OAuth.

| Component | State | Operations | What is hard | What makes it correct |
|---|---|---|---|---|
| Job queue (`services/jobs.py`, `db/repositories/jobs.py`, `scheduler/worker.py`) | table `jobs`: state, attempts, `run_after`, `locked_by`, `locked_at` | enqueue, claim, heartbeat, ack, fail, sweep of expired locks | consumers that die or are cut off mid-job, a sweep racing a heartbeat, closing by id | one executor per job; attempts bounded; every job ends; nobody gets another's job |
| Outbox (`db/events.py`, `scheduler/jobs/event_dispatch.py`) | `domain_events`, `domain_event_dispatches` | append, claim a channel, deliver, release, mark, expire | overlapping passes on stale snapshots, channels that raise, death between claim and delivery | nothing twice, nothing lost, the queue drains |
| Webhooks (`db/webhooks.py`, `db/repositories/webhooks.py`, `shared/webhook_retry.py`, `scheduler/jobs/webhook_reintentos.py`) | `webhooks`, `webhook_deliveries` | first attempt, retry, redeliver, (de)activate, delete | request, row and failure count are three steps; manual redelivery against a retry in flight | attempts counted and capped, a delivered row is final, nothing pending for ever |
| Locks, cron plane, cadence (`db/job_locks.py`, `scheduler/cron_plane.py`, `scheduler/loop.py`, `scheduler/pipeline_pasos_impl.py`) | table `job_locks` with expiry; a thread per job | acquire, release, renew, launch and wait, `_run_periodic` | threads that outlive their timeout, a table that cannot be read, deaths, two instances in a deployment | a job overlaps only past its budget; the cron never goes quiet |
| Closing (`scheduler/pipeline_cierre.py`, `observability/alerts.py`) | jobs of type `paso_pipeline`, results, alert windows | enqueue the steps, claim them, skip those whose dependency failed, alert, close the window | what an earlier closing left queued, the worker's sweep, a death between window and mail | dependencies first, a result per step, no incident silenced by a window that could have been freed |
| Dead-letter queue (`db/dlq.py`, `scheduler/dlq_retry.py`) | `failed_extractions` | record, retry with backoff, exhaust, requeue, discard | check-then-act across transactions, a failure counted twice, a batch cut before it is filtered | what is closed stays closed; nothing stays open for ever |
| Connectors (`scraper/connectors/base.py`, `scraper/atom_live.py`), fall back (`scheduler/respaldo_zip_placsp.py`, `scraper/bulk_downloader.py`) | cursors, batch, state of the fall back, ZIPs on disk | fetch, batch, upsert, advance, fall back | two orders of feed, re-appearances, a cut before the cursor is written, a feed longer than the page limit | nothing skipped without a trace, nothing goes back, every other notice gets in |
| Opportunities and portfolio (`services/pursuits.py`, `db/repositories/pursuits.py`, `services/cartera.py`, `services/plantilla_tareas.py`) | `pursuits` with its version, `pursuit_events`, tasks, `contratos_cartera` | PATCH, template, portfolio on win, daily synchronization, date by hand | validation and write are two transactions; retries with a key; three writers of one row | no edit reaches what a single one could not; each takes effect once; the portfolio catches up |
| MCP OAuth (`mcp_server/auth/proveedor.py`, `db/mcp_oauth.py`) | tokens in families | authorize, exchange, rotate, revoke | two uses of one token at once | single use; reuse closes the family |
| Sessions, reset, verification, second factor, limits | tables per mechanism | create, renew, revoke, consume | renewal against revocation | revoked stays revoked (each is one conditional statement) |
| Idempotency stores (`db/idempotency.py`, webhook reservations) | keyed answers | reserve, store, expire | two equal requests at once | one effect per key |
| Audit chain (`db/audit.py`) | hash chain | append, purge, verify | appends serialized by an advisory lock | the chain verifies |
| Models (`services/ml/promotion.py`, `db/model_registry.py`) | registry, artifacts | register, publish, activate | publication and activation are two systems | the active version can be loaded |

The interactions: a mutation writes its event in its own transaction; the dispatcher,
run by the closing and, on demand, by a job of the queue, hands it to the webhook module,
which makes the first attempt and leaves the retries to a step of the closing.  So two
dispatcher passes can overlap (a closing and a worker), while retry passes do not (the
workflow's concurrency group). The closing is a consumer of the same table as the worker,
whose sweep looks at every type of job, and keeps its alert windows in the table of locks.
A connector's failures go to the dead-letter queue, whose retry runs the connector again.

The catalogue of events, the MCP server's tools, upserts, deduplication of tenders,
embeddings, retention, the frontend, observability, migrations and scripts are listed in
`PROJECT.json` with the reason they are not modelled: they are data transformations, pure I/O
or user interface.

## 2. Plan

Done:

1. `JobsTabla`, `JobQueue`, `JobPromesa`: the queue and what it promises.
2. `JobEncolado`: deduplication and quota of `enqueue`; `JobQueue_proofs` is about both.
3. `Outbox`, `Outbox_proofs`: dispatch of domain events.
4. `Webhooks`, `Webhooks_proofs`: delivery and retries.
5. `McpOAuth`, `McpOAuth_proofs`: codes and refresh tokens in families, as database
   transactions.
6. `Dlq`, `Pasada`, `RespaldoZip`, `Reintentos`, `Pasada_proofs`: the run of a connector,
   composed with the table of failures, once with the fall back and once with the retry
   cycle.
7. `Cerrojos`, `PlanoCron`, `PlanoCron_proofs`: the leases and the cron plane.
8. `Cierre`, `Cierre_proofs`: the closing, over `JobsTabla` and `Cerrojos`.
9. `Oportunidad`, `Pursuits`, `Pursuits_proofs`: the opportunity, its portfolio.

Every safety invariant and action property of the runs has its theorem. Next: abstract
specifications of the outbox and of the tokens, to be implemented by the modules there are
as `JobQueue` implements `JobPromesa`; of the DLQ, that a key has one open entry at most;
and, of the parts section 7 leaves out, the sessions and the idempotency store.

## 3. Modules

### JobsTabla: the table and its statements

`jobs` is the table, a row per id; each SQL statement of `JobsRepository` is one operator
and one atomic step of whoever calls it (each runs in its own transaction, and `reclamar`
selects with `FOR UPDATE SKIP LOCKED`). Timestamps are kept as distances to the server's
`NOW()` (`espera`, `silencio`), which a tick moves: this is what keeps the state finite
without bounding the clock. The three closing statements look at the id only, as in the
code.

### JobQueue: consumers against the table

`vida` is whether a consumer's loop runs (`Worker._parar`), `tarea` the `Job` it holds in
memory with the attempt it read, `aislado` whether it can reach the database. Each of
`claim`, a beat of `latido`, the end of the handler, `ack`, `fail`, the sweep, `detener`
and the exit of the loop is an action; `Caer` kills the process anywhere, `Arrancar`
starts it again with the same id, `CierrePerdido` is a closing statement that raised.
`JobPromesa` is the abstract specification, without consumers, locks or time: a job waits,
is attempted, and each attempt ends in success, another wait, or in giving up when every
attempt is used. `JobQueue` implements it until a consumer loses the database (`roto`).

### JobEncolado: `enqueue`

Its three transactions (deduplicate, count, insert) are three actions of each caller. The
consumers are reduced to what they do to the table: `Coger` claims, and `Cierre` closes by id
with the attempts of the claim (`toma`), however late and whatever has become of the row
meanwhile, so a `fail` may reopen what another has finished. A consumer may also never close
(`SinCerrar`), and any lock may be swept (`Caducan`).

### Outbox

A pass of `dispatch_pending` is a small program counter per dispatcher: expire, read the
batch once, and for each event and channel claim, deliver or raise, release, mark. Log
events are events without channels. A channel that raises may have reached its first
recipients, which matters for the channels where a repetition is noticed (`Repetibles`:
webhook and immediate e-mail; the others overwrite). `entregas`, `repetida`, `fallos` and
`solape` only observe.

### Webhooks

One webhook and its deliveries. Each process (emitters and the retry pass) goes through
send, write the row, count in the webhook; a death may fall between any two. A ping has no
row to retry and counts at once. `enviadas`, `clics`, `definitivos` and `sabidas` only
observe; `sabidas` is what the receiver has accepted, less the answers that died with their
sender.

### McpOAuth

`fila` is what `mcp_oauth_tokens` has committed, `tx` the open transaction of each request,
with the advisory locks it holds (`tiene`), the rows it has locked (`toma`) and those it has
written (`escribe`). `consumir_y_emitir`, `revocar_familia` and `revocar_de_usuario` run as
the code does, one statement after another; an UPDATE is a step that picks its rows out of
what is committed (`Sentencia`) and one step per row (`BloquearFila`), in any order, that
waits for the row and looks at it again. PostgreSQL's part is marked external in the map:
row and advisory locks, re-evaluation, rollback and the deadlock detector. A family's uuid is
named by the code and the connection that made it up. `cerradas`, `revocados`, `padre` and
`vistos` only observe.

### Dlq and Pasada: a run of a connector and its failures

`Dlq` is the table `failed_extractions`, in order of creation, with one operator per
transaction of `db/dlq.py`; a row's due time is whether it has come. `Pasada` is
`run_connector` with `_LoteDeIngesta`. The feed is a sequence of notices in the order of
their `<updated>`, each about a tender; a tender is the notice its row was last written
from. `asc` tells the two kinds of connector apart: one reads from the newest notice down to
its cursor or to the page limit and moves the cursor at the end, the other reads upwards and
moves it with every batch. A page without a link to the
next (`no_next_link`) ends a newest-first pass wherever it is, the cursor reached or not, and
the cursor moves to the newest notice all the same (`EmpezarFeed`). `Leer`, `Volcar` and
`Completar` are the loop; `Abortar` is an
exception that reaches `run_connector`, `Morir` a death. `record_failure` may write nothing
and say nothing (`AnotarFallo`). A batch is several transactions, so
where `flush` was due either may leave any part of it written (`Escribible`); elsewhere in
the loop nothing is. `alcanzado`, `noAnotados` (failures that are on no record) and `huecos`
(what lay behind a missing link) only observe.

### RespaldoZip

`carril` is where the daily lane is, `respaldo` its saved state
(`placsp_atom_respaldo_zip`), `descargas` the ZIPs on disk. After each pass `TrasPasada`
compares the cursor with the one before, counts passes without progress and, at the
threshold, saves its state and runs `Pasada` over the ZIP of the month (and of the one
before). A ZIP holds what was published until yesterday. `DiscoEfimero` says whether each
pass has a new disk.

### Reintentos

`ciclo` is the retry cycle: sweep (select, then update), list, and for each entry run the
connector and resolve or increment. `cola` is the set of entries left, taken from the newest
to the oldest. The administrator's requeue reads and writes in two steps (`panel`), and
fails when another open entry has the key. The actions that share a name with those of
another module of the same proofs carry the name of the cycle (`EmpezarCiclo`, `MorirCiclo`).

### Cerrojos and PlanoCron

`Cerrojos` is `job_locks`, with the time each row has left. `PlanoCron` is one job of the
cron plane: per instance the course of `_con_lock` (`pase`) and the thread that `_run_job`
leaves behind (`hilo`), both with their age since the lock was asked for, which is what the
property is about. A statement that fails may have been committed. A process that dies
leaves its row under a holder nobody bears any more.

### Cierre

`JobsTabla` with one consumer, `pipeline_cierre`, and `Cerrojos` for the alert windows.
`cierre` is the loop of `_cierre_por_cola`: enqueue (or run in line if the queue is not
there), claim, put aside what is not of this closing, skip by dependency, run, write down,
alert, for four laps per step (`VueltasPorPaso`). A statement that raises may have been
committed: the `enqueue` that sends the closing in line may leave its row (`ColaNoDisponible`),
and the `acquire` of a window may open it for an alert that does not know it (`Avisar`,
`huerfana`). `res` is the results; `avisos` observes what the mails have said of each incident
and who could close its window, `vivos` and `restos` what the loop found in the queue.
The canonical order is a constant, assumed to put every step after its dependencies, which
is what the repository's own test says of it (`tests/test_s5_cierre_dependencias.py:52`).

### Oportunidad and Pursuits

`Oportunidad` holds `_normalize_and_validate_update` as operators: `Completos` completes a
patch, `Admisible` is its guards in order, `ConSellos` its dates; `FilaCoherente` is what the
repository's own property test says of a row. In `Pursuits` a request reads and validates
(`Leer`), with the version its client sends (`Adelanto` is how far ahead of the row that may
be; the console sends what it has read, so 0), writes with its version and key (`Escribir`),
instantiates the template (`Reservar`, `CrearTareas`) and registers the contract (`Registrar`,
`Registrada`), each a transaction of its own; the daily job reads and writes the same
contract, and a person dates it.

## 4. Runs

| Run | Bounds | What it shows |
|---|---|---|
| `jobqueue` | 2 consumers, 2 jobs, TTL 2, 2 attempts, 2 crashes or redeployments, 1 loss of the database | the type invariant; `LockDelEjecutor`; `IntentoEsFicha`; `CumplePromesa` (refinement); `TodoTermina` |
| `encolado` | 2 callers, 2 consumers that may close late, 4 ids, 3 claims, one quota unit, one organization and the system, with and without key | `DuplicadosAcotados`, `CuotaConCarrera`, `DevuelveLoSuyo` |
| `outbox` | 2 events (with two channels, or none), 2 overlapping passes, batch of 1, 1 death | `UnaEntregaPorCanal`, `SinFallosTodoLlega`, `SinSolapeTodoReclamado`, `ColaSeVacia` |
| `outbox_caida` | 1 event, 1 pass, 1 death | **violated**: `NadaSePierde` |
| `webhooks` | 2 deliveries, 1 emitter and the retry pass, 3 attempts, threshold 2, 2 actions of the owner (pings among them), 1 death | `NoSeEnviaSinContar`, `IntentosAcotados`, `SoloCuentaLoDefinitivo`, `EntregadaEsFinal`, `TodaEntregaTermina` |
| `mcp_oauth` | 1 login, 2 pairs, 3 transactions at once out of 4, 1 token expires, 1 transaction aborts | `UsoUnico`, `FamiliaCerrada`, `UsuarioRevocado`, `FamiliaSinInterbloqueo`, `TodaTransaccionTermina` |
| `respaldo_zip` | 3 notices of 2 tenders, 3 days in 2 months, page limit 2, batch of 1, threshold 2, 1 failure, death or missing link, 1 notice that may not parse | `NadaSeSalta`, `NoRegresa`, `TodoAvisoEntra` |
| `reintentos` | 2 notices, 2 rows of the DLQ, 2 attempts, retry batch of 1, 1 failure, death or missing link, 1 order of the administrator | `ResueltaEsFinal`, `TodaEntradaSale` |
| `plano_cron` | 2 instances, TTL 2, 2 failed statements, 2 deaths | `SolapeSoloSiTarda`, `SiempreVuelve` |
| `cierre` | 2 dependent steps, 2 laps per step, 5 jobs, 2 closings cut short, 2 failed statements or mails | `DependenciasPrimero`, `CierreCompleto`, `CalladaSoloSiAvisada` |
| `pursuits` | 2 requests at once, 3 in all, 2 editions one of which has a key, 4 initial rows, 2 published end dates, no version ahead of the row | `Coherente`, `UnaSolaVez`, `EmbudoSoloAvanza`, `CarteraAlDia` |
| `cartera_manual` | the same | **violated**: `LaManualSeQueda` |

Why the bounds are enough. Two consumers and two jobs let a consumer work while the sweep of
another frees its first job; a TTL of 2 with a longest live silence of 1 leaves the lost beat
that the real third-of-the-TTL period leaves; two attempts are the least for which "retry" and
"give up" differ. A death in a two-process model already covers every point where one can
happen, because it is an action of its own between any two steps. Two events with a batch of
one make the second wait for the first. Three attempts with a manual redelivery reach the cap
and pass it by one. One login and two pairs are enough for a reuse, a rotation and a
revocation to be in flight together, which is what the family lock is for; a fourth
transaction is what the deadlock of user revocations needs. Three notices with a page limit of
two and a batch of one reach the page limit, meet a tender again in another batch, and leave a
gap that starts in one month and is filled in the next; the threshold of two is the least that
counts passes. A retry batch of one leaves the second entry out of it. A TTL of two lets the
lock be given up while the thread is alive. Two steps are a dependency; five jobs are the
leftovers of two closings beside the steps of a third, one more than the four laps of two per
step, so a closing does run out of laps (with the code's four it takes what more than three
closings left). Two failures are an `acquire` that raises and then the mail that fails. Four
ids are one more than the three active jobs of a key that two callers and one late `fail` can
make, and three claims give the row that is reopened to both consumers and leave one: with two
less one in either bound TLC finds the property violated, so both are reached. Three requests
are a first try, its retry with the key and one that comes between them, and the four rows
found at the start put every guard within their reach. Larger instances (a batch of two, two
emitters, a second job type) were tried for the safety properties while building.

What the violated runs show, each against a sentence of the repository:

- `outbox_caida`. A pass claims a channel and dies. The claim is committed, so the next
  pass skips the channel and marks the event (`event_dispatch.py:20-24`).
- `cartera_manual`. `sincronizar_cartera` reads every won opportunity and its contract, and
  writes them one by one without looking again; a date a person sets in between goes back
  to the derived one, and stays so (`db/repositories/cartera.py:133-135`).

Six more behaviours were met while modelling; they are in the models, the properties are
stated so as to say where they end, and no run is kept for them alone. A consumer isolated for
longer than the TTL closes by id a job others have finished, and a late `fail` may reopen it
beyond its attempts (`IntentosAcotados` of `JobQueue` holds until a loss; see section 6),
which `encolado` counts. A pass of the outbox may mark an event whose failed channel another
pass is reopening (`SinFallosTodoLlega` and `SinSolapeTodoReclamado` exclude it by their
hypotheses). A redelivery the API has accepted may be written over by the retry that was in
flight. Two revocations of users may deadlock over a family that was born between a look at
the families and the UPDATE: PostgreSQL aborts one of them, and `FamiliaSinInterbloqueo` says
that nothing else can. A page of the feed without a usable `rel=next` before the cursor ends
the pass there (`no_next_link`), and `cursor_siguiente` keeps the cursor for `exhausted` only
(`atom_live.py:282-291`): it goes to the newest notice, over those nobody read, which is what
the comment above it says the other stop must not do (`atom_live.py:274-279`). `NadaSeSalta`
names them (`huecos`); without that disjunct TLC finds it violated. And an `acquire` of an
alert window that is committed and raises leaves `ventana` at `None`: if the mail fails too
nothing frees the window, and the step's next failures are silenced for the cooldown with
nobody told, where `alerts.py:413-414` says that it is freed "si el correo no llega a salir".
`CalladaSoloSiAvisada` names that window (`huerfana`); without that disjunct TLC finds it
violated.

`CHECK_DEADLOCK FALSE` appears where the system really stops: a deleted webhook with
nothing in flight has nothing left to do, nor has a login whose requests are over, nor an
opportunity once the bounded requests are spent; in `Cierre` the bound is that of the jobs.

## 5. Fairness

Weak fairness, action by action, and only on what the code's loops do by themselves: a live
worker keeps polling (`run_forever` logs a failed cycle and goes on), a handler ends, the
platform restarts a dead process, a lost database comes back, a request has a timeout, time
goes by, a transaction that is not waiting for a lock goes on (and PostgreSQL breaks a
deadlock), and each closing starts a new pass of the dispatcher and of the retries. The
daily lane is launched every four hours and its steps end, days go by, the backoff of a
failed extraction runs out, and the portfolio is synchronized every day. In the cron plane
the loop of each instance goes on, as do the clock and `_con_lock`, and a job comes back some
day: the code cannot make it, and the job that never does is not launched again by its own
instance, as the code intends. Nothing
forces a job or an event to be created, a process to die, an endpoint to answer, or a
channel to succeed. `ColaSeVacia` assumes in its own statement that passes eventually stop
overlapping: two passes that fail for ever and reopen each other's snapshots do keep an
expired event pending, and TLC shows it.

## 6. Proofs

`JobQueue_proofs` proves, for every value of the constants that satisfies `TablaAssumption`,
`BackoffAssumption` and `LatidoAssumption`:

- `TypeCorrect`: `Spec => []TypeOK`.
- `ElLockEsDelEjecutor`: `Spec => []LockDelEjecutor`. The property alone is not inductive:
  that a sweep cannot take a live consumer's row needs that its row is never silent for
  longer than `MaxSilencio`, and that a claim cannot hand a row to two needs that a row with
  a lock is running. `DuenoInv` states both and is the inductive invariant.
- `ElIntentoEsFicha`: `Spec => []IntentoEsFicha`, with losses of the database: nothing
  lowers a row's counter, and a claim raises it above every number anybody holds.
- `ColaCumplePromesa`: `Spec => CumplePromesa`. `Arista` is the relation between two versions
  of a row that the promise allows; `AristaNext` shows that every step moves every row along
  it. A close by id is an edge only because the closer owns the row (`DuenoInv`), and a claim
  only because a waiting row has attempts left (`UsadosInv`): with both the invariant is
  inductive, and an edge is a step of the promise (`AristaCumple`).
- `SinCortesAcotados`: `IntentosAcotados` as long as no consumer has lost the database. The
  hypothesis is needed: `ack` and `fail` close by id, and a `fail` that comes back after the
  job was given to others reopens it.

`PlanoCron_proofs` proves, from `CerrojosAssumption` and `PlanoAssumption`, for any number of
instances and any budget:

- `TipoCorrecto`: `Spec => []TypeOK`.
- `ElSolapeEsTardio`: `Spec => []SolapeSoloSiTarda`. The property says nothing of the table;
  what is inductive is `CerrojoInv`: the row is of whoever took the lock and is within its
  budget, and has at least what is left of that budget to live. A lock can then only be
  taken when nobody is within a budget, a release or a renewal changes only the row of its
  own holder, and a tick takes one from both sides.

`Pursuits_proofs` proves, from `PursuitsAssumption` (the row found at the start is coherent,
a patch carries no dates), for any number of requests, editions and patches:

- `LaFilaEsCoherente`: `Spec => []Coherente`, and `ElEmbudoAvanza`: `Spec =>
  EmbudoSoloAvanza`, both if `Adelanto = 0`. `CambioCoherente` is the lemma about one patch:
  what the validation of a coherent row lets through leaves a coherent row, further on in the
  funnel. `FilaBien` is what makes it hold for many: the changes a request has in hand are
  valid for the row of now, if the version it will be compared with is that of now. It is
  inductive because the row moves only together with its version, and because no request
  carries a version the row has not reached: with `Adelanto = 1` TLC finds both violated, by a
  request that names the version another is about to write.
- `CadaEdicionUnaVez`: `Spec => []UnaSolaVez`, whatever versions are sent, from `LedgerBien`
  and `PlantillaBien` (whoever is creating the tasks inserted the reservation, alone, and no
  list is there yet).

`Outbox_proofs` proves, from `OutboxAssumption`, for any number of passes, events and
channels, batches of any size and any number of deaths:

- `UnaEntrega`: `Spec => []UnaEntregaPorCanal`. A pass delivers what it has claimed, and
  `Exclusivo` says that no other has the same in hand; `SinRepetir`, that until a channel
  raises half way what is out is claimed and what is in hand is not out yet.
- `SinSolape`: `Spec => []SinSolapeTodoReclamado`. `Solo`, `Avance` and `CerradoReclamado`:
  without overlap the channels behind a pass that has not failed are claimed, and nobody
  takes a claim away from behind it.
- `SinFallosLlega`: `Spec => []SinFallosTodoLlega`, from `SinLiberar` and `ReclamadoLlega`:
  while nothing fails, what is claimed is out or in somebody's hands.

`Webhooks_proofs` proves, from `WebhooksAssumption` (the emitters are finitely many and the
retry pass is not one of them), for any number of emitters, deliveries and attempts:

- `AceptadaEsFinal`: `Spec => EntregadaEsFinal`. A retry holds an older copy of its row, so
  what has to be shown is that nothing delivers the row behind its back: a first attempt has
  its delivery to itself (`Propio`), the retry pass has each one once (`LoteUnico`), and what
  it has is still pending with the attempts it read (`LoteAlDia`). `AceptadaCerrada` then says
  of what was accepted that its row is closed, or that its sender is about to close it.
- `Acotados`: `Spec => []IntentosAcotados`, because a pending delivery has an attempt left,
  the owner's redeliveries included (`QuedaIntento`).
- `SinEnvioOculto`: `Spec => []NoSeEnviaSinContar`, from `Contadas`, which says it of the
  retry alone; the property counts every process in flight.
- `SoloDefinitivo`: `Spec => []SoloCuentaLoDefinitivo`. It is inductive with the rest.

`McpOAuth_proofs` proves, from `McpOAuthAssumption`, for any number of families, tokens and
transactions:

- `UnSoloUso`: `Spec => []UsoUnico`. A token that issued a pair is revoked (`UnPar`), and a
  row written is alive until its transaction ends (`CerrojosBien`), so two exchanges cannot
  both have found it alive.
- `FamiliaSigueCerrada`: `Spec => []FamiliaCerrada`. `FamiliaEntera`: the UPDATE of whoever
  closes a family has taken, or has still to take, all that is alive in it. That no exchange
  adds to it meanwhile is the family's lock, which both hold before they touch a row.
- `UsuarioSigueRevocado`: `Spec => []UsuarioRevocado`, if `MaxPasadas >= 2`. The code makes up
  to five passes; with a single one the property is false (TLC shows it): an exchange that
  was in flight leaves a family the pass did not see. `UsuarioEntero` says what a revocation
  has still to write of the logins it found, and whose lock it lacks.
- `FamiliaNuncaSeTraba`: `Spec => []FamiliaSinInterbloqueo`. `InvOrden`: whoever has a row or
  goes for it holds the lock of its family, except the exchange of a code that had no family
  when it began, which holds one of its own making. In a set of transactions that wait for
  each other, therefore, nobody waits for a row but such exchanges, which have none yet; and
  who waits for a lock waits for one whose holder is past that point.
- `Tipado`: `Spec => []TypeOK`; among others, a revocation makes no more passes than it may.

Of `JobEncolado`, `JobQueue_proofs` also proves, from `TablaAssumption` and
`EncoladoAssumption`, for any number of callers, rows and organizations, `DuplicadosSiempre`,
`CuotaSiempre` and `DevuelveSiempre`: the three properties of its run. Together with the type
invariant they are inductive: the last bound of the counters is reached only by callers that
are in the middle of a call, so a caller that begins one, or finds nothing, takes a place that
was free. With consumers that close late it is not the active rows that have to be counted but
those that can still be active (`Vivo`): the active ones and the closed ones that some
consumer has in hand with attempts left, of which not every consumer can have one
(`AlgunoAlDia`). What moves from one set to another is counted with a few lemmas on finite
sets (`Encoge`, and those that follow it), which tlapm needs spelled out.

`Cierre_proofs` proves, from `TablaAssumption`, `CerrojosAssumption` and
`CierreAssumption`, for any steps, dependencies, leftovers of earlier closings and sweeps:

- `SiempreTrasSusDependencias`: `Spec => []DependenciasPrimero`. The property looks at the
  results, and needs the order in which jobs are claimed: ids and due times go the same way
  (`Turnos`), the jobs of this closing are one per step in the order of the steps
  (`Propios`), and when one is in hand all before it have their result (`Resultado`).
- `SiempreCompleto`: `Spec => []CierreCompleto`. Its hypothesis is about this closing: the
  rows that were not closed when its loop began, its own among them, fit in its laps. Each lap
  uses up one of them for good (`Gastados`, `Vuelta`), because a claim takes nothing that was
  not there by then (`Vivos`); `Restos` says where what was found waiting is.
- `NuncaCalladaSinAviso`: `Spec => CalladaSoloSiAvisada`, an action property, from `Ventanas`:
  a window that is open was told of, or the closing has it in hand to be freed, or its release
  failed or was not reached, or its `acquire` raised after the commit (`huerfana`).
- `Tipado`: `Spec => []TypeOK`.

`Pasada_proofs` proves, from `DlqAssumption`, `PasadaAssumption`, `RespaldoAssumption` and
`ReintentosAssumption`, for feeds of any length in either order, any batch, page limit,
months, entries and number of failures:

- `NadaSeSaltaNunca`: `Spec => []NadaSeSalta`, and `NadaSeSaltaAlReintentar`, the same of
  `ReintentosSpec`. The property is about the cursor; the run that will move it has to be
  described. `Lugar` says where the run is and where the cursor may go from there, `LoteBien`
  that the batch has the newest version read of each tender, `Cuenta` that every notice read
  is on record, in the batch, or (newest first) written. When the run ends what it has read
  reaches down to the cursor, or the cursor stays, or what is in between is the gap a missing
  link left (`hueco`, from the run to `huecos` when it ends). Besides that gap the only notices
  without a trace are those whose failure was not written down (`noAnotados`).
- `NadieRegresa`: `Spec => NoRegresa`. Newest first, nothing written lies beyond the top of
  the run (`Cimas`), so no later batch of it can bring something older than what is there.
  Oldest first, what a cut batch wrote beyond the cursor is reached again before the next
  batch is full (`Turnos`): before it there are fewer tenders than the batch holds. That
  count supposes the same parser, as `RespaldoZip` does. In `Reintentos` the parser may be
  repaired between two processes and more tenders are read in the same notices: the next
  batch may then fill up before, and an older version is in the table until the batch after
  it (TLC finds it with 3 notices and a batch of 2). Neither `Cimas` nor `Turnos` is needed
  for the rest, and they are kept apart (`Orden`).
- `ResueltaSiempre`: `ReintentosSpec => ResueltaEsFinal`. `EnCurso`: what the sweep, the retry
  queue and the administrator have read are rows of the table, which lose none.
- `Tipado` and `TipadoReintentos`: `Spec => []TypeOK`, `ReintentosSpec => []ReintentosTypeOK`.

Every inductive invariant was first checked by TLC on the bounds of its run.

`BackoffAssumption` says that an exponential of naturals is a natural: arithmetic that the
provers do not have.

What TLC alone checks: the liveness properties (`TodoTermina`, `ColaSeVacia`,
`TodaEntregaTermina`, `TodaTransaccionTermina`, `TodoAvisoEntra`, `TodaEntradaSale`,
`SiempreVuelve`, `CarteraAlDia`), because liveness under fairness is out of the prover's
reach.
No module declares a RECURSIVE operator.

## 7. Not modelled, and why

What the models take from the environment, and would not hold without:

- The marks of two notices of a feed are different and grow; a file of a monthly ZIP has one
  notice. Parsing, documents and health records are left out, and so is the first run of a
  source (bootstrap), which has no cursor to leave anything behind.
- `TodoAvisoEntra` is checked with a new disk for each pass, as in Actions. On a worker with a
  disk of its own `download_month` returns the ZIP it already has, and a second fall back in
  the same month reads the notices of the first: with `DiscoEfimero = FALSE` and four notices
  TLC finds the property violated; with a new disk the same four satisfy it.
- The clients of a PATCH send back a version they were given, as the console does. The API
  takes any number: one that names a version to come passes the check with a patch that was
  validated against an older row (`Adelanto`, section 6).
- One clock. `acquire` compares the expiry one host wrote with the `now` of another;
  `PlanoCron` gives them the same.
- One closing, one retry pass and one daily lane at a time: the workflow's concurrency group
  excludes two, nothing in the tables would.
- In the cron plane the timeout of a job is the TTL of its lock, so when the thread outlives
  it the lock may have expired before it is renewed. `SolapeSoloSiTarda` says that this is
  the only way an owner is overlapped.

Inside the modelled parts: deferred `run_after`, the handlers' own work, signatures and
secrets, who the recipients of a channel are, metrics and logging. The cadence of the steps
(`_run_periodic`): its window is taken before the step and given back only on an exception,
with one process there is nothing to race with. Entries of the DLQ whose source is unknown
(`mark_exhausted`). Of the opportunities: the row of the minutes (`fila_acta`), the next
action and the kit, which are single writes of other tables, and the notices and renewals of
the portfolio; a correction of the amount is not shown in a contract dated by hand, and a
process that dies after the reservation of the template leaves it without tasks: both are
in the model and no sentence of the repository says otherwise. The counters of attempts
are unbounded in the modules; in the runs they are bounded by the caps, the number of losses
or of owner's actions.

The catalogue of events, upserts and deduplication of tenders, the models, embeddings,
retention, the frontend, observability, migrations and scripts are data transformations,
numbers, pure I/O or user interface; sessions and limits are single conditional statements.
Each is listed with its reason in `PROJECT.json`.

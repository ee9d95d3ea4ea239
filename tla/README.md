# Sarathi in TLA+

Sarathi is a desktop application (a Tauri shell, a Rust core, a React page) that
runs language models locally and serves them to coding agents over HTTP. This
directory holds TLA+ modules that model the parts of it where threads, processes,
screens and files meet, TLC configurations that check them, and proofs that TLAPS
checks. Paths below are relative to `src/src-tauri/src/` unless they start with
`src/`; a bare page name is under `src/src/pages/`.

To run: `tlc -workers 2 -config MCLibrary.cfg MCLibrary`, `tlapm Scheduler_proofs.tla`,
and so on; the tables below name each pair.

## 1. The system

| Part | State it keeps | Operations | Hard behaviour |
|---|---|---|---|
| Model host (`ai_engine/manager.rs`, `session.rs`) | the runtime behind a mutex; a status mirror read without it; the active package; `session.json` | load, unload, `ensure_context_at_least`, `grow_context_towards` | records of one fact, written one after the other outside any common lock; a load that fails has already freed the old model; reloads that must restore it |
| Load planning (`ai_engine/vram_planner.rs`, `gguf_meta.rs`), system analyzer (`system_analyzer/`) | one hardware profile, scanned by one thread at a time | scan, override, plan, load with fall back | arithmetic over sizes that decides how many layers a card takes; a profile another thread is still scanning |
| Generation scheduler (`ai_engine/scheduler.rs`) | an mpsc queue, a depth counter, a cancel flag per job, one watcher thread per running job | submit, cancel, drop the receiver | every watcher writes the one flag all generations share; the worker joins the watcher; many early returns |
| Inference runtime (`ai_engine/runtime.rs`, `lora_binding.rs`) | weights, the reused context (`GenerationSession`), the adapter cache, `is_generating` | load, unload, generate | a token list that must mirror the KV cache; recurrent models refuse partial trims |
| Gateway (`gateway/`) | request counters, one task per request, a stream sieve | OpenAI and Anthropic chat, streamed or not, with tools | clients hang up anywhere; the first chunk decides the status line; tool calls arrive cut anywhere; two dialects, each built twice |
| Capability layer (`capability/`) | the tracker of the conversation; the Laya process with its pending requests | classify, decide, resolve, commit; boot, ask, shut down | hysteresis over several turns; answers that come after the question was given up |
| Download manager (`download_manager/`) | a task map, a map of cancel senders, files on disk | start, resume, pause, cancel | calls, the tasks they drive and the files are tied together only by a task id; kills; servers that ignore ranges |
| Adapter manager (`adapter_manager/`, `commands/adapters.rs`, the sweep in `download_manager/manager.rs`) | per package: adapter directories and `manifest.json` | install, remove, reassign, set default, startup scan, Laya's sorting, sweep, repair at load | every operation reads, changes and writes back the whole file, with no lock; two shapes of the file; kills inside a write |
| Conversion (`lora/`) | files of one adapter directory | fetch, convert, replace, verify, register | kills between any two files |
| Model library (`model_providers/huggingface/`, `commands/catalog.rs`) | the session's listing, the stored one, the engine's, the rate-limit window, the token; of one resolution, the files listed and the headers read | browse, search, refresh; resolve an artifact | sweeps that break off, several readers of one window; requests that fail while a file is being chosen |
| Recommendation (`model_recommendation/`) | packs on disk | budget, estimate, score, pick, validate | bands and thresholds; packs of another version |
| Model store (`model_manager/`), Storage and Discover pages | the last scan; React state fed by replies and events | list, delete, search, install adapters | overlapping requests answered in any order |
| Launcher (`launcher/`, `commands/launcher.rs`, `Launch.tsx`) | a detection cache, launched windows, a config per tool | detect, install, launch, stop | a sweep of probes beside polls and installs; specifications, servers and files checked apart and written together |
| NotebookLM (`notebooklm/`) | a snapshot, a remembered verification, a registry entry | startup, check, sign in and out, install, register | each publishes a copy it took before an await |
| Memory engine (`memory_engine/`) | nodes per project in SQLite, one profile, a sidecar on one pair of pipes | mine, retrieve, search, switch project | a request and its answer under different locks |

Interactions. The page and the launcher call the model host by Tauri commands,
each on a blocking thread. A desktop chat asks the memory engine, then the capability
layer (which may ask Laya), then takes the runtime mutex; gateway requests go through
the scheduler's queue to its one worker, which takes the same mutex. Stop and the
watchers reach the running generation only through `is_generating`, published in the
mirror. The gateway reads a job's channel and cancels the job through a guard that is
dropped with the request. What a load does to the machine is planned from the hardware
profile. The launcher asks the host for a context before it starts a tool, and writes
the gateway's address and the MCP servers into the tool's own files. A download begins with the resolver, which picks the file and
hands its shards and their sizes on. The download manager's tasks share two maps with the commands; the store lists whatever it renames
into place. The screens learn of all this by replies and events in any order.

What makes each part correct is the list of properties in section 3.

## 2. The modules

| Module | Models | How its state and actions correspond |
|---|---|---|
| `ModelHost` | the model host | a command is a thread with a program counter and a stack frame `cmd[k]`; one action per lock, mirror write, package write |
| `Scheduler` | EXTENDS `ModelHost`: clients, worker, watchers, desktop chats, Stop, and the generation loop with its flag | one action per access to the flag, the queue, a channel or the mutex |
| `GenerationService` | what clients are promised: a FIFO of streams that carry tokens, at most one ending, and close | abstract; `Scheduler` implements it |
| `Placement` | hardware scan, GGUF header, planners, `build_load_config`, `load_model` | `profile` and `scan` are the analyzer's; `load` is one load's frame: build, plan, load; the planners are operators over sizes in MiB |
| `Recommendation` | budget, estimates, scores, grid search, packs and their validation | one action per cell of the grid; `best` is the pick so far; `packs` what is on disk, `running` the installed version |
| `Gateway` | EXTENDS `GenerationService`: both chat handlers, the peek, the guard, the counters | checked against the promise, not the worker |
| `ToolStream` | the tool-call parser and the stream sieve | `full`, `released`, `closed` are the sieve's fields; a text is a sequence of symbols, pushed one chunk at a time |
| `Dialects` | both protocols, streamed and buffered, with tools and the fitting of tools to the context | `events` is what was sent; `Client` is where a client of the protocol stands after it, `Buffered` the whole response |
| `Launcher` | specifications, servers, files written for a tool, launches and their windows | `config[i]` is what a tool's file holds and what the start screen said of it |
| `ToolDetection` | the detection cache, its sweep, the Launch page's cards | replies overtake each other on their way to `card` |
| `LayaRouter` | callers, pending requests, pipes, reader thread, process | `stdin` and `stdout` hold request ids; the process answers, hangs or dies |
| `Capability` | classification, hysteresis, resolution, commit and badge of a turn | `active` and `unsupported` are the tracker's fields; `lapsed` counts what the properties need |
| `KvSession` | the context kept between turns, beside what the KV cache really holds | sequential: `ModelHeld` shows that one turn or load is inside at a time |
| `AdapterStore` | one package's manifest and adapter directories under all their writers | each operation is a thread's program counter and its copy of the manifest |
| `Conversion` | one adapter directory from fetch to registration | `folder` says of each file none, torn or whole; `Kill` falls anywhere |
| `Download` | one model being downloaded: calls, task record, sender, files, the deletion task, kills | files are sequences of chunk numbers, 0 a damaged one |
| `Resolver` | which file of a repository a download is for: the paged listing, the ranking, the header of each candidate, its shards | one action per request; `left`, `at`, `refused`, `preferred` say where each candidate is |
| `Catalogue` | sweeps, searches, three copies of the library, token and window | `job` is each call's frame, `stored` the file, `session` the in-memory copy |
| `Storage` | the shared scan, deletion, the Storage page, the download bars | `call` is each command waiting for the scan; every look at the disk has a number |
| `Discover` | the Discover page's loads, spinner, banner, and the background refresh | `load[l]` is one call of `load` and its reply |
| `AdapterRows` | installing adapters from the drawer and from Storage | `row` is what a row shows, a loop is one `runInstalls` or `installSelected` |
| `NotebookLM` | the manager, its record, its snapshot and the store of the card | the startup sequence and one user action, each with a frame |
| `Memory` | turns, searches, projects, the sidecar and its pipe | `stdin` and `stdout` are the pipes, `kept` the database |
| `*_proofs` | theorems | section 5 |
| `MCLoading`, `MCLibrary`, `MCGateway`, `MCAdapters`, `MCProcesses`, `MCScreens` | values for TLC, and a component `part` that says which of several independent modules a behaviour is of | section 3 |
| `MCScheduler`, `MCDownload`, `MCMemory`, `MCStorage` | values for TLC | |

How code becomes actions. A step ends where another thread can see or change
what the code uses next: taking or releasing a mutex, each access to a shared
flag, each send on a channel, each write to a map, each `await`, each file operation a
kill can separate. Inside one lock the body is one action. Every early return and every
`?` is a disjunct. Outcomes that depend on data the models do not hold (does the
file open, does the server answer, is this token the end) are nondeterministic.

Choices that a reader of the code may ask about:

- In `ModelHost`, context lengths are in units of half the working context. `LoadContexts`
  abstracts the placement of layers, which does not change the length, except for a certified
  package: its context is computed anew at each load from the memory there is then, so any
  length up to its certificate's is possible. Writing `session.json` may fail or leave a file that names
  nothing, and the code ignores it.
- In `Scheduler`, "length" also stands for the runtime's ending at a full window. A
  watcher whose thread cannot be spawned is tolerated by the code, hence the choice in
  `StartGenerating`. `submit` fails only when the worker has died of a panic; panics are
  not modelled.
- In `Placement`, a MiB is the unit of memory and 1024 tokens the unit of context, so
  that their product is again MiB; divisions round down as the code's do.
- In `Recommendation`, the program's floating point is rounded down to thousandths
  and hundred-thousandths; contexts are powers of two, so its logarithm is exact.
- In `ToolStream`, a symbol is a word, a piece of a marker, or a JSON value that names a
  tool or not; `Openers`, the six formats and the order in which the parser tries them
  are the code's.
- In `Dialects`, an answer is a sequence of pieces, each a run of prose, a fence or a call, in one
  of the parser's formats, which differ in how much prose they keep; it may begin with blanks, which the
  parser trims. Lengths are in units that make one tool definition too long for the smaller window.
- In `KvSession`, `Trim`'s conversion of a position to `u32` cannot fail within a window.
- In `Download`, a pause is one step: the streaming task does nothing between the
  flag and the status write that it could not do just before.
- In `AdapterStore`, `Readings` is what `read_manifest` returns: a set, because a hash
  map's order decides which of two records with one id is kept when a file without an
  inventory is migrated. The slot an adapter's tags, name or model card give is a
  constant of the instance.
- In `Memory`, an answer is tagged with whom it is for; no action reads the tag, only the
  properties do. A message may be `wide`: a character of it lies across the byte at which a log line
  cuts it, and the turn or the search is lost to a panic (`Cut`).
- In `NotebookLM`, a save is three steps (`Open`, `Fill`, `Rename`) on one temporary document,
  taken after the record's lock is gone; any of them may fail, a kill may fall between any two. A
  leftover temporary document counts as gone, since the next save empties it first. What a check
  that fails is taken for is free: refusals are recognised by words in the tool's output, which any
  failure may contain.
- In `Storage`, the rows' buttons do not wait for each other: one field holds the busy row, and
  whichever handler ends clears it. `Handlers` bounds how many run at once.
- In `NotebookLM` and `ToolDetection`, actions named external in `PROJECT.json` are the
  user, Google and the package manager, which may act at any time.
- Definitions that start "Mutant of" or "A mutant", or stand under "Mutants", are the
  plausible mistakes that show each property can fail; nothing else uses them.

## 3. What is checked

| Run | Configuration | Distinct states | What it shows |
|---|---|---|---|
| `loading` | `MCLoading` | 52 thousand | *host*: mirror, package and runtime agree after every success and failure (`StatusInStep`); a reload delivers what it reports, whatever memory it found, and no less context than before unless a certificate limits it (`ReloadDelivers`) and ends without a model only when the restore failed too (`ReloadKeepsAModel`); no model exceeds its own maximum (`ContextNeverInflated`). *placement*: what the plan puts on the card and in RAM fits both (`PlacementFits`). *recommendation*: more memory never costs a model its recommendation, nor its score by more than the drop at the safe headroom: whatever way a lesser machine runs it, what is found scores as much (`MoreNeverHurts`); a certificate refuses a load only by a profile the running version has given up, whichever version seeded the packs (`RefusalIsStale`). *laya*: an answer is used only for its own question (`OwnAnswer`); every call returns while the pipe does not stay full (`CallsReturn`) |
| `scheduler_jobs` | `MCSchedulerJobs` | 499 thousand | two queued jobs and a load or unload: `DepthCounts`, `CancelStaysLocal`, `ImplementsService` (the refinement), `StreamsClose` |
| `scheduler_shared` | `MCSchedulerShared` | 714 thousand | a job, a desktop chat, two model commands and Stop share the runtime: `ModelHeld` |
| `scheduler_lost_cancel` | `MCSchedulerLostCancel` | violation | a cancel overwritten by the generation it should stop |
| `library` | `MCLibrary` | 453 thousand | *download*, five kinds of artifact and server: `PartIsPrefix`, `InstalledIsGenuine`, `InstallIsWhole`, `CallsEnd`. *catalogue*: a sweep cut short never costs the stored library a repository (`NeverShrinks`). *resolver*: a repository yields a whole model whose header, if it could be read, says it is one, or a refusal the files account for (`ResolvedIsSound`) |
| `download_twice` | `MCDownloadTwice` | violation | two streams on one `.part` |
| `gateway` | `MCGateway` | 679 thousand | *gateway*: a job is cancelled exactly if its client left (`CancelledIfAbandoned`), an answer is whole and a failure an error (`AnswerIsHonest`), every request is answered (`RequestsAnswered`). *sieve*: no piece of a tool call is streamed as text, and no text is sent twice or lost (`StreamedIsProse`). *dialects*: what a client assembles is well formed (`ClientFollows`), and a stream carries each call once, no prose twice, and what the response would keep (`AnswerArrives`) |
| `adapters` | `MCAdapters` | 1.9 million | *store*: what a turn would bind is in the inventory (`BoundIsInventoried`); no install, sorting, sweep or repair takes a live slot over (`LiveSlotsKept`). *conversion*: a converted file is there whole or not at all (`ConvertedIsWhole`). *session*: reuse is invisible (`CacheMirrorsConversation`) and a continued conversation decodes only what is new (`ContinuationIsFree`). *capability*: the adapter changes only when several turns or a pin earned it (`ChangeIsEarned`) |
| `processes` | `MCProcesses` | 633 thousand | *memory*: the pipe owes one line to each caller waiting for one (`OneLineEach`); a turn reaches the model, or is lost to a log line, if the sidecar answers, however it answers, or dies (`TurnsEnd`). *notebook*: what the next start reads is what this run remembers, unless a save failed or two overlapped (`RecordKept`). *launcher*: a server announced to the user is in the tool's file (`AnnouncedIsWritten`) |
| `memory_scope` | `MCMemoryScope` | violation | a prompt recalls another project's memory |
| `screens` | `MCScreens` | 502 thousand | *discover*: the spinner is up exactly while the one search the user waits on is out (`OneSearchAtATime`). *storage*: the page never goes back to an older look (`ShownNeverOlder`). *rows*: every adapter asked for is installed or told to have failed, if the network keeps none of them for ever (`EveryRowEnds`). *detection*: an installed tool is eventually shown, if no probe hangs (`InstalledIsShown`) |
| `storage_deleted` | `MCStorageDeleted` | violation | a deleted model is listed again |

Several runs hold more than one part. The parts are independent modules with
variables of their own; `part` is chosen at the start, a behaviour takes steps of that
part only and the other variables stay as they begin. Nothing is gained or lost
by the combination: the states are the sum of the parts' states, each property
speaks of one part, and fairness is stated for a part's actions only in its own
behaviours.

`loading` checks deadlock: its host rests only when every command has returned. The
other configurations say `CHECK_DEADLOCK FALSE`: their jobs, calls and presses are
bounded, and a system whose work is done stops.

Bounds, and why they are enough.

- *host*: three models cover a profile that promises more than it was trained for,
  a certified one and one with an unreadable header; the wanted contexts fall below,
  between and above their limits; four operations reach a grow after a load, its
  failed reload, the restore and one operation more.
- *placement*: a card of 4 GiB beside an integrated one that claims 13; a dense model that
  nearly fits, the same with a certified profile, a mixture of experts in three shards,
  one whose header cannot be read; two context floors, three threads that may scan.
- *recommendation*: thirteen machines, most of them pairwise comparable, on both sides of every band; four
  models, one a mixture, one of a short window; two versions of the packs that name
  each other's profiles or not.
- *laya*: one caller of each kind and the boot; four requests let one expire, be
  answered late, and another be asked meanwhile; the pipe holds two requests, so that a hung
  process and two callers that gave up fill it.
- `MCSchedulerJobs`: two jobs are the least for which one waits behind another and a
  watcher can outlive its job; one prefill chunk and one token because the loop body
  is the same each time, and the flag is read before each. `MCSchedulerShared` trades
  the second job for a desktop chat and a second command.
- *download*: two shards separate the first from the others; two or three chunks
  let a resume start in the middle; two attempts give one retry; two kills let one
  fall in the recovery from another; one cancel, since a second finds no task. A range
  answered from elsewhere starts at any chunk.
- *resolver*: two pages, so that a shard can be listed on the second or cut off; two attempts
  give one retry; a header of one, two or four slices; ten repositories, with a helper
  that ranks first, a split model that lacks a shard, names of either form, none at all.
- *catalogue*: one repository any page reaches and one only a token's pages do; a reader,
  a searcher and an engine, of which the last two are not in progress together; a window
  of two requests that one sweep exhausts; one change of token; one tick of the clock.
- *gateway*: two requests compete for the service; two tokens tell the first chunk,
  which `peek` takes, from the rest.
- *sieve*: every text of up to four symbols, from three vocabularies that between them
  hold all markers, cut in every way: an opener is two symbols, so it can be cut, lead,
  follow prose, or stay unfinished.
- *dialects*: no, one or two tools; two windows and two lengths of conversation and
  answer, so that tools fit, fit in part, or do not; four pieces, so that prose stands before,
  between and after two calls; both dialects, both modes, three ways of keeping prose.
- *launcher*: two tools, one shipped and one the user's own; three user entries, one of
  them replacing the shipped one; three servers of which one is invalid and one is off.
- *store*: two slots let an adapter move from one to the other; of the three
  repositories one has a telling name, one is told only by its tags, and one is also
  what the sweep finds. Six operations reach a reassignment, a sweep that drops the
  inventory, and a scan after it.
- *conversion*: seven repositories, one per early return of the conversion; three base
  architectures; two kills, so that one falls in the recovery from another.
- *capability*: two slots with strong and weak keywords, and verdicts of Laya on both
  sides of both thresholds; the turns are not bounded.
- *session*: two tokens make prompts that agree and then part; prompts of four in
  batches of two need two chunks; windows of three and four let a prompt be too long,
  exactly too long, and fit; two loads let a context meet the wrong model.
- *memory*: one turn and one search, two projects, one node (two for the violation,
  which has to mix two projects up), one move.
- *notebook*: the startup and one press of any button, one session file: two processes that
  can save at once. The programs are both there at first, or neither, and the registry agrees;
  installs, registrations and restarts reach the rest.
- *discover*: four loads and two background refreshes; *storage*: two refreshes, each of
  two commands, one handler at a time (three refreshes and two handlers for the violation), one
  model present and one on its way; *rows*: two adapters, two loops;
  *detection*: one tool, two blocking tasks, two replies on their way.

Fairness. Threads, blocking tasks and spawned tasks that can run do (weak fairness on
each one's steps): `Proceed`, the worker and watchers, the download's tasks, handlers,
readers of a pipe, sweeps, loops of the page. `TakeRuntime` is weakly fair although the
mutex is not a fair one, because in the bounded instances only finitely many others
ever take it. The callers of Laya and of the memory sidecar contend for a lock others
take again and again; they have strong fairness, which an operating system's mutex
gives in practice and without which no blocking call can be shown to return. The
gateway's service is fair, which is what `StreamsClose` shows of the scheduler. The Launch
page polls and its replies arrive while it is open.

Nothing is assumed of the network, of the processes the application starts, of clients, of
the user, or of Stop being pressed. The waits the code puts no limit to appear as premises of the
properties instead, so that each says what it depends on: the download's and the
resolver's clients set no timeout (`download_manager/manager.rs:1125`,
`model_providers/huggingface/resolver.rs:383`), and a stalled stream notices neither a pause nor a
cancel (`CallsEnd`: no wait for the network lasts for ever); nor does that of
`download_adapter` (`commands/adapters.rs:196`; `EveryRowEnds`: every install that is waited for
returns); a probe waits for its subprocess, and a sweep for all its probes
(`launcher/mod.rs:317`; `InstalledIsShown`: probes end); `call_rpc` waits for its line
(`memory_engine/adapters/sidecar_adapter.rs:90`; `TurnsEnd`: requests are taken off the pipe); and
a write to Laya's pipe waits for room (`capability/laya.rs:288`; `CallsReturn`: the pipe does not
stay full), while its answers have deadlines, so that nothing else is asked of that process.

## 4. Disagreements

Four runs expect a violation: the code does something else than a comment or doc says,
each on the smallest instance that has it, told as TLC's trace tells it.

- `scheduler_lost_cancel` (`CancelReachesPrefill`): the watcher sees the cancel, clears the flag and
  exits; `generate_with_capability` then raises the flag unconditionally
  (`ai_engine/runtime.rs:790`), and nobody is left to relay the cancel again. The
  doc: "Takes effect within one token, or within one prefill chunk"
  (`ai_engine/scheduler.rs:68`).
- `download_twice` (`InstalledIsGenuine`): two starts both pass the check for an active task
  (`download_manager/manager.rs:288`) before either inserts its own (:321). The first receives the
  file and checks its sum; the answer to the second then truncates the `.part` they share (:1357), and
  the first renames an empty file into place and reports Completed, against "Written, verified and
  renamed into place" (:37). A pause and a restart before the first stream notices lead to the same.
- `memory_scope` (`ScopedStrictly`): the reader of the pipe takes the next line, whoever asked
  (`memory_engine/adapters/sidecar_adapter.rs:90`); a search in one project and a turn in
  another exchange rankings. The doc: "scoped strictly to project_id"
  (`memory_engine/retriever.rs:24`).
- `storage_deleted` (`DeletedIsGone`): a scan that walked before a deletion and finished after the question
  answers it (`model_manager/store.rs:103`), against "the next look must not be answered from
  the scan taken before the deletion" (`commands/download.rs:133`). It takes three refreshes.

The next ones are stated in the modules as properties the code does not have; no
configuration names them. To see a counterexample, add the name (through the MC module's
instance) to the configuration of the part's run.

| Definition | What the code does |
|---|---|
| `KvSession!AdapterHonest` | a context whose adapter failed to bind is filed under the adapter asked for (`ai_engine/runtime.rs:1028`); the next turn reuses it and reports no failure, against "Each turn reports its own outcome" (:773) |
| `AdapterStore!FirstBecomesDefault` | after a sweep that found nothing, its placeholder is the slot's default (`adapter_manager/mod.rs:182`), and the first adapter installed is not bound (`commands/adapters.rs:452`) |
| `AdapterStore!NotUsedStays` | an adapter set to Not used still fills a slot, or fills it again once another operation rebuilds the active view (`commands/adapters.rs:598`; "would undo that choice, every launch, forever", `adapter_manager/mod.rs:684`) |
| `Conversion!RecordedIsThere` | a reinstall that fails in its fetch has already removed the file the manifest names ("Leaving it behind would point a capability at", `commands/adapters.rs:557`) |
| `Conversion!ListedIsWhole` | a kill inside a fetch, or a write that fails on a full disk, leaves half a GGUF under its final name (`commands/adapters.rs:301`), and the list shows it. With two installs of one directory at once `ConvertedIsWhole` fails too |
| `Capability!NoSwitchOnOneKeyword` | one strong keyword reaches the threshold alone, against "neither an isolated keyword" (`capability/classifier.rs:20`) |
| `ModelHost!GrowNeverShrinks` | a grow of a certified model reloads it with what the memory allows now, which may be less than it had, and reports success (`ai_engine/manager.rs:383`, :1039), against "Grows the context towards `wanted`" (:310) |
| `Placement!ReportedIsApplied` | a load that fell back to the processor reports the layers it was asked for, against "Report what was actually applied, not what was requested" (`ai_engine/runtime.rs:600`) |
| `Placement!BudgetWasFree` | the budget can exceed what the card had free when it was scanned, against "can actually give the model right now" (`ai_engine/manager.rs:1147`) |
| `Recommendation!PickHasTopGrade` | the pick is the highest score, which may be graded below a configuration it beat, against `model_recommendation/scorer.rs:326` |
| `Recommendation!MoreNeverLowers` | the memory mark is a tenth below 5 % of free memory and nothing at 5 %, so a little more memory makes the same way score less: from 7420 to 7440 MiB of usable video memory, a model goes from its fourth quantization at 4096 tokens to its seventh at 8192 (`model_recommendation/scorer.rs:278`), against "Headroom is a safety requirement, not a prize" (:268) |
| `Recommendation!CertifiedStillLoads` | a certificate seeded by one version may meet a profile whose pinned version, or template, the version after an update no longer accepts: it then refuses a load that a model without a certificate is granted (`model_recommendation/runtime_validator.rs:91`), against "rather than dead-ending" (:65). No version shipped so far raises the minimum |
| `LayaRouter!NeverLonger` | a process that hangs stays Ready; each turn that gives up on it leaves its request in the pipe, and the write that finds it full blocks for ever with the link's lock (`capability/laya.rs:288`), every later turn behind it, against "A turn never waits longer than" (:20) |
| `Download!NothingShortInstalled` | a 206 that starts elsewhere than asked truncates the `.part` and is written from zero, and its own `Content-Length` becomes the size the file is checked against (`download_manager/manager.rs:1341`, :1366): without a sum a piece of the file is installed, against "is silently short still loads far enough to produce fluent nonsense" (:1223) |
| `Resolver!RequestedIsKept` | a request for a header that fails three times makes the resolver go on, and take another build whose header can be read (`model_providers/huggingface/probe.rs:228`), against "Downloading a different build than was requested is a worse outcome than downloading an unverified one" (:255) |
| `Catalogue!SearchesFind` | a search's own listing request takes the window down to the reserve; its fetch of repositories then stops for the reserve, and the search comes back empty although the Hub would have answered ("with this much in hand keeps everything the user does next working", `model_providers/huggingface/live_catalog.rs:129`) |
| `ToolStream!KeptProseArrives` | when an answer with calls begins with blanks they are streamed; the parser trims its text, which then does not begin with what was streamed, and the rest of the prose it keeps is never sent (`gateway/toolcall.rs:180`) |
| `Dialects!SameAnswer` | for the same reason a stream may lack prose the response has; and where the format keeps less prose than was streamed before the call showed, it has more |
| `Dialects!SameBlocks` | the blocks of a streamed answer that starts with a call are numbered from one, of a buffered one from zero, against "the same block ordering the buffered form produced" (`gateway/server.rs:846`) |
| `Launcher!FloorIsMet` | a load or reload between meeting a tool's floor and starting the tool leaves it below the floor, against "gets it met before anything is written or started" (`commands/launcher.rs:268`) |
| `ToolDetection!RefreshIsFresh` | a press of Refresh while a sweep is in flight returns at once, and the sweep then stores what it saw before ("Refresh has to mean refresh", `launcher/mod.rs:217`) |
| `Discover!BannerIsLive` | a refresh that ends before the first reply lands leaves its banner up ("Rendered only while a refresh is running", `Browse.tsx:511`) |
| `Discover!SearchIsKept` | a background reload issued before a search and answered after it replaces the results ("would discard what they asked for", `Browse.tsx:334`) |
| `Storage!BarsAreAccurate` | an event before the subscription is missed, and the listing was taken before it ("the event stream keeps them accurate regardless", `src/src/hooks/useDownloads.ts:122`) |
| `AdapterRows!UntickedStays` | a second lookup ticks again what was unticked ("unticking a suggestion makes it stay unticked", `Browse.tsx:1140`) |
| `AdapterRows!RowsEnd` | a download that stalls has no timeout (`commands/adapters.rs:196`) and leaves its row and every later one waiting, against "abandon the others" (`Storage.tsx:336`) |
| `Memory!TurnsAlwaysEnd` | a sidecar that lives and is silent holds the turn for ever (`memory_engine/adapters/sidecar_adapter.rs:90`) |
| `NotebookLM!SignOutSticks` | a startup check that asked before a sign-out and is recorded after it forgets the sign-out |
| `NotebookLM!NeverHalf` | two saves at once share one temporary file: one empties what the other renames into place, and a kill then leaves the next start nothing remembered, against "an interrupted write cannot leave a half-document" (`notebooklm/state.rs:100`) and "Only Google demotes a session" (`notebooklm/manager.rs:25`) |
| `NotebookLM!BusyIsReal` | an action that publishes the snapshot it copied during the startup probe leaves the card checking (`notebooklm/mod.rs:58`) |

Met while modelling, and not kept as properties:

- *Model host.* A reload that succeeds below the wanted context is kept
  (`ai_engine/manager.rs:278`), against "left loaded exactly as it was" (:213). Two load or
  unload commands may publish to the mirror in the other order than they used the runtime
  (:502); the records are therefore checked with one command. A load that fails clears the
  mirror, not the active package (:490). A restore passes no floor (:289).
- *Scheduler.* The watcher of a job cancelled while it waits for the runtime clears the
  flag of the desktop chat inside it (`ai_engine/scheduler.rs:251`). Counting and sending
  are two steps (:178), so of two submits each may be told the other's position. Failures
  that leave `generate_with_capability` through `?` keep the flag raised
  (`ai_engine/runtime.rs:910`).
- *Placement.* Without a readable header both planners assume 32 layers, which over-commits
  a model with fewer; a certified package is given its certificate's context, which may exceed
  a shorter one the user set and the layers were planned with, so that its cache no longer fits
  (`ai_engine/manager.rs:1039`): with 32 layers, 3800 MiB of weights, a 4 GiB card, a request for 1024
  tokens and a certificate for 4096. `PlacementFits` sets such packages apart (`Overruled`); an integrated card's budget and the host's count the same memory;
  a waiter's guard may clear a scan's flag that is not its own; manual overrides are lost
  on a rescan; a profile is scanned once and its free memory believed ever after.
- *Downloads.* A connection that opens sets Downloading over a pause
  (`download_manager/manager.rs:1383`). A cancel while a request is under way finds no
  `.part`; the answer creates one (:1357). A cancel while resolving is undone when the
  task is inserted again (:986). A `.part` that is complete is asked for a range past its
  end (:1310); the 416 is fatal, on every later attempt too. The deletion a cancel leaves
  behind can remove the `.part` between the reading of its length and the answer: only a
  SHA-256 sum notices. Hence `Vouched` in `InstalledIsGenuine`.
- *Adapters.* The manifest has no lock: with two threads `BoundIsInventoried` and
  `LiveSlotsKept` fail by lost updates, and are checked with one operation at a time. It
  is written in place (`adapter_manager/mod.rs:462`), not "atomically" (:467). A reassigned
  adapter stays in its former slot, against "keeps an adapter from occupying two slots"
  (:687). A scan registers a recorded directory without the test `claim_capability` makes
  (:784), and can evict a choice of the user's; `LiveSlotsKept` leaves the scan's own write
  out. Removing an adapter leaves its record. A leftover adapter `.part` as long as the
  listing says is recorded as installed without being renamed
  (`download_manager/manager.rs:511`).
- *Conversion.* An A factor without its B is written; magnitudes and `modules_to_save` are
  skipped silently; anything above 100,000 bytes counts as weights.
- *Gateway.* A request whose client hangs up stays counted (`gateway/server.rs:759`): a
  dropped future never reaches `finish_request`. Without tools in the request, call markup
  is sent raw when streamed and parsed when buffered. A stream that is cut ends with a
  stop reason outside Anthropic's vocabulary. Tool calls in an OpenAI history are not
  counted when tools are fitted.
- *Capability.* A pinned turn does not reset the count of unsupported turns; a corrected
  badge says "base"; the reset meant for a new chat is never called; the package may change
  between preparing a turn and generating it.
- *Library.* An empty listing is kept for its ten minutes; a listing is stamped before it
  waits for the lock; a token changed during a sweep stores the old token's library as the
  new one's; entries carried over never age. `parse_hf_repo_to_metadata` has no caller.
- *Recommendation.* The formula in the scorer's header is not the one it computes; a pack
  seeded by an older version wins forever; of eight shipped certificates seven name a
  profile that is not shipped.
- *Screens.* A deletion that fails refreshes nothing; a download that ends never
  invalidates the scan.
- *Launcher.* Two windows of one tool may be opened; a placeholder in inline YAML or in the
  arguments is accepted by validation and not substituted.
- *NotebookLM.* A subprocess's pipes are read only after it ends, so one that writes
  more than they hold waits for its deadline; a second probe demotes Connected; the
  fingerprint is recorded after the check it is to vouch for.
- *Memory.* A swapped answer to a mining call loses its facts silently; the active project
  is not persisted and is read twice in a turn; a foreign-key failure is only logged; all
  projects share one profile. Log previews cut texts at a byte, which panics inside a wide
  character and loses the turn or the search (`commands/inference.rs:127` and :138,
  `memory_engine/extractor.rs:34`, `memory_engine/retriever.rs:64` and :90).

## 5. What is proved

Eight modules hold theorems, one for each MC module that composes the parts they are
about (and `Scheduler_proofs`, `Store_proofs` for the one part each is about). A theorem speaks
of a part's own specification (`HostSpec`, `Planning!PlaceSpec`), with the values of the
constants left open. Each argument is an inductive invariant that is a conjunction of
named parts, one lemma or step per action, and a temporal step that only combines them.

| Theorem | Property | Assumes |
|---|---|---|
| `Scheduler_proofs!TypeCorrect`, `DepthCorrect`, `ModelIsHeld` | types; `DepthCounts`; `ModelHeld` | `Scheduler`'s and `ModelHost`'s assumptions |
| `Scheduler_proofs!CancelIsLocal` | `CancelStaysLocal` | the same |
| `Scheduler_proofs!SchedulerImplementsService` | `ImplementsService`: the refinement | the same |
| `Loading_proofs!HostTypeCorrect`, `ContextWithinMaximum` | types; `ContextNeverInflated` | `ModelHost`'s assumptions |
| `Loading_proofs!StatusStaysInStep`, `ReloadKeepsModel` | `StatusInStep`; `ReloadKeepsAModel` | the same, and that commands run one at a time |
| `Loading_proofs!ReloadReportsTrue` | `ReloadDelivers` | the same, and one command thread |
| `Loading_proofs!AnswerIsOwn` | `OwnAnswer` | nothing |
| `Loading_proofs!PlanFits` | `PlacementFits` | `PlacementAssumption` |
| `Loading_proofs!RefusalsAreStale` | `RefusalIsStale` | `ShippedAssumption` |
| `Loading_proofs!MoreMemoryNeverHurts` | `MoreNeverHurts` | `RecommendAssumption` |
| `Gateway_proofs!AbandonedIsCancelled`, `AnswersAreHonest` | `CancelledIfAbandoned`; `AnswerIsHonest` | `GatewayAssumption` |
| `Gateway_proofs!ClientsFollow`, `AnswersArrive` | `ClientFollows`; `AnswerArrives` | nothing |
| `Gateway_proofs!SieveIsHonest` | `StreamedIsProse` | nothing |
| `Library_proofs!OnlyGenuineInstalled`, `PartStaysPrefix`, `InstalledWhole` | `InstalledIsGenuine`; `PartIsPrefix`; `InstallIsWhole` | `Download`'s assumptions, and one call at a time |
| `Library_proofs!ResolutionIsSound` | `ResolvedIsSound` | `ResolverAssumption` |
| `Library_proofs!LibraryNeverShrinks` | `NeverShrinks` | nothing |
| `Adapters_proofs!ReuseIsInvisible`, `ContinuationsAreFree` | `CacheMirrorsConversation`; `ContinuationIsFree` | `KvAssumption` |
| `Adapters_proofs!ConversionIsWhole` | `ConvertedIsWhole` | `PagesAssumption`, and one installer at a time |
| `Adapters_proofs!ChangesAreEarned` | `ChangeIsEarned` | `ThresholdAssumption` |
| `Store_proofs!BoundStaysInventoried`, `LiveSlotsAreKept` | `BoundIsInventoried`; `LiveSlotsKept` | `DistinctAssumption`, `InferenceAssumption`, `OfferedAssumption`, and one writer at a time |
| `Processes_proofs!OneLineForEach` | `OneLineEach` | `MemoryAssumption` (finitely many callers) |
| `Processes_proofs!RecordStaysKept` | `RecordKept` | nothing |
| `Processes_proofs!AnnouncedAreWritten` | `AnnouncedIsWritten` | `EntriesAssumption` |
| `Screens_proofs!SpinnerIsTheSearch` | `OneSearchAtATime` | `DiscoverAssumption` |
| `Screens_proofs!ScreenNeverGoesBack` | `ShownNeverOlder` | nothing |

**Scheduler.** For any jobs, chats, commands and bounds. One invariant, `IInv`, carries types,
depth and `ModelHeld`, because each leans on the others: the depth needs that a job being
run is the worker's, that the queue holds each waiting job once, and that the set of
outstanding jobs changes by one element where the counter does; `ModelHeld` follows from
`MutexInv` (who is inside is the holder, and conversely) and `LoadedInv` (only a holder
frees a model). The steps of the commands are shown first, for `ModelHost` alone, and
lifted. `StreamInv` and `CancelInv` rest on `IInv`. `StreamInv` says that a stream is
untouched until its job is served, open while it is, and has its final chunk exactly when
its generation got to send one; with it each step of the scheduler is shown to be a step of
`GenerationService` or to change nothing of it. `CancelInv` follows the shared flag: only a
watcher of the current job, its callback, or Stop can have cleared it for the worker's
generation. That holds because a watcher is on only while its own job is generated or
joined.

**Model host.** For any models, contexts and number of commands side by side. The context
property alone is not inductive: a command about to publish carries the context in its
frame. `HostInv` adds that what is about to be published fits, that whoever is about to
load has a target, and that the program counters of an unload belong to an unload. The
arithmetic is one lemma, `LoadFits`. No lock spans an operation (section 4), so the three
other properties are false of two commands that overlap: they are proved of
`HostSpec /\ []OneAtATime`, whatever the number of threads. `LoneInv` says how far the one
command in flight has brought runtime, mirror and package out of step, and that a reload not yet
restoring still has what it started from. `ReloadDelivers` compares what the last
reload reported, and what it started from, with what is loaded after it, which another thread's
later command may change; its theorem has one thread.

**Placement.** For any machine, packages, floors and listing of the adapters. Only `Plan`
matters to the property: `MachineInv` says that every figure of a profile is a natural number,
free memory within its card's total, through scans, overrides and a card that fills up; what remains is
the arithmetic of the planners, by lemmas on quotients and products. Whatever layers
and experts go to the card, its share of the weights is at most that of the layers, and at most
the whole less the experts kept in RAM (`OffloadBound`), so that either planner leaves the cache its
room (`DenseFits`, `ByExpertFits`). The
certified context is planned with nothing of this, which is where the proof stopped until
`Overruled` was named (section 4).

**Recommendation.** For any two machines with the same number of cards, one with no less of
anything, and any model. What is kept after so many cells scores no less than any way of any of
them (`BestInv`), so it is enough that a way of the smaller machine has, in the same cell and on
the same card or processor, one no worse on the larger (`WaysNoWorse`). Memory moves a way in
two manners: more stays free, and less goes to the host (`SpareGrows`, and the
products and quotients under it), or it changes from shared to whole, whose mark for speed
outweighs all it can lose. Where a way has less than 5 % free the memory mark can fall: there the
property was false as first stated, on machines the instance then lacked, and the code's own drop
(`Cliff`) is now part of it (section 4, `MoreNeverLowers`). *Packs.* `PacksInv`: what is read
comes from one version, and the profiles from another, so a certificate may name a profile that
is not there, which gives the defaults. A refusal takes a profile of another version's, whose pinned
version or template the running one no longer accepts, and which none of the running version's own
certificates names (`ShippedPasses`).

**Laya's router.** For any callers, any size of the pipe, and a process that answers in any
order, hangs or dies. `RouterInv` adds that a pending request names a waiting
caller that holds its number and has received nothing, that until the boot is over nobody
else asks (the status is not Ready), and that the boot keeps its link until it shuts it
down.

**Gateway.** For any number of requests, tokens and endings. `GatewayInv` says of each
handler how far it has read its channel and that its guard is armed while it may still have to
cancel, and of the service that it works only on what was submitted; `HonestTo` says of the
answer that it carries what the channel did. The service is the abstract one, which
`SchedulerImplementsService` entitles it to.

**Dialects.** For any tool lists, windows, lengths and answers. A client is a function of the whole
history of events, so its place is reached by runs: `Comes` says that from one place a client
comes to another by some events, and runs join (`ComesFurther`). `Followed` names the place at
each phase, in an OpenAI text or in the first block of an Anthropic answer; the tail of an Anthropic stream, three events
for each call, is one run from block to block (`BlocksAreRead`). `Counted` says of each phase
how the events stand to the pieces: while streaming no more prose was sent than there is
(`Withheld`); the final chunk owes what the parser keeps beyond it, or nothing where blanks
led the text (`OwedIs`, by `KeepsIs`, `CountsAdd` and `SentAdds`).
A failure or a cut counts nothing, because the reason then names no call.

**Sieve.** For any symbols, texts and ways of cutting them. `Streaming`: what was sent is the
beginning of the answer, and it is `Clear`: no opener stands in it and none can come to,
since what may grow into one is held back. Two facts more make it inductive: an
open sieve has met no opener and no leading JSON, and in front of a leading JSON only blanks went out.
Nothing is sent twice because whatever the parser keeps is `Drawn` from the
answer, each symbol used once: so for sections cut out, for either trimming, and for each of the six
formats (`OnlyDrawn`, `TrimIs`, `ParseIs`). Without an opener only the bare object can call,
and then it leads (`BareLeads`).

**Download.** For any artifacts, servers, attempts, pauses, cancels and kills, while no two
calls are under way (`Spec /\ []OneCall`): two really do break it, as `download_twice` shows. The
files alone do not make an invariant. `HeldInv` says what a call has found out
about the disk and still relies on: the length it resumes from, the position it writes at,
the size and sum it has checked, the shards already in place. `DiskInv` says what
holds of the files at any time while the network sends what it was asked for or a sum
stands in for it (`Vouched`), `CompletedInv` that a task reads Completed only when no call is at work on
it. The lemmas are about prefixes: what appending, cutting and truncating leave of one. A range that is answered from elsewhere
(`Shifting`) is among the steps: its body is written `shift` bytes before its place, and without a sum its length
vouches for nothing, which is why `InstallIsWhole` asks for `LengthVouched`.

**Resolver.** For any repository, order of candidates, retries and failures.
`Provenance`, `Accounted`, `Unlisted` and `Decided`: whatever is looked at comes from the listing, each
candidate is in one place only (waiting, being read, refused, or left unread), and
the one kept unread was never refused. **Catalogue.** `NeverShrinks` is one step: only
`KeepSweep` writes the stored listing, and it unites before it writes.

**Session.** For any tokens, windows and batches. The token list, the cache and the
prompt are related by prefixes; `KvInv` says what each holds at each point of a
turn, and that a session belongs to the model that is loaded. `ContinuationIsFree` needs
beyond it that the reused length is the longest common prefix.

**Conversion.** `InstallInv` has three parts: the page decides which steps an install takes
(`Page`), a file made here holds the page's factors (`Made`), and what is about to take
the adapter's name was finished (`Finished`). It needs installers to take turns: two
that overlap share one temporary name, and one renames what the other has half written. That each tensor
starts after the one before, aligned, is `OffsetsAre`, for any list of lengths.
**Capability.** The history variable `lapsed` equals the tracker's own counter (`CountInv`).

**Store.** For any slots, repositories, directories on the disk and number of threads, while
only one is inside an operation (`Spec /\ []OneWriter`; section 4 says what two lose), through
kills that tear the file. `BoundIsInventoried` is not inductive: a rebuild of the active view
reads the defaults, so `Stands` says that what a slot binds is its default in the inventory, or
another record of the default's repository (an older file may hold two, and reading it keeps
one). It holds of what a thread has read (`Sound`), while a file may still lack its inventory
(`Filed`, `ReadIsSound`). `Work` relates each thread's copy to the file, by the step it is about
to take: a pass that walks the directories has emptied no slot, Laya's has changed no
adapter, the sweep's view differs only where the file binds nothing. Then the merge of a
write puts back only what binds nothing (`ProtectedIsFiled`), and a live slot stays. An install
may overwrite the record of a slot's default; that it is the same adapter rests on `Stored`: what
has a repository's id is that repository's. The scan's own write has no such
argument, since it may overwrite another adapter's record (section 4).

**Memory.** For any finite set of callers. `OneLineEach` counts callers against lines, so its
proof is about cardinalities: a caller starts to wait exactly when a line is owed.
**NotebookLM.** `RecordKept` speaks of rest only, so `SaveInv` follows a save that runs alone
through its steps: its copy is what memory holds, then so is the temporary file, then the
document; a second save under way, or one that fails, raises `spoilt` (`SavesStep`). The steps that
save nothing leave all of it alone (`CalmStep`), and every writer changes memory where its save
begins (`MutateStep`). **Launcher.** `LaunchInv`: a command that is under way goes on with a tool of the
registry, shipped or valid (`Known`), and a file was written from what was announced of it; that
the one covers the other is `KnownIsWritten`, by cases of where a tool takes its servers.

**Screens.** `OneSearchAtATime` is inductive with the types and `BannerOrSpinner` (the
banner that offers "Try again" is down while the spinner is up), which is used for nothing
else. `ShownNeverOlder` needs `NoOlder`: what the newest refresh has been told, or will be
told by a scan already finished, is no older than what is shown; and `Tickets`: an older refresh
cannot pass for the newest.

Functions defined by recursion over the naturals (`Offsets`, a decoded length, a client's places) and largest or smallest
elements (the reused prefix, a card to select) are reached by the well ordering of the naturals
(`NatLessThanWellFounded`, `WFMin`): the least index at which a claim fails does not exist. The
library's induction theorems themselves cannot be used by the provers at hand.

The assumptions are on what the program is given, and TLC evaluates each on the instances
of section 3: no model is called None, no file content is Absent, no ending is "none"; shards
come with sizes, because only a listing yields shards; a listing holds a path once; a page's
tensors have distinct names; hysteresis has at least one turn; a machine's, a model's and a header's
figures are naturals; a version's own certificates stand up to its own validator; a user's tool names one of the parser's dialects. One call, command,
installer or writer at a time is not an assumption the code justifies but the scope in which the
properties hold.

Only model-checked:

- liveness (`StreamsClose`, `CallsReturn`, `CallsEnd`, `RequestsAnswered`, `TurnsEnd`,
  `EveryRowEnds`, `InstalledIsShown`): not for these provers.

## 6. Not modelled

`PROJECT.json` lists every component with its reason. Model intelligence extracts fields
from files and writes them down once; the application core is wiring; the plugin and
installer directories are traits without an implementation. Of the parts that are
modelled, these are left out: template rendering and sampling; the origin guard and the
server's start and stop; parsers of repository cards and file names; the numbers inside
tensors and scores of similarity; the chat, settings and welcome pages; inference inside
the Python helpers, and the research server, which the launched tools start. Worker panics
(which would poison the runtime mutex), wording, logging, progress figures and disk space
(a failure branch) are abstracted away everywhere.

## 7. Plan

1. Proofs: types of the manifest's directories; the host's properties for more than one command, for what remains of them.
2. Composition: a desktop turn through `Memory`, `Capability` and `KvSession`, with a
   package that changes between preparing and generating; `Storage` beside `Download`.
3. Adapters: the lengths of the sweep's files (a leftover `.part`, a stream cut short).
4. The gateway's start, stop and rebind, with the counters of requests under way.

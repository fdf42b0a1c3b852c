# opencode-session-share: specifications and proofs

This directory holds TLA+ specifications of the share service, its clients and
the document model of the share page, the TLC configurations that check them on
small instances, and TLAPS proofs of the properties that matter most. Paths
below are relative to the repository's `src/`.

## 1. Inventory

### Components

| Component | Code | State it keeps | Operations |
|---|---|---|---|
| Share service | `internal/share/service.go` | none of its own; local copies during a call | Create, Get, List, SetPassword, CheckViewPassword, Remove, Sync, Data, DataWithPassword |
| bbolt store | `internal/share/store.go` | the `shares` bucket (id -> JSON), bbolt's one writer lock | create, get, list, update, deleteIf, OpenStore, Close |
| HTTP server | `internal/web/server.go` | configuration (passwords, URL) | API, page and admin handlers, requireAdmin, error mapping |
| Server process | `cmd/server/main.go`, `docker-compose.yaml` | environment, the open and locked database file, a port | open the store, initialise it, listen, fail, die, be started again |
| Share API client | `frontend/src/shared/api/share.ts` | none | fetchShareData, loadShareState |
| Share page | `frontend/src/apps/share/ShareApp.svelte`, `layout.ts` | page state, password typed, attempt made | load, submit a password, show a view state |
| Administrator's page | `frontend/src/apps/admin/AdminApp.svelte` | rows, password fields, status line, `busyID` | load, save, clear |
| Event normalisation | `frontend/src/shared/domain/normalize.ts` | five maps while it runs, warnings | read an event, merge versions, sort and group |
| OpenCode document | `frontend/src/shared/domain/opencode.ts` | latest state with histories while it runs | read an event, raw log, graph, envelopes, render items, tools, summary |
| Reader plan and view model | `frontend/src/shared/domain/opencode-reader.ts`, `apps/share/reader-view-model.ts` | none | split messages into narrative and side events, provenance, sections, files, side items |
| Display helpers | `opencode-display.ts`, `turns.ts`, `categorize.ts` | none | group messages into turns (used by tests so far), a table of tool names |
| Diff parser | `apps/share/components/diff.ts` | line numbers while it runs | classify and number the lines of a patch |
| Presentation | Svelte components of `apps/share` and `shared` | what is unfolded, open drawers and what they show, copy labels and their timers | fold, open and close a drawer, Escape, copy |
| Assets, build | templates, Dockerfile | none the properties are about | - |

### How they interact

A client (the OpenCode plug-in of a session's owner) creates a share over HTTP,
gets a secret, and syncs batches of events with it. Every request runs in its
own goroutine. A write is one bbolt `Update` (serialised by the writer lock,
committed or rolled back as a whole); a read is one bbolt `View` (a snapshot).
A viewer's browser asks for the page, which looks the share up, and then for its
data, which looks it up again and checks the view password. An administrator's
browser lists all shares and sets passwords; each save is a PUT followed by a
reload of the list, and saves of several rows may overlap. The share page hands
the events to two passes (`normalizeShareItems` and `buildLatestState`) whose
results meet in one view model; the components of the page show it, number its
diffs, and keep the little state a reader makes. Two or more server processes may
be given one data file (a container that is started before the old one has died):
the file's lock decides which of them serves.

### What is hard, and what makes each component correct

* *Service and store.* Concurrent read-modify-writes; a batch rejected halfway;
  time and secret taken before the lock is; remove and share again with late
  calls of the first life; crashes and failed commits. Correct means: every call
  takes effect atomically, exactly once or not at all; no update is lost; only
  the secret's holder changes events; keys stay unique; times make sense; every
  call is answered.
* *Share page.* The share changes between the page, the 401 and the retry;
  answers are late or lost; the server restarts. Correct means: what is shown is
  one version of the share that the password sent with the request opened, refusals
  fit some version during it, loading ends. Two things stand in the way: a header does
  not carry every password, and an exception between the answer and the page leaves
  the page on loading (section 3).
* *Administrator's page.* One `busyID` for all rows, overlapping saves, reloads
  in either order. Correct means: a locked row is being saved and is unlocked
  again, and a finished save shows a state from after it.
* *Document model.* Events come repeated, out of order, partial, keyed or not.
  Correct means: what the page shows does not depend on delivery, nothing is
  lost or shown twice, the two passes agree on entities and order, sources are
  exact and lead back to the events, edges of the graph to nodes, numbers count
  what is listed, list keys are distinct.
* *Components.* Collapses and drawers destroy what is in them while clipboard
  calls and timers are out; line numbers are carried through a patch. Correct
  means: what a destroyed component still does never shows on the one in its place,
  labels return, line numbers are those of the two files.
* *Server process.* A second owner of the file, a crash between commit and answer,
  a lost race for the lock. Correct means: one process at a time has the file,
  what clients were told stays true, and some process serves in the end.

`PROJECT.json` lists each of these hazards at its line with the properties that
cover it.

## 2. Modules

| Module | Role |
|---|---|
| `ShareMerge` | `mergeData`: how one event changes a share's events |
| `ShareTypes` | constants, sets of calls and answers, `Encode`, `DataSize`, `Summary` shared by the backend's modules |
| `ShareAPI` | abstract specification of the backend: each call takes effect in one step; `Merged` is the result of a sync in closed form |
| `ShareService` | service and store in detail: goroutines, writer lock, event-by-event merge, commit, rollback, crash, clock |
| `ShareServiceProofs` | its inductive invariant, seven safety theorems and the proof that it implements `ShareAPI` |
| `ShareViewer` | browser tabs on the share page, composed with `ShareAPI` |
| `ShareViewerProofs` | its inductive invariant and three theorems |
| `AdminConsole` | the administrator's page, composed with `ShareAPI` behind `requireAdmin` |
| `AdminConsoleProofs` | its inductive invariant and three theorems |
| `Listings` | operators: sorted and filtered arrays, said by ranks |
| `FoldFacts` | lemmas: natural numbers and loops by induction, finite orders, sorted, filtered and joined arrays, counting and sums |
| `OpenCodeDocument` | operators: identity of an entity in both passes, richness, merging, warnings, one record's effect |
| `DocumentLoop` | the loops over the events as a state machine, record by record |
| `DocumentLoopProofs` | ten theorems: about those loops, the order of what they list, the graph and the changed files, and about what the page derives: turns, counts, rendering, sources |
| `ReaderPlan` | operators: message order, parts, injection, narrative and side events, tool runs, sections, side items |
| `NormalizedShare` | operators: the result of `normalizeShareItems`: session, sorted and grouped messages and parts, raw item index |
| `DocumentGraph` | operators: raw log, `buildGraph`, `addUpdateEdges` |
| `ReaderView` | operators: render items, patches, view items, sections, navigation, files, provenance, the view model |
| `ReaderPanels` | operators: what each component puts on the page (collapses, drawers, code blocks), keys of lists, counts, inspector rows |
| `DisplayPlan` | operators: `buildTurns` and `buildOpenCodeDisplayPlan` |
| `DocumentViews` | the properties of all of these over the states of `DocumentLoop` |
| `UnifiedDiff` | operators: `parseUnifiedDiff`, and the edit script a patch is made from as its reference |
| `ReaderPage` | a reader at the page: folding, drawers, Escape, copy buttons, timers |
| `ReaderPageProofs` | its inductive invariant, the parser's loop and two theorems |
| `ServerProcess` | processes over one data file: `main`, the file lock, crashes, restarts |
| `ServerProcessProofs` | its inductive invariant and three theorems |
| `SharedSession` | a client's syncs through `ShareMerge` to what `ReaderPlan` shows |
| `SharedSessionProofs` | its inductive invariant and six theorems |
| `MC*` | instances of these for TLC |

A definition whose comment begins with "Broken variant" is not part of any
specification. It is the definition that follows it with a plausible mistake;
substituting it must make the property named in `PROJECT.json` fail.

### Service and store (`ShareTypes`, `ShareAPI`, `ShareService`)

`db` is the bucket as committed; `writer` the request inside `Update`; `pc`,
`call`, `share`, `merged`, `next`, `reply` are each goroutine's place, arguments
and locals. The steps of a write are those of the code: arguments are checked
before the store is touched (`Refuse`); Create mints its secret and reads the
clock before it waits for the lock (`StartCreate`); `Begin` takes the lock; the
transaction finds the share or not, compares the secret, merges one event at a
time (`MergeItem`, `RejectItem`) and measures the total (`TooMuchData`,
`EndMerge`); `Commit` encodes and stores; every error path is `Rollback`.
`Crash` keeps `db` and loses the rest.

An event is a record: its key, its body, whether it is valid JSON, its size as
it arrived (`raw`) and as `json.Marshal` will write it (`enc`; HTML escaping
grows an event, compaction shrinks it). `Encode` replaces the first by the
second, as storing does. Session ids and passwords are model values; which of
them are acceptable is a constant (`ValidIDs`, `LongPasswords`). Secrets are
drawn from `Secrets \ issued`: UUIDs are assumed not to repeat. The clock is
assumed not to be set back.

`ShareAPI` says the same to a caller without any of this: a call is received,
takes effect at one instant, is answered. `ImplementsAPI` in `ShareService` is
the refinement: writes take effect at their commit, reads when they are answered.

### Share page (`ShareViewer`)

`page` is the view state of each tab, `entered` the password of its last
request, `code` its last HTTP status. `offered` is a history variable, the
versions of the share since the request was sent. `Mount` and `SubmitPassword`
are `loadData`; the fetch is a call on `ShareAPI`; `ReceiveData` maps the
answer as the handler, `fetchShareData` and `createShareViewModel` do. A tab may
be closed, a connection may break, the server may restart at any point.
`HeaderValue` is what the password header makes of a password: any other password
(`fetch` strips blanks and sends Latin-1 characters as single bytes), or `Unsendable`
if `fetch` refuses it. In the runs it makes `p1` of `padded`, which is `p1` with a blank
behind it and may be the share's password too. `Throws` says on which events
`createShareViewModel` throws, which it does before its check for malformed data:
the value null, unless a session with an id was normalised (`firstSessionID` is then
not asked), and events with a field the conversion uses unchecked (`FatalBodies`:
`tokens` null, `files` that is no array). `loadData` does not catch it, so
`LoadedPage` is then still `Loading`.

### Administrator's page (`AdminConsole`)

Each asynchronous call of the page is a task with a stage (PUT out, PUT
answered, list out, refused). `busyID`, `shares`, `passwords` and `status` are
the component's variables, assigned where the code assigns them; `since` is a
history variable.

### Document model (`OpenCodeDocument`, `DocumentLoop`, `ReaderPlan`, `SharedSession`)

A record is the object of an event, or one entry of an array event, as a
function from its fields to values; nested fields stand by their leaf
(`time.completed` is `completed`). `doc.normalized` holds `normalizeShareItems`'
maps, `doc.latest` the histories of `buildLatestState` (the last version is
`current`), `doc.warnings` the warnings. Both passes have key functions of their
own, modelled separately (`NormalizedKey`, `LatestKey`). A fractional
`firstIndex` of an array entry is the pair of index and offset.

`ReaderPlan` follows `buildMessageEnvelopes`, `buildOpenCodeReaderPlan`,
`buildReaderTurnSections` and `buildSideItems`. A text is a model value that
carries an injection marker or not. `SharedSession` keeps the same syncs twice,
as a backend holds them when events carry their entity's `_key` and when they do
not, and compares what the page shows.

`Array.prototype.sort` is `Listed(set, order)` of `Listings`: the n-th element is
the one that n - 1 others come before. `filter` is `Filter(array, Test)`, which
keeps the elements that pass, in order. The orders are those of the comparison
functions in the code, and every one of them is strict on what it is applied to, so
the result does not depend on how the engine sorts.

`DocumentViews` looks at a `DocumentLoop` state as the page does after
`convertOpenCodeShare`: `EventsOf(log)` is the list of events (a record with
offset 0 begins one), `RawLog` names each, `Graph` joins the names with the
latest state. `ReaderViewModel` is `createReaderViewModel` with the plan it is
given; a message's render items, a section's answers and every list of the side
panel are sequences in the order of the code. Ids the code makes by joining
strings are tuples, so two of them are equal exactly if their parts are; the one
id that loses information, `slugify`'s, is the constant operator `Slug`, of which nothing is
assumed. In the runs it folds `m2` onto `m1`, as `slugify` does with ids that differ in
case or punctuation.

Abstractions to know: ids are taken to be neither integers nor names like
`session:3` (JavaScript orders integer keys of an object first, and the fallback
keys have that form); times and indexes are natural numbers; `null` fields and
arrays inside an object do not occur; a blank output counts as empty.

### The page in use (`ReaderPanels`, `ReaderPage`, `UnifiedDiff`)

`ReaderPanels!ShareApp` says which elements a page has: a collapse, drawer or
code block with the path of components it is in and the place of the buttons that
open it. `ReaderPage` takes such a page as a value and adds what happens: `open`
holds the open collapses and drawers, `shown` the choice a drawer was opened with,
`label`, `timers` and `copying` the copy buttons. `Close` is what Svelte does when
an `{#if}` turns false: everything inside is destroyed with its state, a code
block's `onDestroy` clears its timer, and the clipboard calls it waits for become
orphans. Their answers still run the rest of `copyCode` (`OrphanEnds`): they set a label
no page shows and start a timer nothing will clear (`late`, `LateTimerFires`). A
destroyed block is named by its element and the click that destroyed it, so that it is
told from the block that appears in its place. A drawer leaves the page behind it
usable from the keyboard, so every action stays possible while one is open.
`UnifiedDiff` parses patches line by line as `diff.ts` does; a patch is generated from
an edit script (which lines two files share, which of those are outside every hunk,
which added ones begin with `++` and removed ones with `--`, and where git notes that
a file does not end in a newline), which gives the true line numbers to compare with.
`RowsOf` is what the viewer shows of it: no row for the lines the parser takes for a
file's header, and numbers that are off by these lines and the note up to the end of
their hunk.

### The server process (`ServerProcess`)

`phase` is a process's place in `main`; `lock` the owner of the file lock,
`bound` of each port; `bucket` and `shares` are the file; `pending` is the one
request a process works on. `OpenStore` takes a free lock, `OpenTimesOut` gives up
on one that is held (bbolt's `Timeout: time.Second`), `StartFails` is any
`os.Exit(1)` after it, `Crash` the end of a process at any point, and `Exit` what
the operating system does with its lock and port. `promised` is a history
variable: what clients were last told of each share, "open" while a request about
it is out or its answer was lost. What the handlers do with a share's contents is
`ShareService`'s matter.

## 3. Runs

| Run | Checks | Shows |
|---|---|---|
| `service` | `TypeOK`, `KeysUnique`, `CommitIsCurrent`, `SummariesAreTruthful`, `ImplementsAPI`, `ChangesAreAuthorised` | two requests make any of the nine calls on two shares and an unacceptable id, right and wrong secrets, batches with repeated keys, unkeyed, invalid, oversized and growing events at the limits, a default password, a running clock, crashes |
| `service_time` | `IInv`, `LivesAreStable`, `RetiredSecretsStayRetired`, `EveryCallAnswered` | the inductive invariant; stability over a share's life; liveness, with a batch that fails half-way |
| `service_growth` | `StoredDataWithinLimit` (violated) | the size limit is applied before encoding |
| `viewer` | `TypeOK`, `PagesShowOneVersion`, `RefusalsAreJustified`, `LoadingEnds` | a tab against an owner and an administrator, with events the conversion throws on and passwords a header trims or cannot hold |
| `viewer_empty` | `AnsweredPagesLoad` (violated) | a new share is answered with `null` and reported as a failed load |
| `admin_overlap` | `TypeOK`, `BusyRowIsSaving`, `BusyEnds` | two saves of two rows in every order |
| `admin_rivals` | `SavedRowIsFresh` | two saves of one row while its share is changed by others |
| `document` | `ProvenanceIsExact`, `ViewsAgree`, `NeverPoorer`, `EdgesLeadToNodes`, `PassesAgreeOnOrder`, `FilesListedOnce`, `EverythingRenderedOnce`, `SourcesLeadHome`, `CountsMatchLists`, `TurnsAgree` | all sequences of four records of twenty-one kinds: what is kept of them, and everything the page derives from it |
| `reader_page` | `StateIsOnScreen`, `LabelsReturn`, `DiffNumbersAreTrue` | up to five clicks on the pages of five shares, with and without a clipboard and debugging; all diffs of up to four lines of seven kinds, with a second file |
| `server_process` | `OneProcessServes`, `AnswersSurvive`, `ServiceComesBack` | three processes, two on one port, two shares, three failures |
| `session` | `KeysDoNotShow`, `RetryIsInvisible`, `OvertakingIsInvisible`, `MessagesPlacedOnce`, `ToolRunsFollowMessages`, `OrderedAnswersStayAside` | all sequences of up to five events, with repeated syncs |
| `session_untimed` | `AnswersToInjectedStayAside` (violated) | an untimed answer is sorted before the timed reminder it answers |

### Bounds, and why they are enough

* *Two requests* (`Requests`): every property of the service relates at most two
  calls, the second may be any call and each slot is reused without limit; the
  proofs remove the bound for the safety properties.
* *Secrets* `x1`, `x2`: one per life of a share, so at most one re-creation;
  enough for a late call of the first life to meet the second.
* *Keys, bodies, batches*: two keys and "unkeyed", two bodies; batches of up to
  three events contain an update of a stored key, a repetition inside the batch,
  and a rejection after an accepted event. `MaxSyncItems` 3, `MaxItemBytes` 5 and
  `MaxShareDataBytes` 7 are small so that each limit is met from both sides.
* *Clock* (`MaxClock` 1): two instants make every pair of times equal or
  ordered.
* *Viewer*: one tab, one other slot, at most `MaxVersions` = 2 versions during
  one data request (before and after a change). Sizes leave a share room for a
  session and a null together, or for a message alone (`MaxShareDataBytes` 5,
  `MaxItemBytes` 2): shares that are empty, shown, malformed, malformed and thrown on,
  and thrown on without being malformed all occur.
* *Administrator*: two tasks, the least that overlap.
* *Document* (`MaxRecords` 4): three versions of an entity and another entity,
  or two of each of two; a message with three parts, a call with two versions
  between two other parts, two files, a question that a part turns into an
  injected one after its answer was read.
* *Page* (`MaxClicks` 5): unfold what holds a block, copy, close, open it again and
  copy again is five; the five shares have between them each kind of element in
  each kind of place. *Diff* (`MaxEdits` 4): two hunks with a side without lines,
  a misread line before a true one and then another hunk, a note between two lines,
  and each of these before a second file.
* *Processes*: two that want one port and a third elsewhere; `MaxFailures` 3: one
  for each, or one process fails, its successor does, and the next.
* *Session* (`MaxEvents` 5): question, answer, its part, and a later version
  that makes the question an injected one, with one event in another order.

Symmetry is used only in runs without liveness properties, over sets of
interchangeable model values. Deadlock is checked except for the document,
session and page runs, which stop when their bound is reached.

What the document properties assume is stated in them: data the page refuses is
left out (`Corrupt`); calls have ids of their own where list keys are made of them
(`CallsAreDistinct`, in `EverythingRenderedOnce`); and where the two passes may differ
in order or role, because a later version changed a creation time or a role, that no
version does (`TimesAreSettled`, `RolesAreSettled`). `SourcesLeadHome` assumes nothing
of the kind, but says less of tool runs that are not told apart: `keyedToolSources` has
one key for calls of one `callID`, and for calls without any it takes the part's id,
which two messages may both use; of those the map knows the last one's sources.

### Fairness

`ShareService!FairSpec`: a runnable goroutine is run (weak fairness of its
steps), and the writer lock reaches every waiter (strong fairness of `Begin`: it
is a Go `sync.Mutex`, whose starvation mode hands it over after a millisecond).
No fairness of arrivals, of the clock or of crashes. `ShareViewer!FairSpec` and
`AdminConsole!FairSpec`: the server answers, answers arrive, and a fetch whose
request is gone is rejected by the browser; nobody has to open, type or click.
The pages have no timeout of their own: `LoadingEnds` and `BusyEnds` rest on
that rejection. `ReaderPage`: the browser fires timers; whether it answers a
clipboard call (which may ask the reader for permission) is left open.
`ServerProcess`: the supervisor starts what has ended (`restart: unless-stopped`)
and a started process runs; failures are bounded, requests and crashes are not
fair.

### Findings

1. `service_growth`: `Sync` compares the raw lengths of the merged events with
   `MaxShareDataBytes`, "a share's accumulated encoded data size"; `json.Marshal`
   then escapes `<`, `>`, `&` inside every event, so more than the limit is
   stored, and later even an empty sync of that share is refused.
2. `viewer_empty`: `DataWithPassword` of a share without events returns a nil
   slice, JSON `null`, which `fetchShareData` reports as a failed load, where
   `layout.ts:97` has a message for a share that is created but still empty.
3. `session_untimed`: `messageOrder` mixes creation times and raw indexes; an
   answer without a time precedes its injected parent that has one, is met
   before the parent is known to be injected, and is narrated.
   `OrderedAnswersStayAside` shows that this order is the only cause.

Four more things are in the models of the passing runs, whose properties say exactly
how far they go:

* *An exception leaves the page on loading* (`layout.ts:80-85`, `ShareApp.svelte:28`).
  The check for malformed data comes last; on some events that `Sync` accepts, `[null]`
  the shortest, what comes before throws, and `loadData` is called with `void` and
  catches nothing. The message of `layout.ts:89` for malformed data is then never
  shown. `LoadingEnds` says that nothing else keeps a tab on loading.
* *A header trims a password* (`share.ts:96`). `fetch` strips blanks at the ends of a
  header's value, `SetPassword` does not strip them of a password: such a share refuses
  its own password and calls it wrong. `RefusalsAreJustified` says that every refusal
  is right about what the header carried.
* *Changed lines are taken for a file's header* (`diff.ts:41`): a removed line that begins
  with `--` (an SQL comment) or an added one with `++` (`++i`) gets no row of its kind
  and is not counted, and the numbers after it in the hunk are off by one on its side.
  `DiffNumbersAreTrue` says that this, and git's note about a missing newline, which
  counts as a line of both files, are all that shifts them.
* *Two sections, one anchor* (`reader-view-model.ts:340`). `slugify` makes one id of ids that
  differ in case or punctuation only: the link of the second section leads to the first,
  and a keyed list has a key twice. `EverythingRenderedOnce` says that sections share
  an id only then.

## 4. Proofs

All theorems hold for every value of the constants that satisfies the modules'
assumptions (each evaluated by TLC in a run that extends the module): sets of
calls and inputs are well formed, the sentinels (`NoRequest`, `NoShare`, `NoBody`,
`NoKey`) are none of the values they stand beside, limits are natural numbers,
`NoPassword` is an acceptable password, inputs are JSON objects with finitely many
fields (or no object at all) whose times are numbers, the clients that a tab or the
administrator competes with make calls of the service, and a database a run starts
from holds finitely many shares. The document modules assume that an id is no list of
ids, that what is undefined (`Absent`) is neither an object, nor the role "user", nor a
raw entry: ids are strings in the code, and the keys it joins from several ids are
tuples here. The session module assumes of its events what the
page demands or the plug-in's data guarantees: each has its ids (the page refuses a
message or part without), a creation time is later than any index (milliseconds
since 1970 against places in the share, which `messageOrder` compares), and no
message has the name of a part's side event (a pair).

### Loops and lists (`FoldFacts`)

The library's induction theorems take an operator as a parameter, which the
provers cannot use; `FoldFacts` says the same with sets. `LeastNatural` (from the
well-foundedness of `<`) gives `NatInductionOnSet` and `LoopInduction`: a set with 0
in it and with each number the next holds them all. `FoldIsLoop` solves the
recursive equation that defines a fold, so that a `FoldLeft` of the model is a
sequence of results `P[0], P[1], ...`, each made from the one before. `RanksAreTaken`
and `ListedFacts` say that in a strictly ordered finite set every rank is taken
once, so a sorted array exists and holds each element once; `ListedInOrder` and
`KeptListed` that its places follow the order and that a filter keeps it.

The same is done for arrays that grow: `KeptAppend` and `MappedAppend` say what a
filter and a `map` do when the array gets one element more, `FlattenIsLoop` and
`FlattenAppend` what joining arrays gives. Counting goes by `Hits`, how often an array
meets a set: `HitsJoined`, `HitsKept` and `HitsSplit` add up over joined, filtered and
split arrays, and `PartsAddUp` over the sum of a function. `SplitLast`, `SpreadAppend` and
`SpreadGrows` are about arrays of arrays of which a loop extends the last or starts a
new one, which is how sections, turns and groups of tools are made.

### The service (`ShareServiceProofs`)

`KeysUnique`, `SummariesAreTruthful` and the others are not inductive. `IInv`
strengthens them:

* `TypeOK`; `LockInv`: the lock is held exactly by the request inside `Update`,
  so at most one request is;
* `StepInv`: only writes reach the lock and only Sync merges;
* `StoredInv`: what is stored is well formed (`createdAt <= updatedAt <= clock`,
  unique keys) and already encoded;
* `CreateInv`: a Create carries its empty, well formed share for an accepted id;
* `MergeInv`: while Sync loops, the share it decoded is still the stored one, and
  its slice has unique keys: this is where the lock matters;
* `CommitInv`: what is about to be stored is well formed and not older than what
  it replaces; `CommitIsCurrent`: it agrees with the stored share on everything
  its operation does not set.

One lemma per action shows that `IInv` is kept;
`MergeDataFacts` carries the argument that merging keeps keys unique. From it:
`TypeCorrect`, `KeysStayUnique`, `TruthfulSummaries`, `NoLostUpdate`,
`Authorised`, `StableLives`, `SecretsStayRetired`. The action properties go
through `OnlyCommitsChange` and `CommitEffect`: `db` changes in `Commit` only, and
by what the call says.

### The refinement (also `ShareServiceProofs`)

`ServiceImplementsAPI` says that nobody can tell the service, with its lock,
transactions, loop and crashes, from `ShareAPI`. Two things have to be known
beside `IInv` (`RInv`):

* what Sync has merged so far is `ShareAPI!Merged` of the events it has read.
  `Merged` places an event by counting those before it that bring a key of their
  own and takes the value of the last event of its key, while the loop of
  `mergeData` replaces or appends one event at a time. `MergedFacts` says where
  `Merged` puts each event, `Grounded` that those places and last events exist (kept
  from event to event, since there is no induction to derive them from), and
  `MergedAppend` that `mergeData` takes `Merged` of a prefix to `Merged` of the next;
* secrets that are stored, or wait in a Create for the lock, were issued and
  differ (`SecretsInv`): that is why the secret of a Create is free at its commit.

The simulation has one lemma per answer: each error path, the commit of each of
the four writes and the three reads is an outcome `ShareAPI` allows, and every
other step is invisible. `ListingNamesOnce` uses that a map of `1..n` onto `n` ids is
one-to-one.

### The clients (`ShareViewerProofs`, `AdminConsoleProofs`)

In `ShareViewer` the invariant says of a tab that is loading: the version the
backend has now is one of those it has noted since its request; its request carries the
password it entered; and an answer that is out fits one of the noted versions. What
is rendered or refused is then a fact about `offered` that later steps keep.
`TypeCorrect` needs to know that whatever an outcome of `ShareAPI` stores is a
share again; `MergedType` shows it of `Merged`, whose places are counted and
therefore fill `1..n`.
Nothing is assumed of what the header makes of a password but that it leaves an empty one
empty (`HeaderValue`): `RendersOneVersion` and `RefusesForCause` speak of what it carried.

In `AdminConsole` a save's listing is fresh (`ListingIsFresh`): it was computed after
the PUT took effect, so it shows a row the share had since. The invariant ties each
request in flight to its task, a disabled row to a task of its own, and what a
listing shows to the versions noted since; a save that reads a listing that was
overtaken by others still reads one made after its own PUT.

### The two passes (`DocumentLoopProofs`)

`IInv`: the log is a sequence of records, the two views have an entry per type,
entries hold objects, histories are not empty, and `ViewsAgree` itself.
`MergeDominates` shows that `deepMerge(loser, winner)` is at least as good as the
winner in every check of `compareRichness`, `DominatesIsNotPoorer` that this
suffices for the lexicographic order, and `KeysAgree` that both passes find one
key in every record that raises no malformed-data warning (models excepted:
their key functions differ). `NormalizeStep` and `UpsertStep` describe one
record's effect on each view. `ProvenanceIsExact` is inductive given the types: a
step appends one position to the positions of one key, which is later than all of
them (`UpsertExact`), and leaves the other histories alone (`ProvenanceStep`).
Results: `ViewsAlwaysAgree`, `ProvenanceAlwaysExact`, `NothingGetsPoorer`, for any
number of events.

`PassesAlwaysAgreeOnOrder` compares the sorted lists of both passes. It needs
`OriginInv` besides: records stand in the order of their events (`PlacesInv`), what a
record deserves a warning for was warned of (`WarnedInv`), and a merged value has
the fields of all the records it is made of and nothing else (`MergedInv`). From
these, a part has its message's id in every version and in the merge (`PartFacts`),
both passes saw it first at one event (`FirstSeenFacts`), and grouping a sorted list
is the same as sorting a group (`PartsGrouped`); a message with one creation time
in every version has it in the merge and in the latest version (`TimeFacts`), so
both orders of messages are one (`MessagesSorted`).

`EdgesAlwaysLeadToNodes` compares `nodeID` of a raw entry with the keys of the latest
state. `CleanData` and `NodeFacts` say what both are for a record without a warning;
`MessageIsNamed`, `PartIsNamed` and `SessionIsNamed` that the events whose entry has
an entity's node are the entity's, which gives an edge's sources (`LeadsTo`);
`FromIsKnown` that a node for a referenced id exists exactly if the entity does.
`FilesAlwaysListedOnce` rests on `FileNamed` (the entries that name a file are those
of one key) and `AscendingIs` (there is one way to list places in order, so the
history and the filtered log are in the same one). Both assume that an id is none
of the names the code makes from a position (`DocumentLoop!NameAssumption`).

### What the page derives (also `DocumentLoopProofs`)

These theorems follow from `AllInv` (`IInv`, `ProvenanceIsExact` and `OriginInv`) without
another step of the machine; what they need is an invariant of each loop that builds
the page, found and kept like that of a machine.

* *The messages.* `VisibleFacts` says what the visible messages are, in any state: an
  entry for each message, in strict order, with its own parts and their sources
  (`MessageShown`, `PartsShown`, together `Visible`). Everything below starts there.
* *Turns* (`TurnsAlwaysAgree`). Two loops read the messages of the two passes. `Twins`
  relates their results: the same turns, except that the display plan may have a first
  turn nobody asked for (`d`). `TwinsStep` is one message on both sides, `TurnsAreTwins` the
  induction, `AskedAre` what it says of the turns with a user; the range and the totals
  of a turn are kept by `ExtendedFacts`.
* *Plan* (`PlanFacts`). `Planned` says of the plan of the first k messages: what is narrated
  is one of them that is not set aside (`ToldUpTo`), a side event is one that is, or a
  part of one (`AsideUpTo`), nothing is in either list twice, what is marked as injected
  is set aside (`MarkedUpTo`), and narrated and set aside are k together (`Placed`).
* *Counts* (`CountsAlwaysMatch`). `Sectioned` is the invariant of the loop that cuts the
  narrative: joined, the sections are what was read. The lists of the side panel are
  filters of the side events, counted with `Hits`; `ToolsAddUp` says that the sizes
  of the groups of tool runs, one per tool, add up to their number.
* *Rendering* (`EverythingAlwaysRenderedOnce`). `Rendered` is the invariant of
  `buildRenderItems`: joined, the items are the parts read so far, tools are in
  groups and only there, two groups are never neighbours. `CardFacts` takes it to a
  card, `GroupsHoldRuns` shows the groups to hold the tool runs that point to it. An
  item is keyed by what it begins with (`KeyIs`), and items begin with different
  parts (`LeadsDiffer`), so `KeysDiffer`. Sections are keyed by the slug of their first
  message's id: those messages differ, and as nothing is assumed of `Slug`, the theorem
  says that two sections have one key only if `slugify` makes one of two ids.
* *Sources* (`SourcesAlwaysLeadHome`). `EntryIs` says that looking a raw index up gives
  the entry of that record and no other (`IndexesDiffer`), so that the sources of a
  history lead to records of its entity (`SourcesLead`, `MessageLeads`, `PartLeads`).
  The provenance maps are folds of assignments (`KeyedFacts`): a key has the
  sources of the last item that bears it, and an item whose key no other bears has
  its own (`OwnSources`). `RowsLead` follows the inspector's four kinds of targets to
  their items and to the rows it shows.

### What the page shows of a session (`SharedSessionProofs`)

None of the six properties follows from a step: each looks at a whole share
through the loops that read and plan it. The proofs replace the loops by what they
compute. `LatestKnows`: after n events the latest state has an entity for each key,
first seen at the first event of the key (`IsFirst`), with the data of the last
(`IsFinal`). `SameShown`: two shares with the same entities in the same order and
the same last versions show the same. The inductive invariant `SessionInv` says of
the share without keys and the one with keys that they are such a pair
(`Parallel`), are within the bound, and that the first ends with the last sync
(which a retry repeats). It is kept event by event (`ParallelStep`) and so batch by
batch (`BatchStep`). Results: `KeysDoNotShowHolds`; `RetryIsInvisibleHolds`, because a
repeated end leaves first and last versions as they are; `OvertakingIsInvisibleHolds`,
because a swap of neighbours of which no order counts is a renaming of indexes
that keeps both.

The plan is a loop over the visible messages. Its invariant (`IsPlan`, `Placed`,
kept by `PlanStep`) says that each message read so far is narrated once or stands
aside once and under its own name, that what is narrated is neither injected nor an
answer to an injected message read before, and that a tool run points where its
message is. Results: `MessagesPlacedOnceHolds`, `OrderedAnswersStayAsideHolds`,
`ToolRunsFollowMessagesHolds`.

### Processes and pages (`ServerProcessProofs`, `ReaderPageProofs`)

`OneProcessServes` and `AnswersSurvive` rest on one fact: whoever is past
`OpenStore` holds the lock, so the file changes only under one process. `IInv` adds
that only a serving process works on a request, and that while it does nobody
relies on the share (`OpenUntilAnswered`: once committed, the share is what the
answer will say). `ExitKeepsIInv` shows that every way to end a process keeps this,
for any number of processes: `OneServer`, `Durable`.

`StateIsOnScreen` is inductive with `TypeOK`. `InsideFacts` is the step that
counts: since everything an element is in is also in what that is in, closing
destroys with an element whatever is inside it, and nothing that stays loses a
holder. Answers and timers of destroyed blocks go on beside it and touch no label of the
page. Result: `StateAlwaysOnScreen`, for pages of any shape.

`DiffNumbersAreTrue` compares two loops, the parser's over the lines of a patch and
the one that makes the patch from the files' lines. `RunJoined` lets the parser read a
patch piece by piece; `Between` is its state between two pieces (it has shown
and counted exactly the rows so far), `Ready` its state before a line inside a hunk:
each number the rest of the hunk will show is the true one, corrected by the misread
lines before it in the hunk, and nothing is said of a side the hunk has no line of, where
a header gives the line before. `HeaderMakesReady` and `RowMakesReady` are the two steps,
`HunksShow` and `DiffShows` the inductions over the lines of a file and over the files.
Result: `DiffNumbersAlwaysTrue`, for any number of files, hunks and lines, of any of the
seven kinds; in the runs, files have up to four.

### Only model-checked

Liveness (`EveryCallAnswered`, `LoadingEnds`, `BusyEnds`, `LabelsReturn`,
`ServiceComesBack`): fairness and ENABLED are outside the prover's reach. Every
invariant and action property of the passing runs is the subject of a theorem.

## 5. Not modelled

* HTTP details: the body limit, request binding, `publicURL`, CORS, templates,
  access log. A graceful shutdown does not exist in the code (`main` never calls
  `Shutdown`; its deferred `Close` is reached only if `Start` returns nil).
* `document.summary` and `totals` (sums of costs and tokens, a title), the meta
  summary's texts, titles and labels, the order of file names, highlighting and
  markdown beyond whether a text has a code block.
* Extended headers of a patch (`new file mode`, `rename from`) and binary files: in
  the second file of a patch the parser shows the former as context rows.
* Which fields the conversion uses unchecked: `FatalBodies` stands for the events that
  have one with a value it does not survive.
* `categorize.ts` (a table), styling, assets, and the build.

## 6. Order of work

Built in this order: `ShareTypes`, `ShareAPI`, `ShareService` with its proofs;
`ShareViewer`; `AdminConsole`; `OpenCodeDocument`, `DocumentLoop` with its proofs;
`ReaderPlan`, `SharedSession`; `NormalizedShare`, `DocumentGraph`, `ReaderView`,
`ReaderPanels`, `DisplayPlan`, `DocumentViews`; `UnifiedDiff`, `ReaderPage`,
`ServerProcess` with their proofs; the clients' proofs and the refinement;
`Listings`, `FoldFacts`, the proofs of `SharedSession`, of the order of the two
passes, the graph, the changed files, the diff parser and of the types of
`ShareViewer`; the proofs of the turns, the counts, the rendering and the sources.

# VesnAI in TLA+

VesnAI is a self-hosted note keeper: a server (Python, `server/vesnai`) that
owns a bundle of Markdown notes and runs AI agents over it, and an
offline-first app (Flutter, `app/lib`) that mirrors the notes on the owner's
devices. This directory holds the formal specification of the parts where
several actors change shared state, or where a rule has more cases than its
tests; the TLC configurations that check it on small instances; and the TLAPS
proofs of its main invariants.

It follows what the program promises most often: no edit of the owner is lost,
none is called synced before it is (`docs/SYNC_PROTOCOL.md`,
`docs/UPGRADE_PLAN.md`); every chat turn is answered; what happened is reported to
each device once (`docs/COMPLETION_DELIVERY.md`).

## 1. Inventory of the system

| Part | State it keeps | Operations | What makes it hard | Modules |
|---|---|---|---|---|
| Sync server (`sync.py`) | change journal: a sequence number, the last change of each path | `push`, `pull`, observer `_on_change` | stale bases, replayed uploads, clients without a base | SyncServer, Documents |
| Bundle store (`okf/bundle.py`) | note files, git history, observers, one re-entrant lock | write, read, delete, list, attachments | callers that read and write outside one lock section | SyncServer, NoteWriters |
| Note service (`notes.py`) | none of its own | create, update, delete with generated children and orphaned files | cascades, fresh paths | NoteWriters, Attachments |
| Recovery (`recovery.py`) | snapshots in `.recovery`, git history | snapshot, restore, restore_revision | half-finished restores, notes that appear meanwhile | NoteWriters, Library |
| Sync client (`sync_queue.dart`, `local_store.dart`) | the SQLite mirror, cursor, local trash | saveLocal, deleteLocal, bootstrap, flush, resolveConflict | saves during every await, lost responses, killed app | SyncClient, VesnaSync |
| Note editor (`note_detail_screen.dart`) | the note as loaded, the text on screen | open, rebuild, save | the row changes under the open screen | NoteEditor |
| Agents' writers (illustration, enrichment, Marena, tools, attachment routes) | in-flight sets, review stamps | read a note, compute (often a slow model call), write it back | lost updates, duplicate images, stale stamps | NoteWriters, and towards the devices VesnaSync |
| Chat turn queue, conversations | `queue.json`, `inflight.json`, messages, image jobs | accept, drain, resume, retry an image, delete | crash between any two writes, time-outs whose thread goes on | ChatTurns, Conversations |
| Chat agent (`chat.py` and its helpers) | tools run, receipts, reply | tool loop, audit, correction, forced image | failures at any call, re-runs | ChatAgent, AgentRun, TurnRecords, WebSearch |
| Notifications (server and app) | feed with deliveries per device, claim ledger with leases | append, list, claim, present, record, acknowledge | two isolates, a consumer that dies or outlives its claim | Delivery |
| Pairing (`auth.py`) | pending codes with expiry, `devices.json` | create, redeem, verify, revoke | every request on its own thread, no lock; the file is emptied and rewritten in place | Pairing |
| Self-tuning (`selftune.py`, reviews, `tagging.py`) | memory files, trajectory log, tool policy, classifier | update_memory, reviews, migration, training | read, check and write in three lock sections; threads of timed-out turns; torn logs and files | SelfTuning, Library |
| Search index (`ai/index.py`) | chunks of notes | index, remove, search | no lock of its own; observers that write the note they index | SearchIndex |
| Start-up (`bootstrap.py`, `factory.py`, voice registration, secrets) | providers, registration, keys | start, register, unregister | combinations of settings, hosts and cut writes | Startup |
| Capture, shared captures, screens, caches, device I/O | app-side tables and files | - | - | not modelled |

`PROJECT.json` lists every component with its status and every hazard with the
line where it bites.

How they interact: the app calls the server over HTTP; every server route and
agent goes through the bundle store, whose observers feed the journal, the
search index and the illustration jobs; chat turns run in executor threads and
submit image jobs, whose ends are announced in the notification feed; the app's
screens read the in-memory list that is reloaded from the mirror, and write
through `NoteRepository`, which saves to the mirror and starts a flush.

## 2. Modules

    NoteTypes                documents, rows, changes, outcomes
      SyncServer             bundle, journal, trash; push, pull, agents
      SyncClient             mirror, cursor, local trash; the client's transactions
        VesnaSync            both, with the network, the owner and failures
          NoteEditor         the note screen on top
    Conversations            a session's file and its whole-file updates
      ChatTurns              route, queue, drain task, threads, image jobs, crashes
    AgentRun                 what a run of the agent promises the queue
    ChatAgent                one run, shown to implement AgentRun
    NoteWriters              the server's writers of notes, recovery
    SearchIndex              indexing and searching
    SelfTuning               memory, reviews, tool policy
    Pairing                  codes and the register of devices
    Delivery                 feed, consumers and ledger

    Documents                reading, merging and comparing documents, links, graph
    Attachments              which file is meant, described, indexed or orphaned
    TurnRecords              receipts, guardrails, audits, training examples
    WebSearch                the search agent's plan, collection and summaries
    Library                  project answers, uploads, revisions, tags
    Startup                  providers from settings, host and registration

    <module>_proofs          theorems: VesnaSync (and Documents), ChatTurns,
                             ChatAgent, NoteWriters, SearchIndex, SelfTuning,
                             Pairing, Delivery
    <module>Checks           what the pure operators must do, as named assumptions
    MC<module>               instances for TLC

**NoteTypes, SyncServer, SyncClient, VesnaSync.** A note's text and metadata are
abstracted to its *lineage*: the set of owner decisions (`Edits`) whose result
its author had on screen. Two documents count as the same content exactly when
their lineages are equal (`_content` compares everything but ids, versions and
times), and a document whose lineage includes another's was written by someone
who knew it. Versions and bases are integers as in the code; `NoBase` is the `-1`
of rows from before base versions. `bundle` is the note files, `seq` and `journal`
are `sync_state.json`, `kept` holds the recovery copies of `push`, `trash` the
deletion snapshots; `published` is history: every document a path ever had.
`PushChange` is one iteration of `push`, with one disjunct for each way through
it. The server's own agents read a note in one lock section and write it in another.
`ServerEdit` is `NoteService.update` (`notes.py:83-109`) with fields built on what was
read, as the chat's tools and `append_to_note` use it; it raises the version of now.
`ServerWritesBack` puts the whole document back under the version it had, as Marena
(`marena_review.py:167-174`), the enrichment (`enrichment.py:131-136`), the cached
extracts (`note_tools.py:490-528`), links (`chat.py:739-747`) and new attachments
(`routes.py:345-353`) do. `Readable` is what either may know: any document the path ever
had, where the instance puts the path into `StalePaths`, and the note of now elsewhere.
A write-back may add nothing (`added = {}`): review stamps and caches are metadata that
every later upload is merged with. `overwritten` is history: the edits an agent wrote
over without having read them. `mirror` is the note table; `SavedRow`, `DeletedRow`, `MergedRow`,
`AnsweredRow`, `PulledRow`, `MineRow` and `RecoveredRow` are what each transaction
of `sync_queue.dart` writes over the row it reads. `net` is the network operation
a device is in: `_serialize` allows one at a time, so it is one record of what the
operation has read so far; between two of its steps - two `await`s - the owner
saves and everybody else acts. `guessed` is history: the paths of which some device
made its own version the base (see `EditsNeverLost`). `inbox` holds uploads; the bundle lock is kept from
the first to the last change of one. `BreakOff` is an exception, a time-out or a
killed app: the upload may be lost, or be processed at any later time.

**NoteEditor.** `editor` is the open note of each device. `Rebuild` is what a
reload of the list does to an open screen; `SaveEditor` is `_save`.

**Conversations, ChatTurns.** A turn is the owner's message and the assistant's
placeholder; an update reads and rewrites the whole file. The event loop takes one
step between two awaits; `stage` says how far it is with a turn (awaiting the
agent's thread, reply written, announced, dequeued). `RunReturns`, `RunRaises` and
`TimeOut` end the wait; after a time-out the thread stays in `threads` and may still
submit images, holding its slot. `Restart(at, asked, k)` is a crash at any of those
points, also inside the write of `queue.json` (`lost`), and the start after it: the
reply recovery of the route, the turn that was in flight, the queue. `ThreadReads`
and `ThreadWrites` are other requests that write back a conversation read earlier
(`reverted`).

**ChatAgent, AgentRun.** The language model is free: it calls any tool, replies
with or without image links, and its audit may name anything or not parse. One
step is one call; `CrashAndRerun` runs the turn again under the same id.
`AgentRun` is the abstract run: images come from the tool, or one is forced at the
end, and the run ends. `KeepsPromise` is its specification under the mapping
`Image`, liveness included: it is what `ChatTurns` assumes of a thread
(`SubmitImage`).

**NoteWriters.** `disk`, `files` and `trash` are the bundle, its attachments and the
snapshots; `artist`, `critic` and `tool` are the threads between their reads and
writes, with the document as read. `mixed` marks notes a stale write-back hit,
that were created again, or put back from a snapshot older than they had been; `extra`
counts images asked for besides the job's.

**SearchIndex.** `job` says where each thread is in `index_concept`: taking the note
out, embedding, storing chunk by chunk. `Extracts` is the observer's own write under the
lock, of the texts it finds in attachments; the note is then indexed twice (`again`),
while the tool that wrote it keeps the document it had (`own`) and indexes that
afterwards, unless it reads the note again (`Through`). `doubt` is history. `Found` is every result a search may give,
whichever chunks are nearest.

**SelfTuning.** `call` is a memory call between read, check and write; a session has
its turn and its reviews as tasks, and the thread of a turn that timed out (`Late`),
which goes on in the call it is in and may make others. `StopsInWrite` is a stop of the
server inside a write of a memory file (`bundle.py:93`): its first entries are left, or
what is left is no note (`broken`), and then every turn and review ends at its first read
and, with a profile to migrate, no server comes up. An entry cut in its middle counts as
gone. `log` is the trajectories, `torn` a line of it cut short.

**Pairing.** `register` is `devices.json` as last written, `file` whether the file can
be read: a save opens it, which empties it, and then writes it (`auth.py:70`). A stop in
between leaves it empty; of two saves at once the shorter text may leave the end of the
longer standing. Nothing repairs such a file (`torn`) but a save by a request that read it
before. `MintChecks`/`MintStores`,
`RedeemFinds`/`RedeemTakes`/`RedeemReads`/`RedeemOpens`/`RedeemSaves`/`RedeemVerifies`
and `RevokeReads`/`RevokeOpens`/`RevokeSaves` split the methods at every read and write
of shared state, since nothing locks them. `Admitted` is whom `verify` finds.

**Delivery.** A consumer is the foreground timer or the background task of a device;
`ledger` is the SQLite table both share, and `LeaseLapses` its ten minutes, whether or
not the holder is gone. `alerts`, `doubts` and `passed` are history.

**Pure operators.** `Documents`, `Attachments`, `TurnRecords`, `WebSearch`, `Library` and
`Startup` have no variables. What they must do is stated in the module of the same
name with `Checks` as named assumptions over bounded inputs, which TLC evaluates
before a run: `DocumentChecks` in `SearchIndex`, `AttachmentChecks` in `NoteWriters`,
`TurnRecordChecks` and `WebSearchChecks` in `ChatAgent`, `LibraryChecks` and
`StartupChecks` in `Pairing`. (The host run has nothing to do with them: it is the
run TLC evaluates them on.)

Definitions named "Faulty variant" are used by no specification; each is a plausible
bug that makes the property named with it in `PROJECT.json` ("mutants") fail.

## 3. Properties

| Property | What it says | Where it could go wrong |
|---|---|---|
| `SyncedIsPublished` | a row marked synced is a document the server had under that very version | edit or deletion during an upload, lost response, replay |
| `BaseIsGrounded` | the base a row or an upload names is a server document the edit was built on | rebasing, resolution, restore |
| `CaughtUpMirrors` | once the cursor passed a path's last change, an unedited row equals the server's note | catalogue merged late, batch and cursor apart |
| `EditsNeverLost`, in `EditsInvariant` | every saved edit is pending, in a note, a copy or a trash, was given up, or was written over by an agent that had not read it | everything |
| `NoSilentOverwrite` | no step but an agent's write replaces a note by one that does not build on it, unless the old text is kept | two devices on one base, late uploads |
| `UploadInvariant`, `EditsInvariant`, `PullInvariant` | the inductive invariants behind these | section 6 |
| `UploadsSettle`, `DevicesConverge` | a queued change is acknowledged or a conflict; devices end up with the server's notes | endless rebasing, missed changes |
| `RepliesAreKept` | an accepted turn waits, or has a reply that was announced | crashes between the writes, torn queue |
| `TurnsRunInOrder`, `RepeatsNeedRestart` | turns start in order, and again only after a restart | time-outs, two drain tasks |
| `ImagesReachTheirMessage` | a finished image is on the message it was asked for | jobs that end before the reply, after a time-out, in a re-run |
| `SettledRepliesStay`, `TurnsLeaveTheQueue` | a settled reply is not changed; every turn leaves the queue | late threads, start-up recovery |
| `ShownImagesAreMade` | a reply shows no dead image link, and an image the model showed is on its way | correction, failing tools |
| `LedgerKeepsUp` | receipts are behind the effects by one per crash at most | stop between effect and receipt |
| `KeepsPromise` | `ChatAgent` implements `AgentRun` | both ways of making an image |
| `SkippedNotesWereRead` | a note Marena passes over had its present text read | edit during a review, restore, restamping |
| `ImagesAreAskedFor` | the illustration job leaves one image to a note | stops, deletions, restores, two requests |
| `RestoresAreWhole` | a snapshot leaves the trash when all of it is back | restore cut short and repeated |
| `IndexIsCurrent` | a note at rest is indexed with its present text, whole | indexing from a document already replaced, or never completed |
| `NobodyIsCrowdedOut` | a search returns as many notes as asked for | chunks of one note, hidden notes |
| `FactsLeaveOnRequest`, `LimitHolds` | facts go only when asked for, or cut by a stop inside the write of their file; the limit holds | calls between each other's read and write, late threads, stops |
| `CodesPairOnce`, `RegisterIsKept` | a code pairs one device, expired codes block none; a device is admitted until revoked, and nobody else is | concurrent requests, stops inside a save |
| `AcknowledgedWereHandled` | what was acknowledged was shown, or is a failure left to the app | rounds that break off |
| `AlertsRepeatOnlyInDoubt` | a second alert needs a claim whose outcome was not recorded | two consumers, lapsed leases, new pairings |
| `EventsArrive` | every event is handled in the end, or the device is revoked | dead holders, listing and acknowledging |

Exceptions are named, by history variables that mark exactly where the code gives
the guarantee up: `Reused` (a path written anew, or written back, under a version it
had), `overwritten` (edits an agent wrote over, not having read them), `guessed` (a base
taken from the local version), `reverted` and `lost` (a stale write-back of a conversation,
a torn `queue.json`), `mixed` (a stale write-back of a note), `raced` (a stale register, a
memory file checked before another's write), `torn` of Pairing (a `devices.json` left
unreadable), `doubt` (an indexing that failed, met another or was of a document that is not
on disk: one replaced meanwhile, or a tool's own from before the observer added the texts
of attachments), `doubts` (a claim left open). The properties say that nothing else does.
`mixed` covers what a write-back does to an upload, too: the properties of NoteWriters say
nothing of such a note, and that loss is `overwritten` of VesnaSync.

The assumptions of the `Checks` modules: *Documents*: `NothingIsLost`,
`VersionsRise`, `RepetitionsAreRecognised`, `OrderIsStable`, `RelativeLinksArrive`,
`TargetsAreCanonical`, `LinksAreAccountedFor`, `FiltersKeepEdges`,
`CopiesCanBeEdited`. *Attachments*: `DeletionTakesItsFiles`,
`DeletionLeavesNoOrphans`, `ResolutionIsSound`, `DescriptionsAreOfTheFile`,
`NotesAlwaysGiveAStyle`, `RefreshIsStable`, `ChatImagesBelongToTheMessage`.
*TurnRecords*: `ReceiptsAgreeWithTheTurn`, `TurnsAreKeptApart`, `EvidenceIsTheTurns`,
`AuditsOrderOnlyWhatIsOpen`, `TrainingSeesEachOnce`. *WebSearch*: `RunsAreBounded`,
`SpentTimeShowsNothing`, `SourcesAreThoseFound`, `NotesAreFinishedSearches`,
`PlansAreUsable`, `FetchesEnd`. *Library*: `AnswersStayInTheProject`,
`TitlesComeFirst`, `RevisionsAreEdits`, `UploadsAreShared`, `SuggestionsAreLearnt`,
`ExamplesStrengthen`. *Startup*: `ContainersRunNothing`,
`BareSettingsAskForNothing`, `ComponentsAreIndependent`, `OnlineIsNeverFaked`,
`MoreNeverHurts`, `TheAppHasTheLastWord`, `CutsAreMended`. A comment before each says
what it means.

## 4. Passing runs

| Run | Instance | Why it is enough |
|---|---|---|
| `SyncRaces` | 2 devices, 1 note and 1 fresh path, 3 decisions, 1 broken-off operation | an edit on each device and a resolution or deletion, uploads of two changes, new notes and 'keep both' copies: every exchange is between one device and the server |
| `SyncAgents` | 2 devices, 1 note that agents change from reads of any age, 3 decisions | an edit of a device, one of the other or a resolution, and an agent's write-back or deletion between any two of their steps |
| `SyncSettles` | 2 devices, 1 note with an edit from before base versions, 2 decisions, 1 broken-off operation | the retry after each way an operation can end |
| `TurnQueue` | 2 turns, 1 image job, 1 executor thread, 1 restart, 1 write-back by another thread | order needs two turns; one restart reaches every crash point, and what runs after it |
| `ChatAgent` | 3 kinds of tools, 2 rounds of 2 calls in each of 2 loops, 1 crash | two calls tell the last from the others, two iterations reach the limit |
| `NoteWriters` | 1 note, 2 edits, 1 deletion, 2 images, 1 tool call, 1 restart | an edit before and during a task; a second image is the duplicate |
| `Pairing` | 2 devices, 3 codes, cap 2, 3 ids, 1 revocation, 1 restart | two requests for one code, two saves at once, a stop inside one, and a third code beyond the cap |
| `Delivery` | 1 device with both consumers, 2 events and 1 of an older release, 2 pairings, 1 fault, 1 outlived claim | devices share nothing but the feed; a failure event, one that is none, and a list that grows during a round |
| `SelfTuning` | 1 session with its turns, a late thread and a review, 2 files, 2 facts, limit 2, 2 calls, 2 turns, 2 restarts | two calls race, of a late thread and its successor too; the second start finds what a stop inside a write left. What a third call does to what two have left is for the theorems |
| `SearchIndex` | 2 notes (1 hidden), 3 texts of 1 to 2 chunks, the observer's included, 1 tool, 1 failure, 1 restart | a text with more, and with fewer, chunks than the last; a tool's text, the observer's addition and one more write |

Versions, sequence numbers and messages are bounded by these. Devices, decisions and
codes are interchangeable where a run declares `Symmetry`; liveness runs use none.
Deadlock is checked where the system may always go on; it is not in `TurnQueue`,
`NoteWriters`, `Pairing`, `Delivery`, `SelfTuning` and `SearchIndex`, where the bounds
(events, calls, restarts) let everything come to rest.

Fairness. *SyncSettles*: the app starts a sync at launch, at every resume, after every
save and by its retries, so an idle device eventually starts one; an operation that
does not break off goes on; the server handles what it received. Nothing is assumed
of the owner or the agents. *TurnQueue*: the event loop schedules the drain task and
goes on after each await, and `asyncio.wait_for` fires; nothing is assumed of the
agent's threads or of the image jobs, so `TurnsLeaveTheQueue` rests on the time-out
alone. *ChatAgent*: every model and tool call returns (they have their own time-outs).
*Delivery*: the foreground timer fires for ever, a round that began goes on, a lease
ends by the clock; nothing makes the background task begin, and no fault is forced.
Fairness is weak everywhere. `DevicesConverge` speaks of rows without a pending edit: a
conflict waits for its owner.

## 5. Runs that find a disagreement

Each shows the code doing something that a document of the repository rules out.

* `StaleEdit` refutes `NeverSilentlyOverwrites`: versions restart at 1 when a
  deleted path is written again, so a base from before the deletion matches the new
  note (`sync.py:134`, against `docs/SYNC_PROTOCOL.md:6` and `:31-33`).
* `EditorStale` refutes `NoSilentOverwrite` for the note screen: text loaded before
  a download is saved on the base of the row after it (`note_detail_screen.dart:68`,
  `sync_queue.dart:50`, against `docs/UPGRADE_PLAN.md:80-81`).

The passing runs state the same ideas where they hold, with `Reused` as the exception.

Two things only came out of proofs that did not go through:

* *A guessed base.* `saveLocal` and `deleteLocal` give a row that knows no base the
  local version as its base (`sync_queue.dart:50-54`, `:80`), although every edit made
  before the upgrade has raised that version; `docs/SYNC_PROTOCOL.md:7` has such clients
  omit the base. A note at version 1 with one such edit is at version 2 locally; when another
  device's edit has become the server's version 2 meanwhile, a second edit of the row
  names 2 as its base and replaces that edit without a copy. `EditsNeverLost`,
  `NoSilentOverwrite` and `BaseIsGrounded` therefore leave out the paths in `guessed`;
  with three decisions in the instance of `SyncSettles`, one more than it has, TLC
  finds the case in ten steps when the exception is taken out.
* *A version that goes back.* A restore that was cut short leaves its snapshot in the
  trash; when the note is then edited, deleted again and put back from the older
  snapshot, its version falls behind one it had, and a review of the newer text may
  stamp the older. The invariant of `SkippedNotesWereRead` failed there; such a note is
  now in `mixed`, as one created again under an old version was.

Observations made while modelling, kept by the models as the code has them:

* *Documents.* `parse.py:10` says that reading what was written gives the same document;
  each read strips one leading empty line of the body, so a repeated upload of such a
  note becomes a conflict with a recovery copy (`RepetitionsAreRecognised`). Uploads
  merge metadata by union: a key is never removed.
* *Turn queue.* `chat_turn_queue.py:199` speaks of orphaned turns; the start marks the
  placeholders of queued turns, too, which are then answered. `docs/DEPLOYMENT.md:200`
  says a failed image job notifies; jobs of a chat do not (`app_state.py:629-659`).
* *Agents and uploads.* The agents compare nothing when they write. An upload that was
  accepted between an agent's read and its write is replaced by what the agent read; of a
  write-back the version goes back as well. The device that uploaded it pulls the older note
  over its synced row, and the edit is left in the git history only: no recovery copy, no
  conflict (`marena_review.py:167-174`, `enrichment.py:131-136`, `note_tools.py:467-486`
  and `:490-528`, `chat.py:739-747`, `routes.py:345-353`). With `overwritten` taken out of
  `Safe`, TLC finds it in three states. The guarantee of `docs/SYNC_PROTOCOL.md` is about
  uploads, and the properties have it for those.
* *Writers.* A note deleted and created again keeps its review stamp while its version
  restarts, so Marena may pass it over (`mixed`). An attachment added to a note from a
  chat is dropped again by the update that follows it (`app_state.py:425-440`). Importing a
  backup notifies no observer.
* *Delivery.* A failed presentation releases whatever claim there is by then
  (`notification_delivery.dart:66`); a new pairing is given the whole history of the
  feed, which the ledger of the device absorbs.
* *Pairing.* Two requests for one code: the second ends in a `KeyError`
  (`auth.py:113-117`), the code still pairs once. A stop inside a save, or two saves at
  once, leave a `devices.json` that `_load` refuses (`auth.py:64-70`): from then on every
  request of every device fails, and so does pairing anew, with the code used up, until
  somebody repairs or removes the file.
* *Search.* A tool that creates or updates a note with an attachment indexes the object it
  got back (`app_state.py:446`, `:459`, `:506`), after the observer has added the caption to
  the note on disk and indexed that (`app_state.py:315-322`): the caption cannot be searched
  for until the note is indexed again, though nothing failed and nobody else was there.
* *Web search.* `search_agent.py:4-5` says the run is bounded by its budget; the collection's
  deadline starts after the plan and the run's before it, so a search that uses up its
  time shows no sources (`SpentTimeShowsNothing`).
* *Start-up.* `bootstrap.py:5-6` names a configuration that needs nothing but omits speech,
  whose default is Whisper. Whether a language model is named properly is noticed only
  after everything was installed. A deleted registration is seeded again from the file
  at the next start.
* *Self-tuning.* The migration called one-time (`selftune.py:156`) runs at every start and
  brings back facts that were removed. With a torn line in the trajectory log every later
  turn that finds the policy review due (and it stays due) ends as a failure instead of its
  answer, until somebody repairs the log (`PolicyRaises`). A stop inside the write of a
  memory file may leave what is no note: every turn and review then fails, and with a
  legacy profile the server does not start (`broken`).

## 6. Proofs

TLAPS proves, for all values of the constants, every invariant and every action
property the passing runs check, and the safety half of the refinement:

| Module | Theorem | States |
|---|---|---|
| `VesnaSync_proofs` | `Typing` | `Spec => []TypeOK` |
| | `UploadsAreSound`, `SyncedRowsArePublished`, `BasesAreGrounded` | `[]UploadInvariant`, `[]SyncedIsPublished`, `[]BaseIsGrounded` |
| | `UploadsOverwriteNothing` | `NoSilentOverwrite`, of all steps but the agents' |
| | `PublishedStaysSafe`, `NoEditIsLost` | `[]EditsInvariant`, `[]EditsNeverLost` |
| | `PullsAreComplete`, `CaughtUpRowsAreCurrent` | `[]PullInvariant`, `[]CaughtUpMirrors` |
| | `IdentityIsKept`, `KeysSurviveUploads`, `UploadsRaiseTheVersion`, `UploadsLoseNoText`, `RepetitionIsRecognised` | what an accepted upload does to a note, for all documents |
| `ChatTurns_proofs` | `TypeCorrect`, `RepliesKept`, `TurnsInOrder`, `RepeatsAreRestarts`, `ImagesArrive` | `[]TypeOK`, `[]RepliesAreKept`, `[]TurnsRunInOrder`, `[]RepeatsNeedRestart`, `[]ImagesReachTheirMessage` |
| | `SettledStays` | `SettledRepliesStay` |
| `ChatAgent_proofs` | `TypeCorrect`, `ImagesAreMade`, `LedgerLag` | `[]TypeOK`, `[]ShownImagesAreMade`, `[]LedgerKeepsUp` |
| | `RunsKeepPromise` | `ChatAgent` implements `AgentRun`: its initial states are, and its steps are steps or stutters |
| `NoteWriters_proofs` | `TypeCorrect`, `SkippedWereRead`, `ImagesAsked`, `WholeRestores` | `[]TypeOK`, `[]SkippedNotesWereRead`, `[]ImagesAreAskedFor`, `RestoresAreWhole` |
| `SearchIndex_proofs` | `TypeCorrect`, `IndexCurrent` | `[]TypeOK`, `[]IndexIsCurrent` |
| | `NobodyCrowdedOut` | `[]NobodyIsCrowdedOut`, where no note has more than `Extra` chunks |
| `SelfTuning_proofs` | `TypeCorrect`, `LimitKept` | `[]TypeOK`, `[]LimitHolds` |
| | `FactsOnlyOnRequest` | `FactsLeaveOnRequest` |
| `Pairing_proofs` | `PairingTypes`, `OneDevicePerCode`, `AdmittedUntilRevoked` | `[]TypeOK`, `[]CodesPairOnce`, `[]RegisterIsKept` |
| `Delivery_proofs` | `TypeCorrect`, `AcknowledgedIsHandled`, `RepeatedOnlyInDoubt` | `[]TypeOK`, `[]AcknowledgedWereHandled`, `[]AlertsRepeatOnlyInDoubt` |

They rest on the named assumptions of the modules and on nothing else: bounds are
natural numbers, ids and values that stand for "none" are no members of the sets they
are added to, initial notes are paths, background consumers belong to devices, the
lock and the import are no tools (`ThreadsAssumption`), illustrations are given paths no
note has (`NotesAssumption` of `NoteWriters`), a device has an id (`MaxIds > 0`), and
there are finitely many memory files, since their sizes are added up
(`TargetsAssumption`). `NobodyCrowdedOut` alone has a hypothesis of its own, the one its
comment names: a search fetches `Extra` chunks for each note it wants, so notes of more
chunks can crowd others out in the code, too.

*Synchronisation, uploads.* `SyncedIsPublished` and `BaseIsGrounded` are not inductive:
an acknowledgement arrives long after the upload left, when the row may have been
edited, deleted or turned into a conflict. `UploadInvariant` adds what ties the
three places together while an upload is under way: the server's notes and
everything a device has fetched but not applied are published
(`CurrentIsPublished`, `FetchedIsPublished`); the changes still to be processed
are the rows the device remembers, and an acknowledged outcome names a published
document (`UploadIsTracked`, with `OneUpload` so that the response a device takes
is its own); the submitted rows stay pending and are only built upon
(`SubmittedIsKept`). `NoSilentOverwrite` follows: an accepted edit names the current
version as its base, `BaseIsGrounded` gives a published document of that version it
was built on, and it is the current one unless the version names two documents -
`Reused` - or the base was `guessed`. The agents are part of this: an upload that comes
after their write-back finds either its base gone, and conflicts, or a version that names
two documents.

*Synchronisation, edits.* `EditsNeverLost` alone says nothing of a row whose upload is
acknowledged. `EditsInvariant` does: whatever was ever published stays `Safe`
(`PublishedIsSafe`), so a row that becomes synced, hence published, may stop being
pending; a deletion removes only what is safe already (`DeletionsAreSafe`); a resolution
finds its row still queued (`ResolutionIsOpen`); and nobody has seen a decision before
it was taken (`TakenOnly`). That an accepted upload keeps the note it replaces safe
is where `UploadInvariant` and `VersionsName` are used. An agent's write is safe by its
own account: what it read was published, so the note it leaves is, and of the note it
replaces it keeps what it had read and names the rest in `overwritten` (`AgentWrote`,
`AgentsWrite`); the devices' own edits are as safe beside such agents as without them.

*Synchronisation, downloads.* `CaughtUpMirrors` needs the same of everything in flight.
Of a path whose last change a device has passed, a catalogue or the document of a
resolution under way shows the server's note of now (`FetchedIsCurrent`), and so does an
acknowledgement (`AnswerIsCurrent`) of a row that is still to be uploaded when it arrives
(`RowsInPlace`); a pull brings every path up to the cursor it brings (`DeltaIsComplete`);
and the journal's numbers rise and say which notes are gone (`JournalCounts`).

*Chat turns.* `IInv` is about one order, that of acceptance: the queue with the turn in
flight in front is sorted by it (`QueueInv`), the loop's turn is the one in flight
(`StageInv`), a turn that waits still has its run (`RunInv`), copies, threads and jobs
refer to accepted turns only (`RefInv`), and a turn leaves the queue with its reply written
and announced (`ReplyInv`). Every crash point of `Restart` is a case of its proof.
`SettledRepliesStay` is proved from it as a step: a settled message is nobody's current
turn and does not look empty, so neither a late thread nor the recovery at the start
touches it.

*Chat agent.* Between a tool's effect and its receipt there is something to record
(`StepInv`), and an image the audit misses has not been made since (`ReplyInv`).
`RunsKeepPromise` takes each action of `ChatAgent` to the action of `AgentRun` it
implements, under the mapping `Image`.

*Writers.* `VersionsInv` follows, for each note, the last version a device may hold: the
note of now, the snapshots and the reviews under way are of it or of older ones, and
what carries its own version as stamp was read. `ImagesInv` counts the images of a note
in the bundle, in the trash and under way against `extra`.

*Search.* `NoteInv` says of each note that at most one thread is putting it in and
that what that thread has put in so far is all the index has of it. Under the lock the
text being indexed is the one on disk in both of the observer's rounds; a tool's own
document is compared with the disk when it begins. `NobodyIsCrowdedOut`
is a statement about every index: a counting argument, by induction over finite sets,
that so many chunks cannot belong to fewer notes.

*Self-tuning.* A call that nobody has overtaken since it read (`~moved`) is to write all
of the file but what it was asked to cut (`CutsAreAsked`), and once it is past its check
the limit holds for what it will write (`ChecksStand`). A turn that runs has been
counted (`TurnIsAhead`). What a stop cuts short is a part
of what would have been written, so it is no larger (`CutIsNoLarger`).

*Pairing.* The invariant follows an id from the moment it is drawn: nobody else has
it, it was neither written nor revoked so far (`IdInv`), everything read back from
the register was once written (`SavedInv`), and a code that was taken is gone
(`CodeInv`); a file that is not whole is being saved or is `torn` (`FileInv`).
`RegisterIsKept` is then inductive.

*Delivery.* `AcknowledgedWereHandled` needs the same of what a round has behind it
but has not acknowledged yet (`HandledInv`), and that the ledger's "delivered" is never
taken back. `AlertsRepeatOnlyInDoubt` is proved by an account: for a device and an
event, the alerts so far, plus one for each consumer that holds the event and has not
presented it, plus one if the claim is free, are at most one more than the doubts; and
a lease whose holder is gone counts as if it were free already (`Paid`), which is
what pays for the alert after it lapses. Each step moves a unit between these places
or is paid for by a doubt (`TouchedPaid`); all others leave them alone (`QuietPaid`).

*Documents.* Facts about `Updated`, the operator of an accepted upload, that
`DocumentChecks` evaluates on small documents: the merge keeps the keys of both, sets
identity and version last, and the recovery copy holds the text that lost.

Least elements, smallest sets and lists of the first occurrences are had from well-founded
orders (`WFMin`), not from an induction theorem; `Merged`, `Without` and `Size` of
`SelfTuning` are written by positions and cardinalities for that reason.

Only model-checked: what needs fairness - `UploadsSettle`, `DevicesConverge`,
`TurnsLeaveTheQueue`, `EventsArrive` and the end of a run in `KeepsPromise` - which is out
of the prover's reach. The assumptions of the `Checks` modules are evaluated on bounded
inputs: most are about recursive definitions, whose values for all inputs would need
induction over data.

## 7. What is not modelled

* Of the synchronisation: refused paths and unparsable documents (no change but an
  answer), the attachment outbox before the push (a failing one is a `BreakOff`), restore
  from the local trash, and the 30-second circuit breaker (it delays a flush). "Keep
  mine" counts as knowing the server's note it is based on, although the catalogue is
  read after the dialog was shown. A stop of the server between a note file and the
  journal: the two are one step of `SyncServer`, on which the proofs of uploads rest.
* Of the agents: prompts, texts, tool schemas, scores; a torn line of the receipts
  (`tool_receipts.py:127-130`).
* Of files rewritten in place: `queue.json`, `devices.json`, the trajectory log and the memory
  files may be torn in the models. A conversation's file (`conversations.py:321`) and a note
  that is no memory file (`bundle.py:93`) are written whole, and so is the write of the
  migration at a start.
* Of the search: `search` asks for the size of the index and then queries it
  (`index.py:132`); `Found` is one step. What the observers add at a start is in place before
  the first request.
* Of delivery and pairing: rate limits, the loss of `notifications.json`, the clock as a
  number (a lease lapses at any time, a code expires at any time).
* The app's capture drafts, shared captures, chat view, caches, screens, and device I/O;
  discovery, TLS and the command line; the git history as a data structure.

What would come next: the journal apart from the bundle, with a stop of the server
between them, and the proofs of the synchronisation on top of it; the note editor's
own invariant; the "Keep mine" resolution with the base it really reads; the capture
outbox.

## 8. Running

    tlc -workers 2 -config SyncRaces.cfg MCVesnaSync
    tlc -workers 2 -config TurnQueue.cfg MCChatTurns
    tlapm VesnaSync_proofs.tla
    tlapm SelfTuning_proofs.tla

The longest runs (`SyncAgents`, `SyncRaces`) take one to three minutes on two workers,
the longest proof (`VesnaSync_proofs`) about ten.

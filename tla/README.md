# Clipture: TLA+ models, checks and proofs

Clipture is a replay-buffer recorder for Windows: a native engine keeps the last
minutes of the screen and the sound, and a hotkey turns them into a clip. This
directory holds formal models of the parts of it where a mistake costs somebody
footage, an installation, a recording, or a friend they did not choose, the TLC
configurations that check them and the proofs that hold for every size.

Contents: [the system](#1-the-system), [the models](#2-the-models),
[the runs](#3-the-runs), [the proofs](#4-the-proofs), [what the work turned
up](#5-where-the-code-departs-from-what-it-says), [what is not
modelled](#6-what-is-not-modelled), [the plan](#7-the-plan). `PROJECT.json` maps every
definition to the lines it models and lists the hazards the properties are for.

To run: `tlc -config MC_PacketArena.cfg MC_PacketArena` (and likewise for every row of the
table of runs), `tlapm PacketArena_proofs.tla`.

## 1. The system

    clipture.exe (Rust/Tauri controller, resident; src/src-tauri/src)
      |-- JSON lines over stdin/stdout --> clipture_engine.exe (C++; src/engine/src)
      |-- private pipes, on demand ------> clipture.exe --ui-worker (React in WebView2; src/src)
      |-- iroh QUIC streams -------------> other people's controllers (sharing)
      |-- --runtime-recovery, lock file -> clipture.exe as update supervisor
      +-- files: clips, their trim and mix journals, clips.json, settings, sharing
          state, thumbnails, .update/journal.json

| Component | State it keeps | Operations | What is hard about it | What makes it correct |
| --- | --- | --- | --- | --- |
| In-place replay storage (`replay/InPlacePacketArchive.cpp`, `InPlaceMediaBuffer.cpp`, `platform/windows/InPlaceFile.cpp`) | one file per arena with its free map and cursor; leases held by several owners | place and write, release, detach, seal, place samples, finalize, publish, re-home | leases are dropped by destructors on any thread while a save freezes the file without holding the lock; any write can fail | no lease is overwritten or leaked; a clip's index names exactly its bytes; nothing expired leaves with a clip |
| Replay segment store (`ReplaySegmentStore.cpp`) | entries (resident, spilled, leased), queue, backfill list, counters | push, spill, trim to the window, take, discard, backfill | the worker writes outside the lock while `clear`, trimming and retention go on | dropped footage stays dropped; the counters agree with the entries |
| Engine orchestration (`Engine.cpp`), muxer (`Mp4Muxer.cpp`) | configuration, windows consumed by saves | configure, start, stop, save | frames still in the encoder when a save chooses its window | a clip has every frame of its window, and no frame is in two clips |
| Capture, encoding, audio | GPU frames, encoder sessions, clocks | per frame and per buffer | device loss, drift between clocks | out of reach here (section 6) |
| Engine client (`engine/client*`) | the process and its pipe, generations, pending requests, last configuration, watchdog | request, end of an engine, restart and restore, probe, shut down, resume | replies and ends of one generation against the requests of the next; a blocked write holds the lock | each request gets one answer; recording comes back as it was configured; a shutdown is complete |
| Save coordinator, capture gate (`save/`, `updates/capture_gate.rs`) | one lease, the stored settings | save, change settings, install | the lease lives across awaits; each step may fail | saves and installations exclude each other |
| Friends (`sharing/store.rs`, `server.rs`, `service_lifecycle.rs`, `presence.rs`) | on each side a list of friends, goodbyes owed, blocked people, who is online | add, accept, remove; hello, goodbye, presence | two lists with no server between them; requests lost, late, duplicated; either side away for days | nobody is a friend without consent; declined stays declined; a removal arrives |
| Shared clips (`service_outgoing.rs`, `service_keep.rs`, `transfers.rs`, `download.rs`) | the sender's outbox and counters; the friend's inbox, answers owed, downloads and their partial files | share, revoke, offer, answer, read, download, verify, publish, cancel | answers out of order; the clip edited under a reader; a download cancelled while it starts; stops of either side | what is kept is what was offered; what the sender is told is true |
| Streams (`streams*.rs`) | blocks present, runways, the playhead, the index' order | read, run ahead, jump, merge, fail, close | several fetchers of one link that must not overlap nor starve a reader | no block is fetched twice at once; every reader gets its block |
| In-place updates (`updates/inplace`) | files in three places, journal, quarantine marker, lock | stage, swap, try, commit, restore, recover, clean up | power loss or a locked file at any rename, on a machine that must still start | one version of the installation, and the old one until the new one has proven itself |
| Trimming a clip (`media/trim`) | the clip, a journal per trim, their unflushed writes | plan, move blocks, rewrite index and header, cut, finish interrupted | samples slide over themselves; writes reach the disk in any order | every kept sample survives; an interrupted trim finishes |
| Mixing a clip's audio (`media/mix`) | the clip and a redo journal | plan, encode, commit, apply, finish interrupted | packets larger or smaller than their slots; a plan outlived by the clip | the clip plays, with its old or its new audio; an interrupted mix finishes |
| Clip library (`clips/`, `media/save_processor.rs`, `media/layout_repair.rs`) | files of the save folder, `clips.json`, one repair at a time | publish, list, rename, delete, trim, mix, repair | a file and its record change in two steps, each of which may fail, against the other commands, by names that are looked up first and used later | no footage is lost that was not deleted; a command touches its own clip |
| Thumbnails (`media/thumbnails.rs`) | URLs by token, pictures in memory and on disk, keys being made | url, image, prewarm, forget | waiters of a maker that fails; versions that change while it works | a picture is made once, is never outdated, and no request hangs |
| Import and settings (`library/`, `settings/`) | settings in memory and on disk, a granted folder, an index of imported videos | pick, save, scan, delete, rename | read, work and write back on several threads with no lock across | Clipture only deletes and saves in folders the user picked |
| UI process (`app/ui_process`) | the controller's slot, each process and its pipes, calls and their admission | open, close, crash, time out, reopen, call, exit | a window asked for while the last one ends; calls that outlive their window, their page's patience or the room there is | one window at a time; a click is not lost; nothing outlives its window |
| Media playback (`media/playback.rs`, `sessions.rs`, `linear_view.rs`, `protocol.rs`) | sessions by owner, views of scattered clips | prepare, serve, release | the clip is rewritten while it is played; releases land late | a session ends with its window; a view is of the file it is served from |
| Notifications, tray, hotkeys, sounds, React | desktop integration, presentation | single operations | little that a model reaches | plain unit tests |

The controller never trusts the engine's or the window's memory: what survives a crash
are files. Two kinds of model follow. One is about files that somebody else may read at the
worst moment (arena, update, trim, mix, library, downloads); the other about processes
that answer one another (engine, window, friends, streams).

## 2. The models

| Module | Models | Its state | Its actions |
| --- | --- | --- | --- |
| `PacketArena` | the in-place archive, the file it owns, what the replay stores and a save do to it | free map, end and cursor of each arena; size, state and contents of each file; leases by owner (`held` by the stores, `save.pins`, `picked` and `moving` by a backfill) | one per critical section or file operation: `Capture`, `Persist`, `Expire`, `RehomePick/Write`, `InstallMoved`, `SelectWindow`, `TakeForSave`, `SealSnapshot`/`TrimEnd`/`ZeroSlot`/`Seal`, `PlaceSample`, `Finalize`, `Publish`, `FinishSave`, and their failures; each store has its own backfill |
| `EngineClient` | the host's side of the engine | generations, the process requests go to, what runs, hangs or was killed, each engine's queue and configuration, calls, the watchdog's phase, `start_guard` | request and answer, time out, end of an engine in its two critical sections, restart, restore, probe, shut down, resume; the engine serves, crashes, hangs |
| `Recorder` | who uses the engine: saves, settings changes, the installation; composes with `EngineClient` | stored settings, the gate's lease, the installation | the steps of each caller between two requests, and each of their failures |
| `ShareFriends` | the friends lists of all peers, their nodes and the requests between them | what each list says, goodbyes, blocks, presence, delivery tasks, the set of requests under way | user actions, node start and stop, delivery, heartbeat, and one action per step of a request: checked, handled, answered, heard, failed, lost |
| `ShareClips` | one clip offered to a friend, the answers and downloads | the file's version, outbox, counters, inbox, owed answers, requests, download rows, tasks and partial files | user actions of both sides, delivery and its answers, each step of a download from its first read to publication, stops |
| `ShareStreams` | one streaming session | blocks present, playhead, order, runways, readers | a reader's read, wait and arrival, each step of a runway, expiry, the local copy, the end |
| `AtomicUpdate` | the promise of an in-place update: one version at a time, replaced for good only once it has proven healthy | the kept version, what runs | start, try, prove, keep, stop |
| `InplaceUpdate` | staging, supervisor, swap, trial, commit, restore, recovery and cleanup | the bytes of each file in `installed`, `backup`, `staged`; journal, marker, what the launching process is at | one per rename or journal write, each of which may be the last one before a stop |
| `TrimJournal` | trims of a clip and the recovery of interrupted ones | clip and journals, as read and as last flushed; the trimmer's progress | one per write between two flushes, faults at each, power loss, start |
| `MixJournal` | mixes of a clip, their recovery, and trims that come between | clip as read and as last flushed, journals and plans, the mixer's progress | read, encode, plan, journal and commit, apply, flush, remove, finish what is left; failures, power loss, `Trim` |
| `ClipLibrary` | clips, their records, the layout repair | files by name, engine inputs, `clips.json`, the gate, what each thread does | each file operation and each write of the records of a save, a listing, a rename, a deletion, a trim or a mix, and of a repair |
| `Thumbnails`, `SettingsStore` | pictures; settings and imported folders (both extend `ClipLibrary`) | tokens, caches, keys being made, requests; settings in memory, on disk and in each thread's hands, the index | url, look up, wait, make, store, answer, forget; pick, read, scan, persist, adopt |
| `Library` | the three composed, in one process that may end | - | theirs, and `Restart` of all three |
| `UiProcess` | the controller's slot, window processes, pipes and calls | as above | open, close, ready, hang up, reader cleanup, reopen, exit, admission |
| `Playback` | a clip played in such a window; extends `UiProcess` | the clip's version and stamp, sessions with their ages, views, reads, each page's player | the steps of preparing (patches, stamp and index, session), of serving a video range, of a release; trims and repairs |

`PacketArena_proofs`, `ShareFriends_proofs`, `ShareClips_proofs`, `Recorder_proofs`,
`InplaceUpdate_proofs`, `Library_proofs`, `Playback_proofs` and `TrimJournal_proofs` hold the theorems about the module they
are named for (`Recorder` includes `EngineClient`, `Library` its three parts, `Playback` `UiProcess`).
Two of them extend a second component, whose state and specification stand beside the first's and have names of
their own: `ShareClips_proofs` extends `ShareStreams` (`StreamsSpec`), `Playback_proofs` extends `MixJournal` (`MixSpec`).
`MC_*` modules give constants for TLC. Every definition that models code is in the map of `PROJECT.json` with its lines.

**How the models abstract.** Control is kept: each guard, early return, error path and the
order of the steps. Data is not:

- *PacketArena.* A cell is a run of bytes and a packet a number; the coalesced free map is the
  set of free cells, its entries the maximal runs in it. Place and installation of a fresh lease
  in its entry are one step: in between only the worker that wrote it has the lease. A store's worker copies one chunk of one
  packet at a time; the workers of the stores run at the same time. One save at a time, as the engine handles requests one by one. `SealFails` stands for every file that
  cannot be written any more.
- *EngineClient, Recorder.* A configuration is "A" or "B". A caller has one request at a time;
  of several saves or settings changes one is followed at a time, and each engine's own restorer is
  a caller too. Timeouts and the restart delay are steps that may come at any time they are
  armed. Hotkeys, displays and diagnostics leave no state and are left out.
- *ShareFriends.* No names, nicknames, list caps or timestamps; a hidden node is an offline
  one; the immediate retry in `send_goodbye` is one more step of the same request. Requests
  that are equal in every field are one element of the set, which is sound for handlers that
  do the same thing twice. `MaxFlight` bounds requests somebody waits for, not the orphans.
- *ShareClips.* The bytes of a clip are its version and a chunk's number; a hash is what it was
  taken of. Friendship and presence are `ShareFriends`'. Each offer or answer of a delivery pass is
  a request of its own.
- *ShareStreams.* A block's bytes are its number; one session; priorities are kept, bandwidth
  is not. A reader that waits looks again whenever it likes: the quarter of a second between (`WAIT_RENEW`) is not modelled.
- *InplaceUpdate.* A file is absent, old or new; one new version; verification succeeds if the
  bytes are there. One launching process or supervisor at a time, besides a running
  controller; waiting for the parent to exit is collapsed into the step that follows.
- *TrimJournal.* A cell is a sample; the media header and the index take one cell each. A
  flush is merged with the write that follows it, which is sound because a stop between the
  two is a stop after the flush. A deletion of a journal is durable at once. What is not flushed
  reaches the disk cell by cell, in any combination, and a progress slot may be torn.
- *MixJournal.* A cell is a packet, the index takes one; packets have one size, so what differs is
  how many there are: fewer, as many, or one more than there are slots. A trim is one step here,
  which is what mixing sees of it: they exclude each other by the clip's handle.
- *ClipLibrary, Thumbnails, SettingsStore.* A file is a clip, how often it was rewritten,
  whether its layout was repaired and whether it is a copy that a repair put over a later one; trims and mixes are one step here and many in their own modules.
  A listing looks for all files in one step, outside the lock. The layout check and FFmpeg's work are one step each, may fail, and go on by themselves once they were asked for. A token is its path and
  signature. Each imported folder has one video.
- *UiProcess, Playback.* Windows and calls are numbered. A pipe delivers what was written before its
  end; what a process had only queued is lost with it. Event hints and the focus of a visible
  window are left out.
  A page waits for its reply until its own timeout; its limit of 24 requests under way is left out, and
  the runs stay below it. What is read of a file is the version it is read in, its stamp (length and time) the version
  that last set it. A trim or mix has the clip to itself while it writes. A repair replaces the file and gives it the
  old time in one step, so that it may look unchanged. Left out: the media admission limits, the
  key frame times of a descriptor, and the player's retries while a clip is busy.

Deadlock is not checked in any run: every model stops when its bounds are used up, and
`InplaceUpdate` also where no executable is left (section 5).

## 3. The runs

| Run | Question | Answer |
| --- | --- | --- |
| `arena` | Can any interleaving of capture, spill, expiry, reconfiguration, backfill, a save and a failing write let leases overlap (`NoOverlap`), lose room (`NothingLeaks`), corrupt a lease (`LeaseReadable`) or a finished clip (`ClipIntact`), leave a padding slot the seal knew of unzeroed (`PaddingZeroed`) or bring footage back (`DroppedStaysDropped`)? | no |
| `recorder` | Do restarts, watchdogs and callers ever leave two engines (`OneEngine`), a shutdown one (`ShutdownIsComplete`), a caller waiting for an engine whose end was handled (`NoOrphanedRequest`), or an installation a save half done (`InstallSparesSaves`)? Does recording resume (`RecordingResumes`), does a shutdown end (`ShutdownEnds`)? | no; yes |
| `friends` | Can anybody become a friend without both users having asked (`Consent`), or come back after having been declined (`DeclinedStayOut`)? Does a removal reach the other side in the end (`RemovalSettles`)? | no; yes |
| `share_clips` | Is a clip added to the library the one that was offered (`SavedIsWhatWasOffered`), and what the sender is shown of the friend true (`SenderIsNotMisled`), whatever is edited, lost, cancelled or stopped? | yes |
| `share_streams` | Do two requests ever ask for one block (`NothingFetchedTwice`)? Does every read end (`ReadersServed`)? | no; yes |
| `update` | Are old bytes safe until the commit (`OldBytesSurvive`)? Does it implement `AtomicUpdate` (`KeepsItsPromise`)? Do activations and cleanups end (`ActivationEnds`, `CommittedIsCleaned`)? | yes |
| `trim` | Does every kept sample survive (`KeptSamplesSurvive`), is no clip broken without a journal that repairs it (`BrokenIsJournaled`), does an interrupted trim finish (`InterruptedFinish`)? | yes, if flushes work and trims do not pile up |
| `mix` | Does a clip with no committed journal play (`ClipPlays`), without old audio in it (`OldAudioIsGone`), and does an interrupted mix finish (`InterruptedMixFinishes`)? | yes, likewise |
| `mix_trimmed` | Does applying a journal always yield the finished mix (`RedoYieldsTheMix`)? | no: section 5 |
| `library` | Does a save, listing, trim, mix, rename or repair that fails or is cut off lose the footage of its clip (`FootageSurvives`: of every clip that was neither deleted nor had its file taken by another one's rename or repair)? Does a rename replace the file of a listed clip (`RenamesSpareTheListed`)? Is a picture made twice at once (`OneMaker`) or older than its URL (`NeverOutdated`)? Is every request answered (`RequestsAnswered`) and every folder in the settings one that was picked (`FoldersWerePicked`)? | no; yes |
| `library_renamed` | Does a rename touch only the file of its own clip (`RenamesTouchTheirOwn`)? | no: section 5 |
| `window` | Do two window processes ever run (`OneWindowProcess`), does a media session outlive its window (`SessionsEndWithTheirWindow`)? Is a request ever served by an index of another file than it finds (`ViewsAreCurrent`, but for a repair that left that with the length and the time of the old one)? Is a window asked for while another ends opened (`ReopenHonoured`)? | no; yes |

`PROJECT.json` also lists, for every property of a passing run, a mutation of the model the
way a plausible bug would change the code (a free hole one cell short, a commit without its flush,
a request kept when its engine ends, a greeting that skips the check) that TLC finds to
break the property under the same bounds. So each of them can fail, and the bounds reach the
place where it would.

**Bounds and why they are enough.**

- `arena`: three packets of one or two cells on two tracks, two arenas of which one
  can be detached, a size cap of three cells (so that room is reused from the second packet on), two
  saves, one failure; 2.7 million states. A lease that is reused, split and coalesced, a
  window that spans a detached and an active file, a save that fails after it detached and
  is followed by another, and the backfills of both stores racing with it all occur. More packets and
  arenas are what the proofs are for.
- `recorder`: two generations, since every race is between one engine and the next; two troubles,
  so that an engine fails while the last one's end is handled; one save or settings change, one
  installation, each of which may be at any step then, and the exit at any time.
- `friends`: two peers, since what one list says of a peer depends on no third; three user
  actions (add, accept, remove, or two rounds of one of them), one stop or lost request, which may still
  be handled long after. One request in flight per direction: here a user's click waits for the
  reply to the one before; the proofs of `Consent` and `DeclinedStayOut` do without that bound.
- `share_clips`: one clip of two chunks, so that an edit falls between them; two shares, so that
  an id is not taken for another; two requests under way, the least that can arrive out of order; two
  downloads, so that a cancelled one meets the next; four user actions (share, accept, save,
  remove), one failure.
- `share_streams`: four blocks, the index last and an order that is not the file's; two runways and two
  readers, so that one passes, meets and waits for the other; 104,881 states.
- `update`: an executable, another replaced file and an added one, so that every branch
  on `replaces_existing` is taken and there is always a file before, at and after the
  interruption; two attempts, so that "once more" and "exhausted" differ; four stops or
  failures; 38,800 states.
- `trim`: four samples in blocks of two, so that runs take one or two blocks, the last one shorter,
  and both kinds (self-overlapping or not) occur; two trims, one fault and one power loss; 274,000
  states. It also holds for five samples, and its safety for two faults.
- `mix`: four packets, two of them audio, so that slots lie apart, are overrun and are left over;
  two mixes, so that one is planned over what another left; one trim, one failure, one power loss.
  `mix_trimmed` needs one mix and two failures.
- `library`: one clip of an earlier run and one that is saved, two names (one to be renamed to and to
  be taken by the other clip), two threads each for clips and settings, two requests for pictures,
  one folder, one failure, and three uses: a layout check, a trim and a picture's URL are the fewest
  after which a repair can put an older copy over what is shown; 1.1 million states. `library_renamed`
  has two uses and no failure: its counterexample is made of commands that succeed.
- `window`: two windows, so that one opens while the last one ends; two calls (two opens, an open and
  a trim, a release or a close), room for one session, so that it is evicted; one media request; two
  user actions or repairs beside what the page asks for on its own; one crash, delay or time-out; and a clip that is changed twice
  (trimmed, then repaired, or the other way round); 1.4 million states. It also holds for three windows, four clicks and one call.

**Fairness.**

- `ShareFriends.FairSpec`: each node comes back, its tasks and its heartbeat run, and every
  request its sender waits for is handled or fails and its reply is taken: each is a task of
  its own runtime with a timeout around it. Nothing is assumed of users, and nothing
  of requests whose sender has gone.
- `Recorder.FairSpec`: callers, restorers, watchdogs and the engine's loop are threads or tasks
  with a timeout around what they wait for; a process that was told to end, ends, and a write
  blocked on it fails then. Crashes, hangs and the user's wishes come as they may.
- `ShareStreams.FairSpec`: a reader looks again and takes what has arrived, a runway's task runs, and a
  request of it answers or expires.
- `InplaceUpdate.FairSpec`: Clipture is launched again and again (autostart, the user), and
  a process that began goes on. Failures, stops and quitting are bounded, never fair.
- `TrimJournal.FairSpec`, `MixJournal.FairSpec`: what was begun goes on; Clipture stops and is started
  again now and then (weak fairness of `Quit`), because only a start, or the next trim or mix,
  retries a journal that failed.
- `Library.FairSpec`: each request for a picture is served by a thread of its own.
- `Playback.FairSpec`: the controller's threads and timers go on, and so does a window process that
  starts or was told to close, if only because the close timer ends it. A slow start that the startup
  timer cuts off is one of the bounded troubles.

## 4. The proofs

Every theorem below holds for every value of the constants that the module's `ASSUME` admits: any number
of packets, arenas, peers, files, windows, clips, shares, engines, threads and requests, and any number of
uses, failures and stops. The assumptions say no more than that bounds are numbers and that the constants
have the right kind (lengths are positive, a cap fits its file, the executable is a file of the
installation that an update replaces, `None` is none of the things it stands beside). Each
`Invariance` is `Spec => []IInv`; each `IInv` was checked by TLC under the bounds of the module's run before
it was proved.

| Theorem | Establishes |
| --- | --- |
| `PacketArena_proofs!Invariance`, `TypeCorrect` | the inductive invariant of the archive, `TypeOK` (the size cap included) |
| `NoOverlapAlways`, `LeasesReadable`, `ClipsIntact` | `NoOverlap`, `LeaseReadable`, `ClipIntact` |
| `NoRoomIsLost`, `DroppedForGood`, `PaddingIsZeroed` | `NothingLeaks`, `DroppedStaysDropped` (an action property), `PaddingZeroed` |
| `ShareFriends_proofs!Invariance`, `TypeCorrect` | the inductive invariant of the two-sided list, `TypeOK` |
| `ConsentAlways`, `DeclinedAlways` | `Consent`, `DeclinedStayOut` |
| `Recorder_proofs!Invariance` | the inductive invariant of the engine, its client and those who use it |
| `OneEngineAlways`, `ShutdownAlwaysComplete`, `NobodyIsOrphaned`, `SavesAreSpared` | `OneEngine`, `ShutdownIsComplete`, `NoOrphanedRequest`, `InstallSparesSaves` |
| `InplaceUpdate_proofs!Invariance`, `OldBytesAlwaysSurvive` | the inductive invariant of an update, `OldBytesSurvive` |
| `PromiseKept` | `KeepsItsPromise`: every step of `InplaceUpdate` is a step of `AtomicUpdate` or stutters |
| `Library_proofs!Invariance` | the inductive invariant of clips, pictures and settings |
| `NoFootageLost` | `FootageSurvives`: footage that was not deleted, nor its file taken by another clip's rename or repair |
| `ListedClipsAreSpared` | `RenamesSpareTheListed` (an action property) |
| `OneMakerAPicture`, `NoOutdatedPicture`, `OnlyPickedFolders` | `OneMaker`, `NeverOutdated`, `FoldersWerePicked` |
| `Playback_proofs!Invariance` | the inductive invariant of windows, calls, stamps, views and sessions |
| `OneWindowAtATime`, `NoSessionOutlivesItsWindow`, `NoStaleView` | `OneWindowProcess`, `SessionsEndWithTheirWindow`, `ViewsAreCurrent` |
| `Playback_proofs!MixedClipPlays`, `NoOldAudio` | `ClipPlays`, `OldAudioIsGone` of `MixJournal` |
| `Playback_proofs!RedoYieldsTheMixInOrder` | what is left of `RedoYieldsTheMix` (section 5): in orderly histories the step that removes a journal leaves a clip that plays |
| `ShareClips_proofs!Invariance` | the inductive invariant of a shared clip on both sides |
| `SenderAlwaysToldTheTruth`, `LibraryHoldsWhatWasOffered` | `SenderIsNotMisled`, `SavedIsWhatWasOffered` |
| `ShareClips_proofs!NothingAskedForTwice` | `NothingFetchedTwice` of `ShareStreams` |
| `TrimJournal_proofs!Invariance` | the inductive invariant of a trim, its journal and its recovery |
| `NoClipLeftBroken`, `NoSampleLost` | `BrokenIsJournaled`, `KeptSamplesSurvive` |

*The archive.* That clips are intact is not inductive. A placed sample must
survive until the clip is finalized, so `SaveOwns` says that the file a save works on
has left the archive (`save.arena # active`: nobody else writes to it), that the slots it zeroes were free when
it froze the file and stay so, and that the index built so far reads back. Leases survive because `LeasesOK`
takes soundness (inside the arena, off the free map, reading its packet) together with
`Apart`, and because a write goes to cells that are free (`PlaceFree`) or past the
end. All actions are instances of four schemes: a write (`WriteSound`), references that
are dropped and whose cells return to the map (`DropSound`), a change of the save's
file (`FileSteps`), and steps that touch no space at all (`QuietSteps`, `RecordSteps`). Each scheme
is one lemma; the step lemmas only show that an action fits one of them.
Three more invariants stand on this one. `Complete` is the other half of soundness: a cell that is not free has an owner,
which needs that an idle save pins nothing. `Copies` says that a moved lease is of
a packet whose entry is still there, so that dropped footage cannot come back with it. `Blanked` follows the
sealing: slots already taken off the list are zero, the rest of the padding is still on it. Its lemma on the slots
that cover a free run needs a least free cell, which is had without induction over data: strict
inclusion is well-founded on finite sets (`FS_StrictSubsetOrderingWellFounded`).

*Friends.* `Consent` speaks of two lists and a history, and messages
stand in between. `Requested` therefore follows a wish from the click to the other list: an
outgoing entry, an undelivered flag and a hello under way all belong to a user who
asked, and an incoming entry to somebody who did. `DeclinedStayOut` is inductive together
with the type: of the actions that may write a list, only the user's own lifts a block.

*The engine and its users.* The client knows its engine twice, as the process requests go to and as the one
that lives, and between the two critical sections of an engine's end the two differ. `Controller`
says how: what lives is what requests go to, a raised `start_guard` means nothing lives, and a
watchdog in its grace period has had its engine killed. No request is orphaned because a
waiting one names an engine that is current or whose end is still to be handled (`AnswerableKept`
is the scheme nearly all actions fit). A save and an installation exclude each other because each
step of either has the lease (`Gated`).

*An update.* Whether old bytes are safe depends on the journal's phase: while an update is activated each file alone can be put
back (`Undoable`), before and after it all of them are one version (`Versions`). `Booting` adds what the loop
over the files has done: files no longer on the list are new (swapping) or old again (undoing), files
on it are untouched. That the loop ends with every file done needs that a file that is left is
found, i.e. that a finite set of numbers has a least and a greatest element (`Extremes`). The refinement
maps the version kept and what runs; of the steps, only those that write the journal or start a process change either.

*The library.* Footage is in the engine's files or in a published file until a deletion, or a rename or repair of another clip,
takes the file (`Gone`); what a save holds between publishing and cleaning up is there already or gone (`Footage`).
That the two overwrites happen is not for the theorem to say: the run `library_renamed` does, and section 5.
What a rename may replace is bounded by `Renaming`: a clip that is being saved is in no list, stored, loaded or kept (`Saves`), and
who renames has the lock (`Locks`), so that nothing can be listed at the name that was found free until the file is there (`Spared`). `NeverOutdated` compares a picture
with its URL, so everything on the way from one to the other carries an order: a clip is published once and unseen before
(`Publishing`), what a request will read is no older than its key unless stale, and so is every cached
picture (`Pictures`). The key a maker works on is in `making` until it is done (`Makers`). Settings in
memory, on disk and in each thread's hands name only picked folders (`Folder`); what
was picked only grows, so what was read long ago still does.

*Windows and playback.* A window's process exists only while the slot names its session, and the reader of a window gets past its stop
only once the process has ended (`WindowOK`), which is why sessions that the reader ends cannot outlive
it. For views the argument is that stamp and index come from one open file, and that every change but a repair sets
a stamp later than any noted before (`FileOK`): an index whose stamp is still the file's was read in the file that is there, or before
the one repair that kept the stamp (`Kept`), after which the clip is in playing order and nothing is indexed any more. Patches have no stamp,
so nothing of the kind holds of them (section 5).

*Shared clips.* What the sender is shown is a claim about the other machine, carried by messages that may be old. `Backed` says what each
answer must rest on, wherever it is: owed, under way, stored. What is said stays said and a kept clip
stays kept, so an old answer is still backed. For the contents, `Places` gives each file to the
share whose task created it, and `Alone` says that (unless a cancelled download went on, section 5) one task
writes it and knows what it wrote; a chunk that is taken over was hashed or is requested again.

*Trims.* The proof has two halves. The first is about plans alone: a kept sample moves to its place
among the kept (`Dst`), places are all different and none is left out (`DstOneToOne`, `DstOnto`), and
the samples of a plan that have to move lie in blocks that do not share a sample (`BlocksCover`,
`BlocksApart`), each of which moves down (`BlockGoesDown`). These are facts on cardinalities and on
multiples of the block length. The second is the invariant: `Kept`, that what a committed journal plans
can be had (`Recoverable`), must hold of the journal as read and as flushed and of the clip as read and
as flushed, all four, because a stop leaves any mixture: of the clip cell by cell (`Mixture`: the same
journal looks for a sample in the same cell of both), of the journal the record before it when a slot is
torn (`TornFacts`, which needs that slots alternate, `Placed`). A sample that is moved lands where no
sample is still to be had from (`Landing`): this is where blocks that land on themselves must be staged.
Without a committed journal both clips are one and play (`Settled`); that the end of a trim gets there
is `TrimmedPlays`, that a new plan may start there is `PlanFits`. All of it is stated, as the properties
are, for histories in which trims do not overlap and flushes of the journal work (`Orderly`, section 5);
`Types` and `Named` hold of all.

*Mixes.* A mix never moves what it keeps, so its plan can be judged against any clip: `Complete` says that
what a plan writes is what its index lists there, and no audio elsewhere; `Fits` says the same of the cells of a clip that
the plan does not write. `Fits` does not care how much of the plan
is written already, so it survives every prefix of the application, every loss of unflushed cells
(`MixtureFits`) and every repetition; a clip that a complete plan fits plays once the plan is applied
(`WholeSound`), and `PlanFits` gives both when the plan is made, from the index that was read. That old audio has no slot left over rests
on the numbering of slots: the first n packets take distinct slots, and every slot gets a number (`PlacesGrow`,
`PlacesOnto`, by cardinalities of initial segments). The invariant `MixInv` holds in all histories for the
types; for orderly ones it adds that only the last mix can be unfinished (`MixAlone`), that without a
committed journal the clip is on disk and sound, and that every plan that may still be applied is complete and
fits the clip as read and as flushed (`MixKept`).

*Watching.* `NothingFetchedTwice` counts the runways whose request is under way for a block. `StreamInv` says why there
is one at most: the claims of two runways, from the next block each expects to the end of what it asked
for, have no block in common (`ClaimsApart`), what is under way is not empty (`UnderWay`) and ends within the clip
(`WithinClip`). A plan ends before the first block another runway claims (`WantedHere`, `Fetches`), a delivery only shortens a claim, and a
runway that starts claims nothing yet, one that ends nothing any more, and one whose request fails no more than it did. That there is a first
block missing and a last end a request may have comes from `FS_StrictSubsetOrderingWellFounded` again.

`MixInv` and `StreamInv`, too, were checked by TLC under the bounds of `mix` and `share_streams`.

*Model-checked only.* Liveness (`RemovalSettles`, `ActivationEnds`, `CommittedIsCleaned`, `InterruptedFinish`,
`InterruptedMixFinishes`, `RecordingResumes`, `ShutdownEnds`, `ReadersServed`, `RequestsAnswered`,
`ReopenHonoured`) depends on fairness and ENABLED, which TLAPS does not reason about.

## 5. Where the code departs from what it says

- **A mix whose clip is trimmed before it is finished.** `journal.rs` and ADR 0014 say that applying a
  committed journal again always yields the mix. When a write fails, `mix()` closes the clip before
  `finish_journal` opens it again, and a trim that waited for the clip gets in between; or the
  second attempt fails too and the trim comes before the next launch. Trims and mixes have a lock and
  journals each, so the old plan is then written over the shorter clip, which no longer plays. The run
  `mix_trimmed` shows it; the properties of `mix` are stated for histories without it (`Orderly`).

- **A rename that replaces a clip.** `rename_saved` looks for a free name and then moves the file there, over what has
  been published under the name since: a save takes no part in the repository's lock. The new clip is lost, although
  nobody deleted it (`library_renamed`). `FootageSurvives` is about the other ways to lose footage, and
  `RenamesSpareTheListed` says that a clip is out of a rename's way once it is listed.

The following were met while modelling. They are part of the models, so the properties
of the passing runs are worded around them; none has a run of its own.

- *A repair that replaces what it did not read.* The copy is verified against the layout read minutes before and moved to
  the path, whatever is there by then (layout_repair.rs:159): a trim made meanwhile is undone, and another clip that was saved or renamed there
  is lost. A URL made in between names a file that shows more than the picture it gets. `FootageSurvives` and
  `RenamesSpareTheListed` exempt the first (`overwritten`, `stale`), `NeverOutdated` the second (`stale`).
- *A listing that forgets a clip.* `list_saved` writes back the records it loaded by an earlier use of the lock (service.rs:30-39): a clip that was
  recorded or renamed in between is in no list any more, its file stays.
- *A view made of two versions.* `open_playback` reads the edit-list patches before the stamp (playback.rs:122, linear_view.rs:80); a trim between the two
  gives a view with the patches of one version in the index of the next, and `is_current` finds nothing wrong.
  `ViewsAreCurrent` is about the index.
- *A repair that looks like no change.* `repair_clip` restores the time of the file it replaces (layout_repair.rs:170-173), so that only the length tells them apart;
  a copy of the same length passes `is_current`, and the old view is served from the new file. `ViewsAreCurrent` exempts
  that version (`disguised`).
- *A release that ends the next clip.* The page waits for its last release only, and only until its own timeout, while the controller
  runs its calls at the same time: an earlier release may land after the open and leave the player black,
  which is what ClipPlayer.tsx:19-21 means to prevent.
- *A packet that expires while a file is being sealed*: the free map is copied under the lock,
  the zeroing follows without it, and the lease that dies in between leaves its footage
  as padding of the clip. `PaddingZeroed` is about the slots that were free at the copy.
- *An acceptance that could not be delivered* waits for the friend to be seen online, but
  neither side announces itself to the other: one list does not yet say "accepted", and the other
  side is never contacted by the heartbeat.
- *Two people who add each other* can end with a one-sided friendship: the reply to the first
  hello clears the flag that was to send the second.
- *An answer about a shared clip* is dropped for good on any error while presence says the friend is
  online, so an outage shorter than that window loses it. `SenderIsNotMisled` says that what arrived is true, not
  that everything arrives.
- *A download cancelled while it starts* goes on if its abort handle is not stored yet, and may write the
  partial file that the next attempt writes too. `SavedIsWhatWasOffered` excludes it (`raced`).
- *A stream closed while a read waits*: the read starts runways of its own, which nobody aborts.
- *A second launch while the first one stages an update* empties the work directory before
  the single-instance check ends it.
- *A power loss between the two renames of clipture.exe* leaves nothing to launch, and with it
  no recovery; `ActivationEnds` allows that state.
- *A trim whose recovery fails again* does not keep the next trim from planning on the half-moved
  clip; and after a failed flush of a journal, the retry in the same process trusts a slot that may be
  only in the cache. The trims' properties are stated for histories without the two (`Orderly`).

## 6. What is not modelled

- Capture, encoders, GPU hand-off, audio clocks: driven by device APIs whose behaviour is the
  difficulty; what they deliver is one packet after another.
- The store's counters, legacy spill segments and keyframe-aligned trimming; the engine's
  window bookkeeping; segment stitching; the encoding of MP4 boxes.
- Of sharing: list caps, copies made by builds before 1.6.5, several streaming sessions and which of
  them makes room, time-to-live.
- Of updates: downloads, signatures, consolidation of the retired runtime store, migration of old
  installations, two launches that recover at the same moment, a UI process started from a staged
  controller.
- Of the library: trash and folder views, titles, sorting, two import folders with equal names.
- Of playback: admission limits of media requests, mixed audio and waveforms.
- Of the window: the page's limit of 24 requests, event hints, focus.
- Notifications, tray, hotkeys, sounds, the React interface but for its player, vendored and retired
  code (the Electron main process under src/src/main).

## 7. The plan

In order of what a mistake would cost. Done: models and runs of all the modules above; proofs of the archive, the friends
lists, the engine and its users, updates (with the refinement), the library, windows and playback, shared clips and
their streams, trims and mixes: every safety property a passing run checks is a theorem. Left:

1. `ReplayStore`: entries, worker windows, counters and the window consumed by a save; it
   refines what `PacketArena` takes for granted of its entries.
2. Media admission, several streaming sessions, and the launches that recover at once.

# A formal model of omodachi-core

omodachi-core is the host daemon of Omodachi: it lets an iPad, a phone or a browser
take over an Omarchy/Hyprland desktop, talk to the agents running on it, and be
told what happens there. This directory holds TLA+ models of its core logic,
the TLC configurations that check them on small instances, and proofs that
TLAPS checks for every instance. Paths below are relative to `src/`; `core/`
stands for `src/omodachi_core/`.

Contents: 1 inventory, 2 modules and plan, 3 remote session, 4 event stream,
5 devices and credentials, 6 the default agent, 7 what is kept and shared,
8 desk and host, 9 where the code and its documentation part, 10 not modelled.

## 1. Inventory

For each part: what it keeps, what it does, what is hard about it, and what makes
it correct. The daemon is one asyncio loop, beside which worker threads, watcher
threads and a local command socket run; its stores are files, each with a lock.

**Remote session** (`core/remote/session.py`, `journal.py`, the lifecycle part of
`service.py`). Keeps the one session, the record of what it changed on the host, a
journal of that record per session, one slot of unfinished restore steps, and the drafts
that were typed. Operations: create, resize, switch backend, heartbeat, release, recover,
a watchdog, and the text a phone sends. Hard: a crash between any two host calls; a step that fails after having
had its effect; a restore that fails itself; a retry under the next session. Correct
when whatever stands on the host is named by a journal that can undo it, "released"
means given back, and a silent session ends.

**Streaming backends** (`core/remote/backends.py`, `sunshine.py`, `vnc.py`). The
lease of the Sunshine fork and the VNC server. Correct when the lease held is the one
the session names.

**Event hub and its sockets** (`core/hub.py`, the events handlers of `network.py`,
the client in `odomo/src/lib/events.js`). Keeps a state document, a bounded history of
numbered events, and a bounded queue per subscriber. Hard: the gap between the
snapshot and subscribing, an overflow, a restart that makes a cursor meaningless, a
device revoked in the middle. Correct when a client that is up has exactly the state
of its cursor.

**Credentials, pairing, SSH** (`core/auth.py`, `pairing.py`, `ssh_keys.py`, the device
lifecycle of `service.py`). Keeps requests, credentials and their days, and the block
of `authorized_keys` of the devices. Hard: a revocation racing a renewal, a claim or a
second pairing on three threads and five stores; a reply that is lost. Correct when a
revoked device keeps nothing and a device that keeps to its days is never stranded.

**Media pairing** (`core/media_pairing.py`). A phone's certificate in the Sunshine
fork: request, approval, PIN, proof, binding, revocation, over an IPC whose answers may
be lost. Correct when a PIN is sent once and nothing the fork trusts is forgotten.

**Fingerprint approvals** (`core/biometric.py`, `pam_helper.py`, `pam_enroll.py`). A
password prompt answered by a signature of a device. Hard: keys that change, a revoke
on another thread, two answers at once. Correct when nothing is granted but by the key
root trusts for a live device, once.

**Default agent** (`core/agent_chat_provider.py`, `agent_chat_owner.py`,
`agent_chat_service.py`, `agent_handoff.py`, `agent_lifecycle.py`). Messages, turns and
approvals of one codex thread, and which thread that is. Hard: a reply that is applied
after what lay behind it, a lost reply, a restart between asking and recording, a
handoff beside other operations. Correct when a message starts one turn at most and the
thread of record is the one written to.

**Herdr bridge** (`core/herdr_bridge.py`, `herdr_events.py`, `herdr_reply.py`). The
layout of a session, followed by a poll and an event thread; control streams, views
and typed text on a pane. Correct when a move is read, one stream holds a pane, and
Enter submits only what was seen to arrive.

**Push, notifications, overview, seen** (`core/push.py`, `notifications.py`, `seen.py`,
`overview.py`). What a phone is told while its browser is closed, the mirror of the
desktop's toasts, the list of what needs the person. Hard: windows, digests and holds
read again when their time comes; four threads that publish what they read before.

**Microphone** (`core/audio_uplink.py`, `audio_virtual_input.py`, `voice*.py`). One
virtual microphone, two owners, and a dictation that edits a user's file. Correct when
one is loaded at a time and the file is whole or its copy is.

**Clipboard, uploads, attachments, preferences** (`core/clipboard.py`, `uploads.py`,
`preferences.py`). Correct when the last text is announced and an own write is not
news; when a broken upload leaves nothing and a saved one stays; when no file of a
message is dropped; when one client's preference never undoes another's.

**Menu, conditions, workspaces** (`core/service.py`, `conditions.py`,
`catalog_runtime.py`, `menu_actions.py`, `shortcut_provider.py`, `graphical.py`,
`workspace_layout.py`). Rows read from the person's files and conditions, commands run
for a device, a layout file exchanged with the compositor's. Hard: what is shown was
read earlier; the person moves meanwhile; a request is sent again. Correct when a
command runs once, as confirmed, with the text of its source, and nobody's file is lost.

**Installation** (`scripts/install_host.py`, `core/pam_install.py`, `odomo_serve.py`,
`sunshine_package.py`, and the socket of `core/ipc.py`). What core puts on a host that
is also a person's: trees, units, grants, PAM lines, a Tailscale mapping. Hard: a kill
between two steps, a person or a package update in the same file. Correct when a
person's file, work, mapping and Sunshine stay, and a removal leaves nothing that needs
what it removed.

**The rest** (parsing of menus and keybindings, icons, fonts, theme, bar geometry,
network discovery, launches, command line) is projection or one-shot commands
(section 10).

## 2. Modules and plan

| Run | Module checked | Composed of | Proofs |
|---|---|---|---|
| `remote_session`, `_live`, `_stuck` | `MCRemoteSession` | `RemoteSession` implements `BorrowedHost` | `RemoteSessionProofs`, `RemoteSessionJournal` |
| `event_stream`, `_live`, `_unpaired` | `MCEventStream` | `EventStream` (hub, handler, page) implements `MirroredState` | `EventStreamProofs` |
| `devices`, `_two`, `_live` | `MCDevices` | `Devices` (five stores and their locks) | `DevicesProofs`, `DevicesRevoked` |
| `agent` | `MCAgent` | `AgentChat`, `AgentThread`, `PushDelivery`, `Overview`, `AgentPrompts` | `AgentProofs` |
| `stores` | `MCStores` | `Credentials`, `MediaPairing`, `HerdrWatch`, `HerdrPanes`, `Notices`, `Clipboard`, `Uploads`, `Attachments`, `Preferences`, `RemoteText` | `StoresProofs` |
| `host` | `MCHost` | `Approvals`, `Microphone`, `Conditions`, `Invocations`, `WorkspaceLayout`, `WorkspaceProbe`, `InstalledTrees`, `HostFiles`, `PamStack`, `ServeMapping`, `SunshineUnit`, `LocalSocket` | `HostProofs` |

The last three runs each check several modules that share no state: a behaviour is of
one part, named by the variable `part`, whose variables are the first of the slots
`x1`, `x2`, ...; the remaining slots are `Blank`. Nothing is interleaved between parts
and nothing is lost by it, and each part keeps a symmetry and bounds of its own. A
property of such a run is the conjunction of the invariants of its parts, defined and
explained in their modules. A proof about one of these runs rests on `part` staying what
it is: the claim is "if `part` names this one, its invariant holds", each step of the named
part has a lemma, and a step of any other leaves the claim alone. A
definition marked *Slip* is the form the definition after it would take with a plausible
mistake; TLC finds a property violated with any one of them put in its place.

Left for later, in this order: the rows and history of the agent's chat; the IPC variant of the
event stream; the composition of `Devices` with `EventStream` (that a revoke reaches the
subscribers is an assumption of the one and an action of the other).

## 3. The remote session

### What is modelled

`RemoteSession` is `RemoteManager`. Every call into it runs under the one lock of
`RemoteService._job`, on one thread, so there is at most one job in hand; the
variable `op` is where it stands, and its actions (`Job`) are its steps at the grain
of one host mutation or one journal write, since that is where a crash can cut it.
Between them come heartbeats (which do not take the lock), the passing of the ttl
(`Lapse`), reloads of the host, and a crash.

| Variables | Code |
|---|---|
| `sid state mode backend beat misses` | `self.session`, `_reconfigure_failures` |
| `record` | `self._record`, as the set of things it names (`marks`), its backend and `failed_steps` |
| `disk` | the files `OMODACHI-*.json`, by the session they are called after |
| `unfinished` | `self._unfinished`: a record, the steps left, the tries so far |
| `standing` | ghost of the host: pairs of a session and a thing it put there |
| `op req todo errs rrec cont files` | the call in hand: its position, request, steps left, errors, the record `restore()` works from, its caller |
| `watching` | the watchdog task is alive |
| `dropped` | history: the sessions whose leftovers the code let go of |

A *thing* is what a step of `restore()` puts back: the output, the re-packed physical
screens, the moved workspaces, a dark screen, the idle cycle, the bar, the lease of
either backend. Taking one is two actions where the code writes the journal first:
`TakeMark` (record and file name it) and `TakeAct` (the host does it); the dark
screen has a third, `Confirm`, because its method is journaled after the call. A host
call may fail with or without its effect. `restore()` is one `RestoreStep` per thing
the record names, in the order of the code, each of which may fail on its own; what
its end does depends on who called it (`RestoreDone`, `ReapplyDone`, `RetryDone`,
`RecoveredOne`). A crash forgets all variables but `disk` and the host, and the next
daemon begins with `recover()`.

Abstracted: monitor geometry, profiles, names, viewport and corner data; the once per
session of the shell's repair; the adoption of a changed baseline (folded into
`Reconcile`, it changes values and not what is named); time (the ttl is `Lapse`,
RETRY_GIVE_UP is a number of failed tries). Not modelled: a journal file that does not
parse, and an `_advance("ready")` that fails inside the handling of a missed rebuild.

### Properties

* `TypeOK`, the type invariant.
* `JournalCovers`: at every instant, whatever stands on the host is named by a journal
  file whose `restore()` would run the step that puts it back.
* `RetryCovers`: the steps kept for the background are enough for what is left.
* `ReleasedMeansRestored`: "released" is said only of a session with nothing left.
* `LeaseMatches`: a ready session holds exactly the lease of the backend it names.
* `BorrowsUnderNotes`: the module implements `BorrowedHost` (a thing is noted before
  it is borrowed, and the note goes only when all of it is back), with the refinement
  mapping `lent <- Lent, noted <- Named`.
* Liveness: `SilentSessionEnds`, `RetryEnds`, `GivenBack`, `DeskHeld`.

`GivenBack` says that what a session that is over left on the host goes, also when a step
of its restore fails, and a retry after that. It is not true without exception: three
statements of the code let leftovers go, and `dropped` records exactly these, until a
release, a recovery or a start takes the session up again. `_reapply` discards the errors of
the restore that follows a failed resize (786); a retry is given up after RETRY_GIVE_UP (1132);
and the steps that one session could not finish replace those of another in the only slot
(1103). Two of them show in section 9.

"Firm" things exclude three: a screen between darkening and the write of its method,
the bar (whose helper swallows its failures), and a lease that `stop()` claimed again.
The journal does not answer for these; section 9 says where that contradicts the
documentation.

### Runs

| Run | Instance | Shows |
|---|---|---|
| `remote_session` | 2 sessions, 2 faults (host, disk, read), 1 crash | the safety properties and the refinement |
| `remote_session_live` | 1 session, 2 host faults, 1 crash, 1 reload, retries given up after one | the liveness properties under `FairSpec` |
| `remote_session_stuck` | 1 read fault | a create that failed early is never expired (finding) |

Bounds. Two sessions are enough for one session's leftovers to meet the next, and
symmetric; ids are drawn once each. Two faults are what it takes for an operation to
fail and then its restore too, or for two tries of a retry; one crash anywhere, as
recovery after a second crash starts from the same kind of state, a disk and a host.
The proofs have no such bound. In the live run two
faults and a limit of one try let an operation and its restore both fail, and a retry be given
up or succeed; its one desk use is the dark screen, the one with three steps. One session never
has its retry replaced by another's: that exemption is reached in the safety run's instance
only. The safety runs leave out the desk things that behave
as another does (`aspect`, `dpms_wake` and `input` are switches like `idle`).

Fairness. The job's thread runs on once started (weak fairness of `Job`, which is not
fairness of a step's success: the faults are bounded instead). The watchdog wakes every
quarter second and goes through its calls in turn, waiting for a lock that is first
come, first served, so each of them is taken infinitely often if it can be again and
again (strong fairness of `Expire`, `BackgroundRetry`, `Reconcile`). No fairness is
assumed of clients, of the host, or of an operator; and every liveness property allows
that the watchdog task died, which one stray exception can bring about.

### Proofs

All for any set of sessions, any `DeskUses`, and any bounds on faults, crashes,
reloads, misses and tries, from the three named assumptions of the module only.

* `RemoteSessionProofs!TypeCorrect`: `Spec => []TypeOK`, together with `Control`
  (which job goes with which session state).
* `RemoteSessionJournal!JournalInvariant`: `Spec => []JournalInv`, and from it
  `JournalIsEnough`, `RetryIsEnough` and `ReleasedIsRestored`.
* `RemoteSessionJournal!LeaseIsTheBackends`: `Spec => []LeaseMatches`.
* `RemoteSessionJournal!SessionsBorrow`: `Spec => BorrowsUnderNotes`.

`JournalCovers` is not inductive. It speaks of the files, but until a crash the code
restores from copies in memory (the record, the retry slot, the record a job carries)
and writes them back; so `JournalInv` (at the end of `RemoteSession`) says that *every* copy
covers what stands under its id (`Copies`), by what would be run from it; whose copies
there can be, so that a new session meets none and a write replaces only its own
(`Places`); and that a session which may still take things has its record on the disk
as it is in memory (`Holding`). The proof has one lemma per action; most follow from a
few shapes: less stands and no copy changed (`CopiesLess`), a restore begins
(`RestoreBegins`), the owner's record grows (`OwnKeeps`), a file is deleted after a
clean restore (`UnlinkKeeps`).

`LeaseMatches` is not inductive either: it says nothing of a session that is not ready
yet. `LeaseInv` adds to it, and to `JournalInv`, that the take of a create or a switch is
not over before its backend was asked for; that a pass that rebuilds a session keeps its
lease throughout, so that a missed pass leaves it where it was; and that only a recovery
goes on to the next journal when a restore ends.

Only model-checked: all liveness (fairness and ENABLED are outside what the proof system
handles).

## 4. The event stream

### What is modelled

`EventStream` puts three parts of the code together: `Hub`, the handler of
`/v1/events`, and the page's `EventStream` object with the state `App.jsx` shows. The
daemon's side runs on one asyncio thread, so each action is what happens between two
awaits.

| Variables | Code |
|---|---|
| `inst log host` | `instance_id`; every event of this instance (the hub retains the last `HistoryLimit`); `_state` |
| `conn` | per socket: where its handler is (`phase`), the pump's `after_cursor` (`since`), the replay left, the subscriber's queue, and the messages under way (`wire`) |
| `client` | per page: its socket, the `instance` and `cursor` it resumes from, whether it stopped |
| `view` | the state the page shows |
| `revoked until` | credentials taken back, and the hub's cursor at that moment |

The state is abstracted to a few topics, and a value to the number of the event that
wrote it: the deep merge of a patch replaces a topic. `Greet` reads state and cursor
after the handshake's await; `Subscribe`, a step later, registers and looks back;
`ReplayNext`, `Wait` and `Deliver` send one event each, each after a check of the
credential and, for `Deliver`, after the wait as well; `Publish` offers an event to every
subscriber and empties a full queue. A path can die (`Break`) without either end
knowing: the page notices by silence (`Drop`), the daemon by a missing pong (`HangUp`).
Messages are under way up to `WireLimit`, after which `send_json` waits: this is what
lets queues fill.

Abstracted: back-off and the exact timers; catalog rows; the events whose type the page
ignores (they are events of no topic). Sockets are a fixed set that is used again.

### Properties

* `TypeOK`, with the bound of the queue: `put_nowait` never meets a full one.
* `ShownAtCursor`: the page shows exactly the host's state as it was at the cursor.
* `AfterCursorChain`: every event under way follows the one before it, and the first
  follows the page's cursor.
* `RevokedHearsNothing`: no event published after a revocation is sent to the device.
* `Mirrors`: the module implements `MirroredState`: a page shows states the host was in,
  and within one instance never goes back.
* Liveness: `Converges`, `RevokedIsTold`.
* `UnpairedOnlyIfRevoked` is violated (finding): an unreadable credential registry, met
  by a check on an open socket, is reported in the words of a refusal, and the page
  deletes its credential.

### Runs

| Run | Instance | Shows |
|---|---|---|
| `event_stream` | 1 page, 2 sockets, 2 topics, 3 events per instance, history 2, queue 1, 2 messages under way, 1 trouble | the safety properties and the refinement |
| `event_stream_live` | the same with 1 topic, history 1 and 1 message under way | the liveness properties under `FairSpec` |
| `event_stream_unpaired` | the same | the finding |

Bounds. Subscribers do not influence each other, so one page is enough; a second socket
is needed because the first may hang half-open while the page is back. Three events with
a history of two and a queue of one make every boundary occur: a cursor just inside and
just outside the history, a queue that overflows during the replay and after it. One
trouble (a lost path, an unread registry, a reload or a restart) at any point, with a
revocation besides. Deadlock is not checked: events and troubles are bounded, and an
unpaired page stops.

Fairness. The event loop gives every task its turn (`Handler`, and `CheckAuth`, which is a
task of its own), and a page's timers fire (`Page`: reconnecting, reading, noticing
silence). None is assumed of publishing, revoking or troubles.

### Proofs

For any number of devices, sockets, topics and events, and any limits, TLAPS checks in
`EventStreamProofs`: `Spec => []TypeOK`, `[]ShownAtCursor`, `[]AfterCursorChain`,
`[]RevokedHearsNothing`, and `Spec => Mirrors`. They rest on `NamesAssumption`,
`EventsAssumption` (only broadcasts patch the state) and `LimitsAssumption`.

None of these is inductive: that the next event on the wire may be merged says nothing
of the one after it, and nothing of what the pump will send. The invariant `StreamInv`
(at the end of `EventStream`) closes the chain from the page to the hub:

* `PageOK`: the view is the state at the cursor, and no patch in it is ahead of the hub;
* `WireOK`: a snapshot or a ready is the first message; an event names the cursor of the
  message before it (or of the page), and nothing the device may see lies between;
* `PumpOK`: the pump's cursor is the end of what it sent, or of what the page has;
* `NothingLost`: replay and queue together are exactly what is visible after that
  cursor, the replay before the queue - unless the socket is bound for a resync;
* `BoundsOK`: no number is ahead of the hub, and no event for a revoked device is from
  after the revocation.

All but `PageOK` is said of one socket (`SocketOK`), so `HandlerStep` reduces a handler's
step to its own socket and `PageStep`, `ReadStep` and `LetGo` do the same for a page. The
hub's steps touch every socket: `LostPublished` shows that an event offered to a queue
keeps `NothingLost`, which is where `publish()` and `_visible()` must agree. The
refinement maps the log to its topics; `Merged` is its core: nothing visible between two
cursors means no patch between them, so merging one event's patch leads from one state
of the host to another. TLC checked `StreamInv` as an invariant of the same instance
before it was proved. The liveness properties are model-checked only.

## 5. Devices and credentials

### What is modelled

`Devices` is the life of a paired device in five stores, each with a lock of its own:
the pairing file (`rows`, `asked`), the registry of credentials (`minted issued revoked`),
the media store (`allowed`), `authorized_keys` (`lines`, `waiting`), and those of push and
of the approval keys (`push`, `bio`). A local command, a worker and the media store's
thread each have a job in hand (`job`), whose actions (`Work`) are one hold of a lock, or
one read under it. `local.pair.approve`, `local.devices.revoke` and `purge`, the
terminal's permit, reject and prune, the claim, the renewal, the offered key, the
subscription, the enrolled key and the superseded identity of a phone are its operations.
`cleared`, `trusted` and `ever` are ghosts: devices taken back and not approved again,
devices somebody at the computer gave a terminal, tokens that were ever revoked.

`Credentials` has the days instead of the locks: one device, a clock (`now`), the day each
credential was minted (`iat`), what it is to be retired at (`retire`), the end of the
terminal's line (`line`), the credentials the device still holds (`held`) and the replies
that were lost. `MediaPairing` has the certificate: attempts (`att`), bindings (`bind`),
the fork's requests and trust (`req`, `trust`), and the barrier before the PIN (`hand`).

### Properties and runs

`devices` (one device, two requests, two credentials) checks `RevokedKeepsNothing`,
`LinesGranted` and `RevokedStaysRefused`; `devices_two` (two devices, one key, a restart)
that a phone that paired again has one line and keeps nothing of the identity that was
revoked (`OneIdentity`); `devices_live` that every job ends (`JobsEnd`), which is what a
lock taken in the wrong order would break. The other two are parts of `stores`:
`CredentialWorks` (`NeverStranded`: a device that renews when it may always holds a
credential that works, through lost replies, pairing again and restarts; `LineCovers`: the
terminal that goes with it opens, unless a start shut its line or the line was cut between
an approval and the claim, which `shut` says) and `FollowedUp`: a request is sent one PIN
(`PinSentOnce`), what the fork got with a request opens the stream only while core holds the
certificate's binding or follows that request up (`TrustIsOnRecord`), and pairing again does not
undo a revoke (`NotUndone`). The first two except what `dropped` names (see the proof below).

Bounds. The stores tell devices apart by name only, so one device shows every race of a
grant with a revoke, and two are needed only where one identity supersedes another. Two
requests and two credentials let one be claimed while another is revoked. Fairness: each
of the three threads goes on (`SF_vars(Work(t))`); locks are handed on in turn.
`MaxFaults` is 0 in these runs: with one failing write TLC finds `RevokedKeepsNothing`
violated (section 9). In `Credentials` a life is seven days with a window of two and a
grace of two, and the clock has nine: the term is longer than two windows and the grace, as
the code's thirty days with a window of seven and a grace of one are (auth.py:34-36). With a
shorter one a line that is cut before a claim is always moved again before it matters.

### What is proved

`DevicesProofs`, from `DeviceAssumption` alone, for any devices, keys, threads, requests
and credentials, and any number of restarts and failing writes: `TypeCorrect` (`TypeOK`),
`RevokedRefused` (`RevokedStaysRefused`) and `KeyIsOneLine` (`OneLinePerKey`, the half of
`OneIdentity` that holds when writes fail, too). The inductive invariant `IInv` has four
parts, and each action has a lemma with a step for each part. `StoresOK` and `LinesOK` are
the types and `OneLinePerKey`, which is inductive with them. `JobsOK` adds what a job must
hold for the step it is at (`Fits`): a job that is to write a line has a key, one that
moves a line has an older device, one that records a grant has a request; without it no
step of `Work` keeps its type. `CredsOK` adds that the number of a credential, issued or
revoked, is at most its device's counter: what is minted is therefore never a token that
was revoked and purged.

`DevicesRevoked` proves the three properties that hold only while no write fails silently
(with one failing write TLC finds them violated, section 9). Each theorem says so as a
hypothesis, `MaxFaults = 0`, which every run of `Devices` satisfies; crashes are not
limited.

* `RevokeIsComplete`: `RevokedKeepsNothing`. It speaks of a revoke that is over, and so
  says nothing of one under way. `SweptOK` does: what a device taken back still has is on
  the way to be taken by a job (`Cleaning(d, steps)`: some thread works on the device and
  the step that takes this is still before it). `WritesOK` is the other half: a job that
  is about to write something for such a device has a revoke behind it that takes it
  again. The locks are what makes both inductive, since they order the check before each
  write with the revoke's steps.
* `LinesAreGranted`: `LinesGranted`. `TrustOK` follows the person's decision from the row
  that is approved, through a job that carries it out, to the line; `AskedOK` says that a
  job's device is the one of the request or credential it read.
* `IdentityIsOne`: `OneIdentity`, from `KeyIsOneLine` and the two above.

The first attempt at `LinesAreGranted` failed for a reason in the code: an approval of a
phone that supersedes an older identity reads whether that one had a terminal and records
it on the new row at the end (service.py:1700-1716), while a revoke and a second approval
of the same device may be over in between. The comment there speaks only of a key that
changed hands. The model kept the older decision then as if the revoke had never been:
`Giving` now keeps `trusted` for a device whose decision is still being carried out.

`StoresProofs!CredentialsWork`: `Spec => []CredentialWorks`, for any term, window, grace, number of
credentials, requests and restarts, from `CredAssumption` (the grace of a replaced credential is
no longer than the window, which is no longer than the term). The invariant is `CredInv`. `HeldOK`
says of the token a device works with that it was due no earlier than its first lost answer and
is not retired before the grace after it, so that the day that ends (`Tick`) finds it working;
`LineOK` that an open line reaches as far as every credential there is or a renewal in hand will
bring it (`Reaches`), and as far as a term from today while an approval waits to be claimed. The last
end of the credentials (`Latest`) is a `CHOOSE`: `Largest` shows that it is there to be chosen.
Looking for the invariant showed that the bounds had hidden the line cut before a claim
(section 9), which is why the property names it now.

`StoresProofs!PairingIsFollowedUp`: `Spec => FollowedUp`, for any devices, certificates, requests,
lost answers and restarts, from `MediaAssumption`. The invariant is `MediaInv`: a PIN goes out
behind the barrier only, where none was sent (`BarrierOK`, `UnsentOK`); an attempt ends when the
fork is through with its request, and until then it is followed up (`EndedOK`, `ProofOK`). Core's
own steps that ask the fork for nothing share one lemma (`MediaSettles`), the fork's another
(`MediaOutside`).

The first attempt at it failed for a reason in the code, which the run's two requests of a
certificate are too few to show: with three, TLC finds `PinSentOnce` and `TrustIsOnRecord` violated
when their exception is taken out (section 9). `_rebind` (media_pairing.py:604-609) drops every
attempt that the older identity has for the certificate, the ones under way included. The model
has always done so; `dropped` now records it, and the two properties hold for all other attempts.

## 6. The default agent

`AgentChat` is the adapter between the phones and one thread of codex. `down` is what codex
sent and the reader has not taken; `active`, `memo` and `pending` what core believes; `call`
the coroutines of the phones, each of which asks and waits. A reply only resolves its
future, so a call is "replied" before it is "done", and what lay behind the reply may be
applied in between. A path that dies, a timeout and a restart may come anywhere. `AgentThread`
is the record of the default thread (`record`), codex's threads (`loaded`, `written`), the one
operation under the service's lock (`op`) and the handoff beside it (`hand`, `tui`).
`PushDelivery` is what one phone is told: observers (`events`), the watcher (`watch`), an
alert in its window (`window`, `held`), the digest (`announced`, `timer`) and the lane.
`Overview` is the ledger of what was seen (`row`), and the two values published of it by four
threads. `AgentPrompts` is the older way in: a journal of requests (`journal`, `order`), the
pane and agent a prompt needs, and what became of it.

The run `agent` checks

* `StartedOnce`: a message is the start of one turn at most, whatever is lost (the journal
  is written before codex is asked); a prompt reaches the agent once (`SentOnce`), and a
  device is told "accepted" or "not sent" only when that is so (`ToldTruly`).
* `ChatAgrees`: at rest core knows of the turn that runs (`RunningIsActive`), and what codex
  asks is before the person until answered, and never again after (`AskedOnce`).
* `ThreadKept`: the first thread is asked for once (`FirstOnce`), the chat written to is the
  one the record names (`ChatOfRecord`), and only a thread nobody wrote in is replaced as
  empty (`EmptyReplaced`).
* `NeedsAreTold`: an alert that is owed is on its way, in its window or held for the desk
  (`WaitingIsTold`), a pane that starts to wait is named by a digest to come (`PanesAreTold`),
  what needs the person is published or somebody still has to publish it (`ToldOrToCome`),
  and what is on a device's screen is seen (`WatchedIsSeen`).

The lane of push is a queue
without a limit: what the code drops when 64 wait (push.py:944-952) is lost, and
`WaitingIsTold` does not speak of it. A picture that codex refuses is sent again as
words in the same call (`StartSteps`, `Rejected`).

Bounds. Two words and two turns let one message be sent while another's answer is late; one
lost path, one restart and one fault each. The calls are one phone's;
`StartsAreOnce` and `ChatIsTold` are proved for any number of phones. Three calls are enough for a
retry beside two others. Four threads cover a first, a new, an emptied and a handed-over one. Two panes let one
be answered while another starts to wait. One phone, one pane and three moves are enough for
four publishing threads of `Overview` to overtake each other. `AgentPrompts` keeps one
request in its journal, so that the second evicts the first.

### What is proved

`AgentProofs` proves the four, for any phones, words, panes, callers, requests and bounds,
from the named assumptions of `MCAgent` only (the bounds are numbers, there is room for one
thread, turn and subscription, and the names the code uses itself are nobody's). None is
inductive; each part ends with the invariant that is, and each action has a lemma.

* `StartsAreOnce` (`StartedOnce`). `PromptInv`: a submit that holds the lock is of a request
  the journal lacks until it is about to send; what the journal and a device hold of a
  request fits how often its words arrived (`Fits`). For the chat, `OneStart`: a message is
  journaled before codex is asked, the request that asks is the only one, and while it is
  out codex has not started it.
* `ChatIsTold` (`ChatAgrees`). It speaks of rest, so `ChatInv` has to say what is on the way:
  `TurnIsTold` that the turn that runs is known or its start lies unread, with nothing after
  it that would undo it; `AsksAreTold` the same of what codex waits for; both counted from
  the reply to the attach when that is still unread (`Since`), as it resets what core knows.
  `LinkOK` says that there is at most one such reply, and none without an attach that waits.
* `ThreadIsKept` (`ThreadKept`). `ThreadInv` keeps operation and handoff apart (`OpOK`,
  `HandOK`: which steps the owner's lock excludes), notes a first creation before it is
  asked (`FirstOK`), and lets the chat differ from the record only while a new conversation
  is cleared or a handoff has taken it (`ChatOK`).
* `NeedsComeToBeTold` (`NeedsAreTold`). `PushInv` adds to its two properties that what waits
  for the desk is let go when it is left, and that a digest named only panes that still
  wait. `SeenInv` says that one thread at a time reads for the list, and that when what it
  read is stale, or the list is, whoever made it so has yet to publish.

`AgentKeepsTypes` is `TypeOK` of the run, with what the invariants above lack of it: bounds and
names. That is more than shapes: it says that a request's words reached the pane no more often
than they were submitted, so it needs that a submit on its way to the pane has been counted
(`TriesOK`), and of a thread that codex made it for one creation (`MadeOK`). It also needs room
for one entry in the prompts' journal (`MaxKeep` is 256 in the code). To be reasoned about, the
journal lets its oldest entries go as one cut of its front (`Spare`), as `[-256:]` does.

## 7. What core keeps and shares

The rest of the run `stores`.

`HerdrWatch` follows one session: the layout (a version), its events on the thread (`events`,
`sock`), the poke to the loop (`sig`, `soon`, `dirty`) and the refresh that reads (`handle`,
`follow`). `HerdrPanes` is what devices do to one pane: the control stream that holds it
(`holder`, `stream`), a view and its size, and writers whose keys, texts and replies share a
lock. `HerdrIsHeld` says that a session whose events say it moved is read for it
(`PokeNotLost`) and the panes it has are the ones listened to (`SubscribedToThePanes`), that
the end of a stream that was taken over does not free the pane (`HolderStays`), and that Enter
follows only a text that was seen to arrive (`EnterIsProved`).

`Notices` mirrors the shell's toasts: the two directories are read one after the other, then
the requests that wait, and what was decided is taken down. `WaitingStays`: a toast is
withdrawn only when its own request was decided after it was posted.

`Clipboard` is the watcher thread and its `wl-paste`, the throttle with the announcement it
holds back, and a device's write with the echo it expects. `Uploads` is a file of a device: its
part, its check, its name, the sweep, the ask of a send and the chip that is taken off, across
crashes and a revoke. `Attachments` states what a message with files becomes, as operators over
sequences of words, markers and paths (`ComposeHerdr`, `ComposeAgent`), over every draft within
its bounds. `Preferences` is the file two builds and two pages write. `SharedAsAsked` is
`OwnWriteIsNotNews`, `LastIsTold`, `NothingIsLeft`, `SavedStays`, `RefusedIsGone`,
`NoneIsDropped`, `NumbersAgree`, `NothingIsLost`, `OthersKept`, `TypedOnce` and `SameAnswer`.

`RemoteText` is a draft the phone sends into the focused window of its session: the memory of
the sends (`memory`), each attempt with the thread that types (`attempt`), the requests that
wait for one (`waiter`) and the answers given (`told`). `TypedOnce`: a press of Send reaches the
window once, whatever is retried with whatever text, also after a failure, the end of the
session or a restart, until `SEND_MEMORY` later sends have pushed its id out (the comment in the
code, "at most once", leaves this out). `SameAnswer`: once a phone was told "typed" no retry is
told otherwise, and no other text takes the id.

Bounds. Two streams and two writers; three sizes and two runs of a view. One decided and one
strange toast. The clipboard is copied twice, switched twice and written once, with one fault,
over two threads: the second is the one that outlives a stop. Two uploads, one crash and two
sweeps. A draft of three pieces and two files with three marks. Two builds, the newer of which
knows a control the older does not. A memory of one send, two ids, three attempts and two
requests at a time: an id is pushed out, by the other, while its attempt types.

### What is proved

`StoresProofs!WaitingToastsStay`: `Spec => []WaitingStays`, for any toasts, requests and number
of asks, from `ToastAssumption`. The watch thread acts on what it read four steps earlier, so
the invariant (`StaleIsSettled`) follows it: a toast of ours that the shell holds or the thread
has found is of a request that waits or was decided since (`PostedOK`), and what the thread
calls stale was decided (`StaleOK`) - it is the order of the reads, toasts before requests,
that makes the second follow from the first.

`HerdrStaysHeld`: `Spec => []HerdrIsHeld`, for any streams and writers of a pane and any number
of moves, faults, sizes and runs, from `HerdrAssumption` and `PaneAssumption`. Neither half is
inductive. `WatchInv` adds what the two ways of following a session owe each other: a thread
that is about to subscribe to other panes than the session's has a change to see, or the poll
that reads now is about to flag it (`SubscribesOK`); so a subscription that is stale is never
the last word. `PaneInv` adds who may type: from the first look at the screen to the last key a
writer has the pane's lock, and the one who looks is the one who typed last (`TypistOK`); so what
it sees arrive is its own text. Both are checked with `stores`' bounds before they are proved.

`SharedIsAsAsked`: `Spec => []SharedAsAsked`, for any texts, files, drafts, builds and pages, and
any number of attempts, from `ClipAssumption`, `UploadAssumption`, `AttachAssumption` and
`TextAssumption`. One invariant for each part:

* `ClipInv`. What devices know is the text of the write that holds the lock, or its digest
  (`EchoOK`); and while the clipboard holds another, a line waits or a thread is on its way to
  read it (`OwedIsComing`), so that when nobody is, the last word was the truth.
* `UploadInv`. What a request has on disk goes by where it is (`StageOK`): no name before the
  rename, no part after the end, nothing finished unchecked; and a send or a removal is of an
  upload whose answer its device has (`AskOK`).
* `AttachInv`: what was sent is what the two functions make of the draft. The rest is about the
  functions, of every draft: a file's place among the images is the number of those before it
  (`Place`), and the paths that no marker names are written out. They are stated by position and
  by cardinality, not by recursion, so that no induction over the draft is needed.
* `PrefInv`: what a page was shown is of a revision the file has had; of the present one, every
  value it was shown still stands (`SeenOK`).
* `TextInv`: an attempt is remembered unless it was refused or `Memory` others were made since
  (`Remembered`), so an id is tried again only then (`TriedOnce`); and every answer is so of the
  attempt it is about (`AnswersOK`), which is what two answers agree by. The memory is the set of
  the attempts it has, the least of which goes first.

`StoresKeepTypes` is `TypeOK` of the run, with `BoundAssumption` besides.
`CredentialsWork` and `PairingIsFollowedUp` are in section 5.

## 8. Desk and host

The run `host`.

| Module | State | Invariants |
|---|---|---|
| `Approvals` | keys of devices (`held`), of the broker (`store`) and of root (`root`); prompts (`record`), their cards and answers | `RevokedHasNoKey`, `OneOutcome`, `GrantIsSigned` |
| `Microphone` | sockets, the owner (`holder`), modules on the audio server (`mods`), the dictation and the user's file (`config`, `backup`) | `OneMicrophone`, `ConfigIsSafe`, `DictationRestores` |
| `Conditions` | readings (`entries`), watches and their events, who reads (`thread`, `inflight`), the catalog (`shelf`) | `QuietIsRead`, `OneShell`, `ShelfIsMarked` |
| `Invocations` | the source's text, what is registered and shown of it, requests and their stored outcomes, armed confirmations | `RunsOnce`, `RunsConfirmed`, `RunsTheSource` |
| `WorkspaceLayout` | the layout in the compositor and the file, the staged file, what stands under moved names | `OthersFileKept`, `AsReported` |
| `WorkspaceProbe` | the desk, what is shown of it, the generation of a reading | `ReadbackStands`, `MovesTheShown` |
| `InstalledTrees` | the virtualenv and the one before, two checkouts, a person's work in them | `WorkIsKept`, `FailedUpdateKeeps`, `NotMoved` |
| `HostFiles` | a file known by its marker, one known byte for byte, Sunshine's list, the grants and the sources a removal needs | `PersonsFileStays`, `AppsKept`, `PamNeedsSources`, `RemovedIsComplete` |
| `PamStack` | a PAM file, the vendor's, its copy and digest, the helper | `TheirsKept`, `RemovedIsGone`, `LinesHaveHelper` |
| `ServeMapping` | what serves each port, and the record of whose it is | `UsersMappingStays` |
| `SunshineUnit` | unit, drop-in, tree, web login, record and clients of the fork | `PersonsSunshineStays`, `BuildsAreKept`, `RunsLocked` |
| `LocalSocket` | inodes and link of the socket, three daemons starting and closing | `ListenerWins` |

`ApprovalIsSound` and `MicrophoneKept` are the first two rows; `DeskAsAsked` the next four;
`TreesAreKept` is `InstalledTrees`; `HostFilesKept` the last five. In the modules of the
installer an action is a step of the script between which it may be killed; a person or
another program edits the same place between any two, and the exceptions the invariants name
(an edit under a run's hands) are ghosts set by exactly such an edit.

Every system call of the socket is an action: a start looks at the entry (`Look`), asks it
(`Probe`), looks again (`LookAgain`), unlinks what is there by then (`Reclaim`), binds (`Bind`) and
learns its own inode by an `lstat` (`Name`); a close looks (`LookOwn`) and unlinks (`RemoveOwn`). So an
inode that listens can be removed by a daemon it never refused, in the gap between two of these
calls. `ListenerWins` says that nobody removes a listening inode that it knew to be another's and
that had not refused it; that no listening inode is removed at all, which the source says, is false
(`LiveListenerWins`, section 9). What the installer does not look at may go either way: the stop of
the fork (sunshine_package.py:1024), after which `active` is "left", a daemon's `disable --now`
(install_host.py:1644, `Dies`), tailscale's absence, and the microphone's backend that cannot be
made (`NoBackend`). A unit is ours only without a person's drop-ins beside it (`Customises`,
`OurDropin`). `RunsLocked` and `RemovedIsComplete` exempt exactly the two failed stops.

Bounds. Two phones and one prompt with two keys each; two sockets and one lease; one worker
beside the loop, one file and one demand (a second of either repeats the first); two devices,
two taps and three sends, with a store of one outcome so that one is forgotten; one action on
the layout or the desk, with one or two moves of the person. Two or three runs of the
installer, so that an update follows an install that was killed and a removal follows both,
with one or two edits between them. Four versions of the vendor's PAM file, three daemons on
the socket.

### What is proved

In `HostProofs`, for any devices, prompts, keys, sockets, leases and edits:

* `ApprovalsAreSound`: `Spec => []ApprovalIsSound`, from `ApproveAssumption`. `ApprovalInv` adds
  that an enrolment writes only under the lock that a revocation waits for (`WriteIsLocked`,
  and with it `KeyIsGone`); that what devices were told is the outcome of the record
  (`ToldOutcome`); and that a yes is in the record as it was signed and the helper's belief
  does not change between (`YesIsSigned`, `GrantStands`).
* `MicrophoneIsKept`: `Spec => []MicrophoneKept`, from `MicAssumption`. `MicInv` adds that who is
  not idle holds the arbiter and has loaded exactly what its step says (`HolderHasIt`,
  `LoadedInTurn`); that the copy a dictation took is of the user's last quiet version until
  it is back (`CopyIsKept`); and that a dictation without a fault remembers what it found
  (`Unspoiled`).

* `DeskIsAsAsked`: `Spec => []DeskAsAsked`, from `CondAssumption`, for any conditions, workers,
  rows, devices, windows and moves. `CondInv` follows a path from its row to its watch: it is
  watched, about to be, or will be read after (`WatchesOK`), as long as no two threads rebuild
  the watches at once, and what is in flight is some thread's (`ReadersOK`). `LayoutInv`: before
  it stages a file an action has none, what is under its own inode is nobody else's
  (`StagedOK`), and each position says what the layout then is (`ReportOK`). `ProbeInv`: a probe
  under way during an action is of an older generation, and what one of the present generation
  has read was read since the last readback (`ProbeOK`). `CallInv`: what ran, or is to, is on
  record or was forgotten (`OutcomeOK`), an arm that was not used is one refusal more than what
  ran (`ConfirmOK`), and while a row runs neither the catalog nor its device's request changes
  (`AcceptedOK`).
* `TreesStay`: `Spec => TreesAreKept`, with the action property that no step moves or removes a
  person's directory. `TreesInv` adds what a run found and moved (`RunOK`), and that nothing of a
  person's carries what a run takes for the installer's (`PersonsOK`).
* `HostFilesAreKept`: `Spec => []HostFilesKept`. Each of the five parts says what lies between a
  step that reads and the one that writes: a place found free or ours is still so unless somebody
  raced it (`ReadOK`, `SeenOK`, `FoundOK`, `AsideOK`), and what a removal has yet to take away is
  on its account (`LeftOK`, `GoneOK`). `SocketInv`: a start that looks again at the inode it saw
  was refused by it, and what a close is to remove bears the name it has for its own (`AskedOK`);
  so what either takes from a listener came to the path behind its back.
* `HostKeepsTypes`: `TypeOK` of the run, from `DeskAssumption` and `FilesAssumption` besides (the
  bounds are numbers, there is a workspace, a window and a moment, and the PAM files say
  something). It needs the invariants above and what is counted: the request that runs has its
  place in the store of outcomes (`StoreOK`), an action counts once towards the generation of the
  workspaces (`CountsOK`), no version is on disk that nobody wrote (`MadeOK`, `VersionsOK`).

The first attempt at `DeskIsAsAsked` failed for a reason in the code that the run's one worker and
one edit do not show. With two workers and two edits, an entry that one thread forgets
(`retain`, conditions.py:380-389) while another reads it is made anew by the latter
(`_evaluate`, 530-532) without asking for the watches: the condition is then read at its regular
window only. The model always did so; `revived` now records it, and `QuietIsRead` holds of every
other condition (section 9).

Deadlock is not checked in `devices*`, `agent`, `stores` and `host`: their bounds let a part
come to rest. Nothing is said there of liveness but `JobsEnd`.

## 9. Where code and documentation part

Two disagreements are runs that TLC finds violated (`remote_session_stuck`,
`event_stream_unpaired`). The following were met while modelling. Where a name is given, the
module states the property and TLC finds it violated when it is added to the run of that module.

Remote session: a screen stays dark without a journal (`DarkOnlyWithJournal`, session.py:492,
1235, docs/remote-api.md:404); a retry ends the next session's idle inhibition
(`StreamStaysAwake`, 1164); a failed resize
drops the errors of its restore (786), and a retry given up is not tried again, while the comment
at 1085-1092 says that the steps that failed are retried until they succeed
(`FailedIsRetried`; `GivenBack` with `dropped` left out, which takes the two faults of its run);
a claim taken again outlives its journal (`ClaimIsJournaled`, backends.py:240). Uncovered
besides: the bar's helper answers "unavailable" and counts as restored; of several failed
journals only the last is retried; an unreadable one stops the recovery of those after it; the
watchdog ends on an OSError.

Devices: a store that cannot be written during a revoke is passed over in silence
(service.py:1598-1617, 1832; `RevokedKeepsNothing` with `MaxFaults` 1); a fault of the media
store stops the revoke before the stores after it; the purge may drop a newer approval; a claim
cut between the issue and its row leaves a credential nobody holds. Credentials: a purged row
may come back (`PurgedMeansPurged`, docs/pairing.md:357) and a request replaced by another may
be approved (`OneLasts`). Media pairing: a cancel may revoke another device's certificate
(`BindingKept`); an attempt left pending by a fault is not approved again; eight cancellations
that a restarted fork forgot block new pairings. A proof that moves a certificate drops the older
identity's attempts for it as "history whose binding is no longer theirs" (`_rebind`, 600-603), also
one under way: an answer to its PIN that was lost is then no bar to a second PIN, against "the same
attempt, never a second PIN" (473), and if the phone proves that request after the newer identity
was revoked, the fork trusts a certificate that core has no record of (`PinSentOnce` and
`TrustIsOnRecord` without `dropped`, with `MaxRequests` 3).

The line of an approval reaches a full term and a day; a PUT of the key with the older credential,
or a start of the daemon, between the approval and the claim cuts it to that credential's end
(service.py:2365-2383, ssh_keys.py:467-493), and nothing moves it at the claim: the terminal of
the new credential is shut until its first renewal (`LineCovers` without `shut`). An approval that grants no terminal leaves an earlier line and its
end as they are (service.py:1440-1448), with the same effect.

Agent: core may take a turn for running that ended (`ActiveIsRunning`), drop queued words
(`WordsKept`), leave a busy thread (`BusyNotLeft`), not connect on the next ensure
(`NextEnsureConnects`), read another thread's journal (`JournalOfThread`), and have two writers
during a rollback (`OneWriter`). Push: a digest withdrawn for nothing (`DigestWithdrawn`), a
newer alert overwritten by the desk's flush (`FreshStays`). Prompts: an evicted request that is
sent again runs again; a crash between creating a workspace and its record leaves it an orphan.

Herdr: a move during a read may wait for the regular poll (`ReadsAreTold`), a resize may not be
shown (`ResizeIsShown`), a holder may hold a pane that is gone (`HeldIsThere`). Notifications: a
late action adds a withdrawn row again (`NeverAgain`). Clipboard: a thread in `wl-paste` outlives
a stop and goes on beside its successor after the next start; a read that fails uses up the
change; after a switch-off a read past its check still announces. Uploads: a revoke between the
recheck and the finish leaves a file; a file may be swept between its resolution and its use.
Attachments: of two with one marker only the last is kept. Preferences: a migration does not
count as a revision (harmless).

Approvals: the switch is not read again when an answer comes; a device is told "approved" after
it enrolled anew though the helper refuses. Microphone: a failed cleanup of the uplink is not
tried again, a begin that raises leaves the arbiter taken, also when no backend could be made
(audio_uplink.py:202-208), and after a crash nothing restores
Voxtype's file at start (docs/voice.md: "restored on every exit path"). Conditions: a mark during
a read is lost (`FiredIsRead`, conditions.py:537), as is a dirty flag between the walk and its
reset, until the regular window; one that was forgotten while it was read, and made anew by its
reader, is not watched until the watches are next rebuilt (`QuietIsRead` without `revived`, with
two `Workers` and `MaxEdits` 2). Invocations: a transport's retry of the first call counts as
its confirmation; a row edited between shown and tapped runs its new text. Layout: a program
that writes in place the inode that was exchanged loses its write.

Installation: a run killed between moving a virtualenv and its record leaves it nobody's
(`KilledIsOurs`); a removal deletes the sources although a firewall or SSH rule stayed; a unit
edited by a person that still carries the marker is overwritten. PAM: a kill between the copy of
the vendor's file and its digest leaves the copy shadowing it. Serve: core's mapping on 8443 is
orphaned when 443 becomes free; a kill before the record makes it the user's. Sunshine: a record
adopted late lets a removal delete a person's state; a removal says "stopped" and deletes the web
login although the stop failed (sunshine_package.py:1024-1025, 1054; `RemovedIsStopped`). Removal: a
daemon whose `disable --now` failed runs on and puts its lines back, which the removal of the
lines was to end, as without it "a removed (even purged) host kept letting every paired device log in"
(install_host.py:1644, 1711-1714; `RemovedLetsNobodyIn`). Socket: a
listener may lose its inode, against "a live listener always wins" (ipc.py:103, 169): another start
saw a dead inode twice, a third reclaimed it, bound and listens, and the first then unlinks the new
one (181-185); a close does the same (191-194), and a daemon whose fresh inode was reclaimed before
the `lstat` after its bind takes its successor's for its own (83-84) (`LiveListenerWins`). Between
bind() and listen() another start is refused and reclaims the inode of a daemon about to listen.

## 10. Not modelled

Parts without a module (PROJECT.json gives each its reason): the parsing of menus,
keybindings, fonts, icons and themes, bar geometry and looks, network discovery, one-shot
launches and the plugin bridge, the host application's pages beyond its event stream. They keep
no state over time, or caches by a file's time.

Within modelled parts: the fork's and the VNC server's own protocols, the service's bridge to
the latter, the late building of the remote manager; the registry of
operations, the observers and the IPC variant of the event stream; review, modes, compaction,
history and the rows of the agent's chat; the encryption of a push; the reading of a terminal's
screen; Do Not Disturb; the packets of the microphone; the package manager, downloads and
signatures of an installation. Time is a choice (a timeout may come whenever its call is out)
except in `Credentials`, `Uploads` and `WorkspaceProbe`, which count it. Every bound is a
constant whose name begins with `Max`; none of them is in the code unless its comment says so.

Checked by TLC only: the liveness properties (`SilentSessionEnds`, `RetryEnds`, `GivenBack`,
`DeskHeld`, `Converges`, `RevokedIsTold`, `JobsEnd`), whose fairness speaks of ENABLED, which
the prover does not reason about. Every invariant and action property of a run that is expected
to pass is also a theorem.
A property that joins several parts has one mutant in PROJECT.json, of one part. For the other
parts such changes were tried by hand, and TLC found the joint property violated by each: the second look of
the socket's start dropped (`SameInode`), a removal that does not stop the fork (`Stop`), a mapping
taken for core's without a record (`Owner`), work in the cache not moved aside (`Fetch`), a
dictation whose file is not put back (`RestoreConfig`), a displaced layout not checked (`Verify`),
the list built by two threads at once (`ListAgent`), the PIN kept beside its barrier (`Barrier`), a
proof by text that stood there before (`Proof`), a failed write whose text stays expected
(`WriteFails`), a memory that forgets what was typed (`Known`), orphans left out (`ComposeHerdr`).
The proofs leave two things open: what is not modelled, and what a property exempts, which it
exempts for every value of the constants (section 9 names the cases that matter).

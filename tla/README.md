# KHeadless in TLA+

Specifications of `kheadlessd`, the daemon that turns a Plasma session into a
headless RDP desktop: model-checked with TLC, and in part proved with TLAPS.
Paths below are relative to the repository; `embedded` stands for
`src/daemon/embeddedrdpbackend.cpp`, `service` for `src/daemon/service.cpp`.

## The system

| Component | State | Operations | Talks to |
|---|---|---|---|
| `LayoutController` | current layout, previous layout, 15 s timer, mode | `apply`, `confirm`, `revert`, `setInitialLayout`, `setMode` | calls its `OutputBackend`; signals to `Service` |
| `KScreenBackend` | none (KWin's outputs) | `apply` | KScreen operations, in nested event loops |
| `ConnectionRegistry` | ordered list of clients, one flagged controller | `add`, `remove`, `setRequestedLayout` | `Service` |
| `EmbeddedRdpBackend` | server, virtual outputs, connections, controller id, RDP topology, clipboard echo, audio remainder | `start`, `stop`, `prepareLayout`, `updateLayout`, `setController`, `acceptClientLayout`, `rejectClientLayout` | KRdp peers (queued signals), KWin (nested event loop) |
| `Service` | last error; owns the rest | the D-Bus interface, slots of all signals | everything |
| `SettingsStore` | server settings, mode, layout, profiles | `load`, `save`, profile edits | a JSON file |
| `CredentialStore` | users and their hashes | `load`, `save`, `setPassword`, `removeUser` | a JSON file; `Service` keeps the secrets in the keyring |
| `MonitorLayout` | value type | `validate`, `normalized`, `fromVariantList` | - |
| `ProcessRdpBackend`, `UnavailableRdpBackend` | child process, its monitor | `start`, `stop`, `updateLayout` | `QProcess`; `Service` |
| `rdplayoutconversion` | none | `toKrdpLayout`, `fromKrdpLayout` | `EmbeddedRdpBackend` |
| `DashboardController` | the editor's monitors, whether they are a draft | `refresh`, edits, `applyLayout`, `applyProfile`, `confirmLayout`, `revertLayout` | blocking D-Bus calls to `Service` |
| QML, KCM, CLI | none that lasts | one D-Bus call each | D-Bus |

The daemon has one thread, but not one handler at a time. `ensureVirtualOutputs`
waits up to ten seconds for KWin in a `QEventLoop`, both KScreen operations and
every keyring job wait in event loops too. While a handler waits there, the
thread dispatches D-Bus calls, timers and the queued signals of RDP peers, whose
handlers may wait in turn: **handlers nest, and only the innermost can go on**.
Most of what is hard here follows from that; the rest is partial failure (outputs
are changed before the layout is known to work), the crash of a daemon that
systemd restarts, and KRdp peers that live in threads of their own.

What makes the components correct:

- *LayoutController*: the backend was last given what is reported; a trial falls
  back to the layout that was kept, and keeps something that will end it.
- *KScreenBackend*: every enabled monitor gets an output of its own; a failed
  call changes nothing.
- *ConnectionRegistry and sessions*: the youngest writable client controls;
  gates follow control; gone clients leave; requests are answered.
- *Service*: KScreen, D-Bus, RDP clients and disk have been given one layout
  between transactions; a running server shows it, unless a transaction or a
  revert fails; a crash ends a trial; a failed transaction restores; every handler
  returns.
- *Settings and credentials*: memory, file and keyring agree; what is listed
  can be started with.
- *Clipboard and audio*: session and controller end up with the same text,
  whoever copied last; a sample is never cut by bytes of an earlier capture.
- *MonitorLayout*: the normal form of a valid layout is valid and stable.
- *Dashboard*: a draft made from a layout of the daemon is accepted by it, unless
  monitors were brought to overlap; edits survive refreshes, timeouts and
  crashes; the editor catches up.

## Modules

| Module | Models |
|---|---|
| `LayoutController` | `src/core/layoutcontroller.cpp` over an `OutputBackend` |
| `KScreenMatching` | the matching loop of `src/core/kscreenbackend.cpp`, as operators |
| `KScreenBackend` | one call of `KScreenBackend::apply` |
| `ControlHandover` | abstract: who may control, and when that changes |
| `ConnectionRegistry` | `src/core/connectionregistry.cpp` |
| `SessionOwnership` | registry, connections of `embedded`, and the session slots of `service` |
| `LayoutService` | the layout transaction of `service`, with the virtual outputs of `embedded` or the child of `src/daemon/rdpbackend.cpp`, `LayoutController` and the KScreen matching |
| `Credentials` | the RDP users: `src/core/credentialstore.cpp`, the keyring, and `SetPassword`, `DeleteUser`, `Start` of `service` |
| `Settings` | `src/core/settingsstore.cpp` and the methods of `service` that change it, with `ensureCertificate` and `ConfigureServer` |
| `Media` | the clipboard bridge and the audio capture of `embedded` |
| `Geometry` | `src/core/monitorlayout.cpp` and `src/daemon/rdplayoutconversion.cpp`, as operators |
| `Dashboard` | `src/ui/dashboardcontroller.cpp` over D-Bus, composed with `LayoutController` and `Geometry` |
| `*_proofs` | theorems about the module they are named after |
| `MC*` | instances for TLC |

Definitions called "Mutant" in a comment are plausible mistakes in the action
that follows them; each is used to see that a property notices it.

**LayoutController.** Variables carry the members' names. `calls` is the stack
of suspended `apply` and `revert` activations; `ScreenTakes` is the moment the
backend puts a call's layout on the screen, which may come while the call is
suspended below another. `revert` reads `m_previousLayout` three times (for the
signal, for the backend, for the assignment), which are `BeginRevert`,
`RevertNotified` and `RevertSucceeds`. `Restart` is a crash followed by
`Service::initialize`. `lastKept` and `trial` are history variables: the layout
last confirmed or applied for good, and whether none, one or several layouts
have been put on trial since.

**KScreenBackend.** `kwin` are KWin's outputs; `turn` is the configuration
object of the call. `MatchNext` is one turn of the loop. What is set on an
output (position, scale, priority, rotation, mode) is the single field `shows`.
KScreen hands out outputs in the order of their ids. A monitor that finds no
mode of its size keeps the current one in the code; modes are not modelled.

**SessionOwnership.** `posted` is the Qt event queue of the daemon's thread for
signals that KRdp peers emit from theirs; `Handle*`, `RejectLayout` and
`BeginTransaction` are the slots, each with everything it calls. `stack` are the
layout transactions suspended in nested event loops. What happens inside a
transaction is `LayoutService`'s subject; here it fails, succeeds, or is rolled
back because the client has gone or refuses.

**LayoutService.** A handler is a frame on the stack `frames`; its `pc` says
which wait it is in. `outputs` are `d->outputs` keyed by id and shape, since
`outputShapeMatches` decides which output may stay. `Prepare` is
`ensureVirtualOutputs`: it destroys what the layout does not need, creates what
is missing, and waits for what it has created only. A wait holds raw pointers;
a nested handler that destroys an output marks the frame `dangling`, and its
verdict is then either value. A `Start` that goes on after a nested `Stop`
(`Stranded`) dereferences the null server: `StartCrashes`. `screen` is, as in
`LayoutController`, the layout KScreen was last given, and stays when outputs
are destroyed; `shown` is the layout KScreen has arranged on outputs of which
none has been destroyed since (`Left`), and so what can be seen. `ControllerCalls` is the
refinement mapping: the frames between the first wait and the return of
`apply` or `revert` (`InController`) are the calls of `LayoutController`, in the
order of the stack (`CallsOf`). `backend` is the build:
with `"process"` nothing is prepared, a layout must have one enabled monitor, and
`UpdateLayout` stops the child and launches it again, which may fail after the
layout was applied (`RelaunchFails`); `ChildExits` is the child that ends by
itself. `UnavailableRdpBackend` refuses everything and keeps no state.

**Credentials.** `m_hashes`, `file` and `keyring` map each user to the password
its hash verifies, or to none. A frame is a `SetPassword`, `DeleteUser` or
`Start` in the nested event loop of a keyring job. `KeyringDoes` and
`KeyringRefuses` end the oldest job, whoever waits for it; the frame that waits
goes on only when it is the innermost. `Save` writes what memory holds, and so
also what suspended calls have put there. Two history variables say where the
code cannot keep hash and secret together: `suspect`, users whose change was
under way when the file was written or the daemon stopped, or could not be
written, until a later change of theirs succeeds; and `gone`, users whose
deletion was answered with true.

That jobs end in the order in which they were started is an assumption on
QtKeychain, and it matters: with the mutant `OldestAny`, a `DeleteUser` that
overlaps a `SetPassword` for the same user leaves a secret behind, and
`DeletedUserIsGone` fails.

**Media.** Texts travel both ways in queues; `notes` counts the notifications of
KSystemClipboard that are under way, each of which reads the text *of its
moment*. `echo` is `clientClipboardEcho`, `timers` the one-second timers that
clear it. `setController` hands the session's text out before it opens the gate;
it runs when a client has joined (`ClientJoins`) and when one has left
(`ConnectionClosed`), whose connection is destroyed afterwards, with the texts
that were on their way to it.
Audio bytes are counted modulo the frame: `position` in the running capture,
`audioRemainder` in the buffer. `Stop` and `BeginStart` take the bytes `late`
that arrive while `stopAudio` waits for pw-cat. The history variable `raced` says
that the last copy or handover met texts or timers under way (two texts can cross
then, or one be taken for an echo), `clean` that `stopAudio` found no capture
running (otherwise bytes stay behind); the properties except those cases, and TLC
finds a counterexample as soon as one of the exceptions is dropped.

**Geometry.** `validate`, `normalized`, `fallback` and the conversions. `AsInt`
wraps to the width of an int, and a rectangle keeps its right and bottom edge as
QRect does, so that sizes of the desktop overflow as they do in the code. An id
is a number, since "KHEADLESS-n" is made from one; names are left out.

**Dashboard.** The editor is in one of four places, `at`: idle, waiting for a
`callBool`, or in one of the two calls of a refresh that matter here (`Status`,
which decides whether there is a daemon, and `Monitors`; the other five calls
read what no property is about). It blocks, the daemon does not: between two
replies the timer fires, other callers apply and confirm, the daemon dies and
comes back. `queued` is a request the daemon has not dispatched, `ours` the
place in the controller's stack of the call that will answer the editor; after
`CallTimesOut` none will, but the call is still carried out. `updateMonitor` is
the edit of a width, height, scale or rotation, with `Change` the values the
widgets of `DisplaysPage.qml` may offer. Layouts are numbers
into `Drafts`, so that the invalid ones have a representation too;
`DraftAssumption` ties validity and normal form to `Geometry`, and TLC evaluates
it. `spoilt` is a history variable: it names the edits that lead to a layout the
daemon refuses. Three are weaknesses of the editor: a number reused after a
removal, a disabled monitor made primary, the empty list of a failed reply shown
as a layout. The others are geometry nobody checks before the daemon does: a
monitor dragged onto another, widened into its neighbour (nothing moves out of
the way), or placed where no room is left (`Crowded`, `NoRoom`).

**Settings.** `settings` is `SettingsStore` in memory, `file` is `config.json`;
`Persist` is `Service::persist` with both outcomes. `frames` are the `Start`s
under way, each with what it waits for. `server` is what `d->server` was made
with, so that settings changed afterwards show. `Reconfigure` is the whole of
`ConfigureServer`: it stops, sets, saves, and runs the first part of `Start`.

## Runs

| Run | Module, configuration | Bounds | States | Result |
|---|---|---|---|---|
| `dashboard` | MCDashboard, MCDashboard | 16 drafts of at most 2 monitors, depth 1, 4 events | 149 626 | pass |
| `controller_chained` | MCLayoutController, LayoutController_chained | 3 valid layouts, 1 invalid | - | violation |
| `ownership` | SessionOwnership, SessionOwnership | 2 clients, depth 2, 2 requests, 2 starts | 173 978 | pass |
| `media` | MCMedia, MCMedia | 2 clients, 2 texts, 3 copies, frames of 2 bytes | 1 388 266 | pass |
| `kscreen` | MCKScreenBackend, KScreenBackend | 1 to 3 monitors, 0 to 3 outputs, all names, types, orders | 234 698 | pass |
| `kscreen_mixed` | MCKScreenBackend, KScreenBackend_mixed | as above | - | violation |
| `service_alone` | MCLayoutService, LayoutService_alone | 3 layouts, both backends, depth 1 | 90 442 | pass |
| `service_nested` | MCLayoutService, LayoutService_nested | 2 layouts, depth 2 | 573 748 | pass |
| `service_erased` | MCLayoutService, LayoutService_erased | 2 layouts, depth 1 | - | violation |
| `service_silent` | MCLayoutService, LayoutService_silent | 2 layouts, depth 1 | - | violation |
| `credentials` | MCCredentials, MCCredentials | 2 users, 2 passwords, depth 2 | 460 434 | pass |
| `settings` | Settings, Settings | 2 addresses, 1 profile, depth 2 | 121 656 | pass |

- `dashboard`: the daemon's own properties `ScreenShowsLayout`,
  `TrialFallsBackToKept` and `TrialKeepsItsEnd` under a caller that edits, times
  out and is interrupted by others; of the editor `DraftIsAccepted`,
  `EditsSurvive` and `EditorCatchesUp`. The 16 drafts are layouts a few edits
  reach from the default layout and from one whose first monitor is disabled,
  valid and invalid, and one that is not normalized; among them a monitor
  widened before and after a second one is added, and one rotated;
  with 4 events there is room for an edit, an apply, another caller and a crash
  or timeout between them. Two monitors are what a collision, an overlap and a
  wrong primary need. Depth 1 is what `ScreenShowsLayout` is true for; overlapping
  calls are where `TrialFallsBackToKept` and `TrialKeepsItsEnd` are hard, and for
  those they are proved, at every depth.
- `ownership`: `OnlyControllerInjects` (the gates of every served client agree
  with the election), `RegisteredIsTracked` (no entry of the registry is
  orphaned by `stop()`), `HandsOver` (the registry implements `ControlHandover`),
  `StaleClientsLeave` and `RequestsAreAnswered`, although transactions of two
  clients nest and the server stops and starts under them. The second start lets
  events of the first server arrive during the second. A client's id is never
  reused, so ids bound the number of connections; that more clients change
  nothing for the first two is proved.
- `media`: `ClipboardsAgree`, `AudioIsAligned`. Two clients make a handover, two
  texts a change, three copies a copy that meets an unsettled clipboard and one
  after it; two bytes are the smallest frame that can be cut.
- `kscreen`: with outputs as the patched KRdp names them every enabled monitor
  gets its own (`OwnOutputsAreShown`, `OwnOutputsSuffice`), with those of the
  stock KRdp another one each (`StockOutputsAreShown`), and a failed call
  changes nothing (`FailureChangesNothing`). A single call ends, so deadlock is
  not checked. A compatibility match needs one monitor, a collision two, and a
  disabled monitor in between a third.
- `service_alone`: without overlapping handlers, for the embedded server and for
  the stock server in a child process, `OneLayoutEverywhere` (the layout *given*
  to KScreen, D-Bus, clients and file is one, whatever becomes of outputs later),
  `ShownUnlessFailed` (an embedded server that shows its layout goes on doing so,
  and shows every layout it adopts, until a transaction or a revert fails; that
  these can take it from the screen is what `service_erased` shows),
  `CrashEndsTrial` and `RestoreBringsOutputsBack`; and that every handler is
  calls of `LayoutController` (`UsesController`), which is proved for handlers
  that overlap. The layouts `one`, `big`
  and `two` change an output's shape, add one, and need a common one; `two` is
  what the stock server refuses.
- `service_nested`: two handlers overlapping, once requests cease every handler
  returns and no timer is left (`Settles`), with one exception: a `Start` whose
  server was destroyed while it waited (`Stranded`) may end in the null pointer;
  nothing is assumed of it, and without the exception TLC ends there. A layout whose revert has failed stays
  without a timer; no document says otherwise. Two frames and two layouts
  allow a wait for outputs inside another one, and a stop inside both. KWin
  answers `ready` or never here; rejected outputs are in the other runs.
- `credentials`: between calls every user that is listed has its secret
  (`EveryUserHasItsSecret`), a deleted user is nowhere (`DeletedUserIsGone`), and
  a `Start` that nothing overlaps serves the listed users and no others
  (`StartServesTheUsers`), `suspect` users excepted. A second user is what a save for somebody else needs,
  a second password what a change needs; no counter bounds the number of calls,
  failures or restarts. Users and passwords are symmetric. With one user the
  properties also hold at depth 4.
- `settings`: the file is behind memory only after a failed save
  (`FileIsCurrent`); a listening server has a certificate and the configured
  settings (`RunsWhatIsConfigured`). Without the exception for `overtaken` the
  second fails: `ConfigureServer` inside a `Start` that waits for its outputs
  finds `running()` false, restarts nothing, and the server comes up with the
  old settings. It holds at depth 3 too.

The violations:

- `FallbackRestoresKept` (`layoutcontroller.cpp:79`): a second `--temporary`
  layout makes the first one, which nobody confirmed, the fallback.
- `CompatibilityMatchIsSafe` (`kscreenbackend.cpp:53`): the match by name
  ignores `usedOutputs`, so that an output given to an earlier monitor is taken
  from it again, and `apply` reports success.
- `FailureRestoresLayout` (`service.cpp:555`): when preparing outputs fails, the
  ones of the current layout have been destroyed and stay so.
- `SuccessHasAllStreams` (`embeddedrdpbackend.cpp:256`): an output that failed
  stays in `d->outputs`; the next transaction takes it for an existing one.

Properties that hold only where handlers do not overlap are checked with
`MaxDepth = 1` and fail with 2: `ScreenShowsLayout` (nested calls reach KScreen in
another order than they return, and one entered while `revert()` waits moves
`m_previousLayout`), `ShownUnlessFailed`, and `OneLayoutEverywhere` (among others,
`Start` applies for good a layout it read before its waits). In the same way a client that loses control while its request
waits still has its layout accepted: `service.cpp:141` checks once.

**Fairness.** An expired `QTimer` is dispatched by whatever event loop runs
(`BeginRevert`); waits end by the ten-second timer, the KScreen operation or the
keyring job (`Continue`, `Transaction*`), but how a `Start` whose server was
destroyed goes on depends on freed memory, and nothing is assumed of it
(`~Stranded`); the event loop dispatches posted
events in order; and the thread of a peer whose server was stopped ends and
reports Closed (`PeerDropped`). In `Dashboard` the two-second timer polls, the
daemon answers what it is asked, a call without a daemon fails, and systemd
starts the daemon again (`Boots`; the unit has `Restart=on-failure`). Nothing is
assumed of users, of RDP clients or of KWin's answers. `Settles` and
`EditorCatchesUp` assume that requests cease (`Calm` also that the daemon
dies no more): each new one can restart the timer, nest once more or change the
layout between two replies of a refresh. `Calm` forbids no request of the editor
that the daemon refuses, and no poll.

## Proofs

For all values of the constants, unless a bound is named. Each `*_proofs` module
has one inductive invariant; a lemma per action, or per group of actions, says
that it is kept.

*LayoutController* (under `LayoutAssumption` and `BoundAssumption`):

- `TypeCorrect`: `Spec => []TypeOK`.
- `FallbackSafe`: `Spec => []TrialFallsBackToKept`, however calls overlap. The
  property is not inductive: a revert that was entered during a trial can end
  after it and assigns `m_previousLayout` to `m_layout` once more. `FallbackInv`
  adds that the fallback is the kept layout unless trials were chained.
- `TrialEnds`: `Spec => TrialKeepsItsEnd`, however calls overlap: a layout that is
  alone on trial has a running timer or a revert under way, and only a revert
  that fails takes that from it. The return of a call (`ReturnKeeps`) is where
  reverts disappear from the stack; `EndStep` goes through the actions.
- `ScreenFollows`: `ScreenShowsLayout` for `MaxDepth = 1`. `AloneInv` says what the
  only call under way has done to the screen, and that a revert under way has
  stopped the timer, so that nothing moves the fallback.

*Geometry* (in `Dashboard_proofs`, under `GeometryAssumption`):

- `NormalFormValidates`, `NormalFormIsStable`: for any number of monitors whose
  coordinates are below a quarter of the int range (`Small`), the normal form of
  a valid layout is valid, and its own normal form. This is what
  `LayoutAssumption` assumes of `normalized`. Without `Small` both are false:
  sizes computed from ints wrap around.

*ConnectionRegistry* and *SessionOwnership* (both in `SessionOwnership_proofs`):

- `OneController`: for any number of clients the youngest writable one is
  flagged, and nobody else. `RegistryInv` adds the type; the proof rests on
  `ElectionFlags`, that the election's outcome does not depend on old flags.
- `TypeCorrect`, `ControllerAlone` (`[]OnlyControllerInjects`) and
  `NobodyIsStale` (`[]RegisteredIsTracked`), for any number of clients, requests,
  starts and nested transactions. `OwnershipInv` adds to `RegistryInv` what the
  queue of posted events holds: that Closed comes behind the same connection's
  Authenticated, and only from peers that have ended (`EventsFollow`); that
  every registered client is served or has Closed on the way
  (`ClientsAreServed`); that the backend's controller is the registry's between
  the slots (`BackendAgrees`), and the gates follow it (`GatesFollow`).
- `RegistryHandsOver`, `ControlIsHandedOver` (`HandsOver`): the registry implements
  `ControlHandover`, alone and inside the daemon. The list of clients is mapped
  to who joined before whom. The mapping needs `PlacesInv`, that every client
  has one place in the list, and `LastControls`, that the owner is the writable
  client with the last place; then an election after a removal takes the
  youngest of those who are left, and one after any other operation changes
  nothing.

*LayoutService* (under `ServiceAssumption` and `OutputAssumption`: the outputs a
layout needs are among those KWin can be asked for):

- `TypeCorrect`, and `ServiceUsesController` (`Spec => UsesController`), for any
  layouts, both builds and any number of nested handlers, crashes included.
  `ServiceInv` says in what shape a frame waits: which frame has which `pc`, and
  that only the innermost one can be about to run on (`StackOK`). The refinement
  is shown action by action: a frame that enters the controller's part pushes a
  call, one that returns pops it, and what happens in the other frames is a
  stutter. `CallsOf` counts the frames in that part; lemmas say what appending,
  replacing and removing a frame does to it.
- `CrashEndsTheTrial` and `ServiceTrialFallsBack`, at any depth, by `KeptInv`: the
  stored layout, the fallback and the kept one are the same unless trials were
  chained.
- `AloneLayoutIsOne` and `AloneRestores`, for `MaxDepth = 1`, which is a
  hypothesis of the theorems: with two handlers both properties are false.
  `AloneInv` says of each wait of the only handler what it has told screen,
  clients, D-Bus and file so far (`FrameInv`, `Told`). `AloneLayoutIsOne` is about
  the layout KScreen was given, not about outputs destroyed later.
- `AloneShows` (`ShownUnlessFailed`), for `MaxDepth = 1` likewise, is about those.
  `ShownInv` says of each wait whether the handler's layout has its outputs and
  is shown on them (`Scene`); it rests on `AloneEnsures`, that
  `ensureVirtualOutputs` leaves all outputs of the layout it is called for.

*Dashboard* (under the assumptions of its module):

- `DashboardTypeCorrect`; `DashboardUsesController` (`DashboardSpec => Spec`): the
  daemon under editor, other callers, timeouts and deaths is `LayoutController`,
  so that `FallbackSafe` holds of it (`DashboardTrialFallsBack`).
- `DraftsSurvive` (`EditsSurvive`), for any drafts and depth. An apply that is
  answered may clear the draft only because it was the draft that was applied:
  `AppliesWhatIsShown` says that the request that is queued, the call that will
  answer it and what the editor shows are the same layout, however many calls
  lie above or below that one on the stack.
- `DraftsAreAccepted` (`[]DraftIsAccepted`), where all drafts have coordinates
  below a quarter of the int range (`SmallDrafts`). The code tests the united
  rectangle of the monitors; for small ones this is a test on every two of them
  (`RoomIsValidated`), which an edit can be followed through: one lemma for each
  of adding, removing, making primary, moving and changing a monitor
  (`ChangedValidates`: width, height, scale, rotation) says that what does not
  spoil stays valid. Of edits that spoil nothing is claimed.

*KScreenBackend* (under `KScreenAssumption`: layouts have distinct ids, which
`validate()` sees to, and configurations are sequences of outputs):

- `TypeCorrect`, `FailureIsClean`, `OwnSuffice`, `OwnAreShown`, `StockAreShown`:
  the type and the four invariants of the run `kscreen`, for any number of
  monitors and outputs in any order. `KInv` says of every monitor the loop has
  passed that it has an output which is in `usedOutputs` and shows it; the
  first match of a list exists by `FirstIsOne`, and an output with a monitor's
  own name is taken by no other monitor.

*Credentials* (under `CredentialsAssumption`):

- `TypeCorrect`, `SecretsFollow` (`[]EveryUserHasItsSecret`) and `DeletionHolds`
  (`[]DeletedUserIsGone`), for any number of users and of calls suspended in each
  other. Both properties speak of moments when calls have ended; the invariant
  has to say what is still owed while they are under way. `HashesFollow`: a
  user's hash is going to be taken back by a call that has failed, or is the
  password of the last secret still to be written, or is the one in the keyring.
  `FileFollows` is the same between file and keyring. `DeletesAlone` and
  `GoneStays` use `Fifo`, that the keyring ends the jobs in their order.
- `StartServes` (`StartServesTheUsers`), for any number of users read in any order.
  `StartInv` adds that a Start is alone only on top of the stack, and that of the
  users listed each is still to be read, being read, or was read as the keyring
  has it (`ReadFollows`). At its end `HashesFollow` leaves only the keyring to
  follow, since no change is under way. Suspect users are excepted.

*Settings* (under `SettingsAssumption`):

- `TypeCorrect`, `FileFollows` (`[]FileIsCurrent`), `RunsConfigured`
  (`[]RunsWhatIsConfigured`), for any number of nested Starts. `StartsFollow`
  says the same of a Start that is still under way.

*Media* (under `MediaAssumption`):

- `TypeCorrect`, `ClipboardsMeet` (`[]ClipboardsAgree`), `FramesStayWhole`
  (`[]AudioIsAligned`), for any number of clients, texts and copies and frames of
  any size. `OneUnderWay` names the only text that can be under way between
  session and controller after a settled copy; `EchoFollows`, that an echo is
  expected no longer than its timer runs, is why a settled copy is not swallowed.

Model-checked only: liveness (`Settles`, `StaleClientsLeave`,
`RequestsAreAnswered`, `EditorCatchesUp`), which needs ENABLED of the fair
actions. Every invariant, action property and refinement of the passing runs is
a theorem; those that hold only where handlers do not overlap are theorems for
`MaxDepth = 1`, and `DraftIsAccepted` is one for `SmallDrafts`. The recursive
functions behind `SelectSeq` and `FoldLeft` are out of the provers' reach, so
that `toKrdpLayout` and `fromKrdpLayout` are evaluated on small lists
(`RoundTrip`).

## Not modelled

- External: KRdp (its sources are a submodule), KWin, KScreen, the keyring.
  They appear as the environment: peers that authenticate, ask, close and are
  deleted; outputs that become ready, are rejected or stay silent; operations
  that succeed or fail without effect.
- Settings are saved without failing in `LayoutService`, where
  `ensureCertificate` counts as part of a start that may fail; `Settings` has
  both, without layouts.
- A `config.json` or `credentials.json` that cannot be parsed: the daemon writes
  both whole (`QSaveFile`) and refuses to start on another.
- The reading of monitors from variants and JSON (`fromVariantList`, `fromJson`)
  and the D-Bus types: conversions without a decision of their own beyond the
  validation that follows.
- Of the dashboard: the draft of the server settings (the same protocol as the
  layout's), users, modes, start and stop (one call and a refresh each), and the
  texts it shows.
- Video captures, streaming and cursor: no decision of the daemon depends on
  them. Of the audio only the cutting into frames is modelled, of the clipboard
  only texts.
- QML, KCM and CLI: each operation is one D-Bus call, or, in `server-config`, a
  read and a write by a process that keeps nothing.

## Plan

1. *Sessions over layouts*: `SessionOwnership` with `LayoutService` in place of
   the outcomes of its transactions, for the question whose layout wins.
2. *LayoutService*: `SettingsStore` in place of saves that never fail, and what
   remains of `OneLayoutEverywhere` where handlers overlap.
3. *Dashboard*: the draft of the server settings beside the one of the layout.

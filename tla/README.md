# easytidy in TLA+

easytidy keeps desktop environments in podman containers. A host side (a window and a
command line, both on `easytidy-core`) creates, rebuilds, configures and opens them;
inside each container run `easytidy-server`, as the container's user, and
`easytidy-dock`, as root. This directory holds specifications of the parts whose
correctness depends on the order in which concurrent or failing steps happen, the
configurations with which TLC checks them, and theorems about them checked by TLAPS.

    tlc -config pty_lifecycle.cfg MCPtyService      # any run of the table below
    tlapm ServerHostProofs.tla                      # any *Proofs module

Paths are relative to `crates/`. `PROJECT.json` maps every definition to the lines it
models, lists what is hard about the code (`hazards`) and gives each property a mutant of
the code that breaks it: the definitions named `<Action>_<What>` beside the action they
alter.

## The system

| Part | State | Operations | How it interacts | What is hard |
|---|---|---|---|---|
| Terminals (`server/src/services/pty.rs`, `connection.rs`, `state.rs`) | session map, default terminal, replay ring, subscribers, `conn_ptys` | `pty.open` in its variants, `pty.close`, raw input, clean-up of a connection | one task per connection, one OS thread per terminal, one map; event channels | awaits and lock releases between look-up and use; a guard held across an awaited write |
| Server as host (`server/src/main.rs`, `router.rs`, `services/apps.rs`, `lifecycle.rs`) | connections, `children` by process id, shutdown flag | handshake, launch, kill, prune, `ui.edit`, shutdown | a wait task per process, a task per connection, main | process ids are given out again; the shutdown kills under a lock others want |
| Stores of the server (`services/config.rs`, `passthrough.rs`, `apps.rs`, `storage.rs`) and what the window changes with them (`gui/src/commands/passthrough.rs`, `core/src/systemd.rs`) | three files and their temporary paths, unit, shortcuts, the host's copy of the icon | read-modify-write over the socket, merge, scan, migrate | several connections, a window that may close | one fixed temporary path; commands of several fallible steps |
| Dock start-up (`dock/src/bootstrap.rs`, `daemon.rs`) | socket file, `dock.sock.lock` | `bootstrap`, `daemon` | processes that see each other only through the file and the flock | probe-then-unlink races, SIGKILL anywhere |
| Dock root sessions (`dock/src/daemon.rs`, `session.rs`, `client.rs`) | session map, shells, rings, subscribers | `rc.new`, `rc.attach`, `rc.close` (two ways), shutdown | a handler per client, a thread per shell, a SIGCHLD task | four parties that each end a session in their own order |
| Window's connection (`gui/src/commands/socket.rs`, `state.rs`) | shared connection, its state, pending requests | connect, send, time out, send again, invalidate | a reader and a keep-alive task per connection | late steps of an old connection; an answer to the first attempt at the second |
| Window's terminals (`gui/src/commands/pty.rs`, `ui/components/Terminal.tsx`, `WorkerView.tsx`) | panels, `active_ptys` | open, reconnect, close, restore | a connection and a reader task per attachment | a panel closed while its session is on its way |
| Environments (`core/src/podman/`, `configfile.rs`, `lib.rs`, `appdata.rs`, `gui/src/commands/containers.rs`, `cli/src/main.rs`) | containers, volumes, registry, socket directories, entries | create, start, stop, restart, rebuild, remove, open, list ... by two programs | requests to the engine, files | each command is a dozen fallible steps, and another process may be at it too |
| Rebuild and backup images (`core/src/podman/mod.rs`, `libpod.rs`) | the container, `<name>_tmp`, the images | `rebuild`, `rebuild_quick`, clean-up | requests to the engine while the user works | partial failure, lost answers, crash between steps, stale list |
| Preparation (`core/src/env/`, `pathvars.rs`, `models.rs`, `server/src/setup.rs`) | variables, mounts, accounts, home, runtime directories, link to the X11 cookie | create, rebuild, start; in the container: prepare; the server's watcher | host, one-shot program and server must come to the same conclusions | an image that keeps the former container's variables; a preparation cut short |

What makes each correct, in a sentence: *terminals* - a listed session has somebody who
will take it out, output arrives once and in order, an exit is reported; *host* - what is
listed as running runs and dies with the server; *stores* - what was set stays set; *dock*
- one daemon, a running root shell can be reached, no zombie goes unnoticed; *window* - an
answer means the request was carried out, every command returns, no shell without a panel;
*environments* - the registry describes what is there, a failed creation takes back what it
found missing and spares what was there; *rebuild* - no write in the environment is lost;
*preparation* - the user's words win, everybody agrees who the user is, the host's directories
stay as they are.  Where the code falls short of the sentence, the property names the exception;
they are collected below the table of runs.

## Modules

| Module | What it models | Main correspondence |
|---|---|---|
| `PtyService` | the terminal service | `pc[c]` is where the task of connection c is; `OpenBegin` ... `StartReader` are the stretches of `handle_pty_open` and `attach_to_session` between awaits; `reader[s]` is where the thread of `pty.rs:359-508` is; `queue` is `event_tx`/`event_rx`; `doomed` is `to_remove` of `close_conn_ptys` |
| `TerminalRegistry` | the promise about terminal ids: issued once, listed at most once, never after retirement, nominated before being listed | implemented by `PtyService` through `Registry == INSTANCE TerminalRegistry WITH ...` |
| `ServerHost` | connections, processes, edits and the end of the server | `at[t]`, `arg[t]` are what a task is in the middle of; `waiter[p]` the wait task of a process; `phase = "killing"` is the kill loop with the lock of `children` in hand, `missed` what `kill(1)` failed on; `conn[c] = "cleaning"` is the wait between the unregistering and the end of the channel (`connection.rs:55-58`) |
| `ConfigStore` | passthrough.toml, config.json, the registry of applications, the unit, shortcuts | a command is a list of steps (`Steps`), each a request or a file operation; `handler[t]` is the server's handler between the opening of the temporary path, its filling and the rename; `want` is what the files would hold had each command been one step; `late` are the requests a window has sent again or given up, still to be read from the old connection |
| `DockStartup` | bootstraps and daemons | a step is one system call on the file or the lock; `socket` is the daemon whose listener the file names |
| `DockSessions` | root sessions while one daemon runs | `at[c]` is where the handler of client c is, `cleaner` the SIGCHLD task, `rx` the handler's channel, `terminal` whether the slave side is still open |
| `GuiClient` | the requests of a window over the connection they share | `pc[o]` is where `send_json_request` is; `lock` is the mutex kept across the connecting; readers and keep-alives are numbered by connection |
| `GuiTerminals` | panels and their attachments | an attachment is one call of `pty_open` with the reader it leaves behind; `ref`, `next`, `bound` and `born` are the panel's stream as the Terminal knows it, as `setPanes` has queued it, as the pane was last rendered with it, and as it was mounted; `ended` and `deaf` are the stretch between the announcement of an exit and the removal of the session, and who attached in it |
| `Environment` | 39 commands of the window and the command line | a handler is a script (`env_new`, `cmd_rm`, ...) of steps that must or may succeed; one action per step, with its failure, its lost answer and the process's death; `force` is the flag two of the removals take |
| `Provision` | what a container is given and what becomes of it | the operators are the functions of the same name (`apply`, `inject_section`, `expand_mounts`, `plan_prepare`, `keep_id_create_body`); the actions are the steps of a command, of the program in the container and of the server's watcher; `cookie` and `left` are the files of the host's runtime directory that look like a cookie, `link` and `last` where the watcher's link leads and what it remembers |
| `Rebuild` | `rebuild_with_commit` and `rebuild_images_cleanup` | a step is one engine request, `pc[r]` is named after the next one; a container's content is the set of writes it holds |
| `MC*` | symmetry sets and values of the constants | |
| `*Proofs` | theorems | |

How they fit: `GuiTerminals` has the server's map of sessions with the steps of `PtyService`
that a window can tell apart (an attach, the announcement of an end, the removal, a close). `DockSessions` presumes the daemon
`DockStartup` shows to be the only one, `Rebuild` waits for what a successful bootstrap
means there. `Environment` sees a rebuild from outside (its action `Rebuild`: replaced,
untouched, or left under the temporary name, the three ends of module `Rebuild`) and calls
`Prepare` what `Provision` spells out. They share no variables, so each is checked alone.

What the models abstract: bytes are numbered chunks, directories and paths are values or
sequences of pieces, window sizes, log texts and wording are left out. Operations that only
read or resize change no modelled state. What is outside `crates/` (the kernel's sockets,
flocks, signals, terminals, process ids; the engine; the desktop) is modelled from how the
code uses it; in `Rebuild`, `Endpoint` allows every outcome the comment at
`libpod.rs:157-175` promises, and no other.

## Runs

All bounds are CONSTANTS set in the `.cfg`. Deadlock checking is off everywhere: clients may
stop, every process may end and every bound may be reached, so all these systems can come to
rest.

| Run | Asks | Bounds, and why they suffice |
|---|---|---|
| `pty_lifecycle` | Do tables, threads and connections agree, does each subscriber get its output once and in order, does the service implement the registry? | 2 connections with one open each and any number of closes and inputs, 2 terminals, the first of which writes one chunk (`MaxTalking`): an opener against a closer or an attacher, and two openers at once. The race between replay, subscription and read needs one chunk; the order of several is that of one FIFO channel |
| `pty_live` | Is a closed terminal reclaimed, an exit heard, every request answered? | 2 connections, 1 terminal, 1 directory change; fair |
| `dock_startup` | Undisturbed file, bootstraps that end? | 3 daemons and 3 bootstraps: a holder, a loser and a leftover; each runs once and may be killed anywhere |
| `dock_sessions` | Reachable, noticed, drawn in order; closed shells reaped, subscribers told? | 2 clients, 1 session, 1 chunk: one client acts on what the other ends; sessions touch each other only through the map and the shared SIGCHLD; fair |
| `rebuild` | Is nothing lost, whatever fails, crashes or is cleaned up meanwhile? | 1 rebuilder, 3 rebuilds in a row (one to fail, one to find the leftovers, one to follow that), 3 writes |
| `gui_client` | Is the current connection served, does an answer mean it ran, does every command return? | 2 requests, 2 connections: one replaced by another under a request's feet, an answer to the first attempt that comes during the second; fair |
| `gui_terminals` | Has every shell a panel, is an exit on its way? | 2 panels, 2 streams, 3 attachments (one re-attached), 1 waiting output frame, 1 broken connection, restart or closed window; a list that fails at any time |
| `server_host` | Is the list of processes true, does the shutdown pass over nothing and end, is every exit recorded, where do edits go? | 2 connections, 2 processes, one of them launched at the start, 2 ids: an id given out again needs two processes; 1 edit; a `kill(1)` that fails at any time; fair |
| `config_store` | Is what was set kept, do halves agree, does what is listed start? | 2 commands at once, 2 custom and 2 scanned applications, 3 events (commands begun, requests sent again or given up, deaths, closed windows, outside changes): a command, its request sent again, and another command. Commands about different stores share nothing, so a behaviour mixes at most two aspects (`Mixes`) |
| `environment` | Does the registry tell the truth, does a failed creation take back its own, are removals complete, do commands fail only for cause? | 1 name, 1 volume, 2 configurations, 2 commands out of all 39 (those of `MCOverlapping` may overlap), 1 failure, lost answer, kill, reboot or removal by hand |
| `provision` | Do runtime directories keep their owners, do the user's words win, do host, program and server agree, does the link lead to the cookie of the host's present session? | Two kinds of behaviour (`Apart` of `MCProvision`). With no cookies: 9 configurations (seven of the nine pairs of modes, the other two have the Wayland half of pairs that are in; users, mounts and networks), 2 hosts, 3 images, 2 commands, 2 failures: a change of configuration is a command after a command. With cookies: 8 places for the link (none, the program's, the user's, and those where it looks like a cookie), 2 hosts, 1 image, 2 files of sessions (one of them a former session's) and one of the container's display, 2 commands, links that cannot be written at any time, no other failures |
| `provision_direct` | Is a `direct` container's runtime directory spared, as `incontainer.rs:540-544` says? No | 2 configurations, 1 host, 1 image, 2 commands |

What the passing properties do not say:

* *Terminals.* Output that a terminal produces between the replay and the subscription of an
  attachment never reaches the attacher (`AttachedSeesTheRest` says that nothing else is lost).
  `ExitIsReported` is about who is subscribed when the exit is announced: who attaches between
  the clearing of the subscribers and the removal of the session is told nothing.
  `ListedSessionIsWatched` excuses the panic at `pty.rs:309`. With a child that does not read its
  input a close waits for ever behind the guard held at `pty.rs:680` (`TasksReturn` assumes it
  reads).
* *Dock.* `DaemonsSpareEachOther` is about daemons; a bootstrap's unlink is excepted.
  `ExitIsHeard` is about who is subscribed when the exit is broadcast.
* *Rebuild.* `NoWriteIsLost` counts what is written in the container that bears the environment's
  name, and what is written in a new one from the moment it takes that name. When the renaming
  fails, or the network of the new container does, the user goes on in `<name>_tmp`; unless
  somebody renames it by hand, as the error asks for, step 0 of the next rebuild deletes it with
  what was written in it (`WriteInTmp`; `rebuild_lost`). Writes made after a slow rebuild's commit
  by a user who starts the stopped container go with it, and with two rebuilds of one environment
  at once, which nothing excludes, the property is false.
* *Host.* `ListingIsTrue` and `NothingListedSurvives` except the process that got an id whose last
  holder's exit was not recorded yet (`heir`); the latter, too, those the shutdown ran `kill(1)`
  for in vain (`missed`), which is only logged. `EditsGoToTheRegistered` lets an edit lie in the
  channel of a connection that is unregistered and still closing its terminals; it goes with it.
* *Stores.* `SetIsKept` lets two handlers in one temporary path, and a kill inside the rewriting of
  icon paths, tear a file (`mixed`). A request that is sent again, or given up, may be carried out
  late from the old connection (`ReadLate`): for the property it is one more change at that moment,
  so that it may undo what was set since, in the code as in the model.
* *Window's terminals.* `EveryShellHasItsPanel` excepts the shells given up (`stray`): the list of
  terminals could not be had when the window opened (`WorkerView.tsx:183`), the panel was closed
  before it was rendered with its stream (`:393`), `pty_close` failed, or the server carried out a
  request of a window that was gone. `ExitIsUnderway` excepts the frame the merge loop drops
  (`swallowed`, `pty.rs:177`) and the panel that attached between the announcement of the end and
  the removal (`deaf`).
* *Environments.* `RegistryTellsTheTruth` is between commands none of which was cut after it had
  changed the container (`unsure`). `FailedCreateTakesBackItsOwn` speaks of volumes found missing
  and volumes there all the time since the command began: one somebody else makes after the look
  is deleted with the rest (`mod.rs:513-527`), one the creation made after a look that failed
  stays (`:484`), an empty socket directory that was there goes (`:500-510`), and the engine's
  error taken for "missing" costs the user's data (`lied`; `environment_volume`).
  `FailsOnlyForCause` has as causes an unforced removal of a running container and whatever the
  engine refuses; `RemovedMeansGone` speaks of removals that succeed and do not overlap.
* *Preparation.* `UserWins` excepts mounts whose targets are written with variables, and of several
  mounts on one target says that one of his is taken. `IdentityAgrees` excepts an inherited
  `EASYTIDY_USER_NAME`; the model counts an empty home field of `passwd` as a home, where
  `incontainer.rs:79` and `286` take it for none. `RuntimeDirsAreRight` does not speak of the mode
  of `/tmp/.X11-unix`. `CookieIsFollowed` needs the host's cookie to be the only file the probe can
  take for one: with a file left by a former session, one of a display of the container's own, or
  the link itself (where the user has placed it in a runtime directory under such a name,
  `setup.rs:298-302` takes it for the cookie), whichever is listed first is taken
  (`incontainer.rs:155-168`). It also needs the link to have been written: a failure is only logged
  and the target remembered (`setup.rs:236-250`, `310`), so that it is not tried again before the
  cookie is another.

## Where the code and its comments disagree

One finding is listed, `provision_direct`: a `direct` container rebuilt from a `bypass`
one inherits `HOST_XDG_RUNTIME_DIR`, by which preparation tells the two apart, so that it changes
owner and mode of the host's own runtime directory (`incontainer.rs:563`, `gui.rs:407-411`).
Further configurations, outside the list of runs, each end in a counterexample to one
sentence of the source:

| Configuration (module) | The sentence, and what happens |
|---|---|
| `pty_leak` (PtyService) | `connection.rs:168`, the process of a temporary terminal ends with its connection: it need not |
| `pty_panic` (PtyService) | `pty.rs:650`, a shell whose writer was shut down is reaped: not if a close came before the unwrap at `pty.rs:309` |
| `dock_orphan` (DockStartup) | `daemon.rs:65-70`, a serving daemon's file is safe from later starters: not from a bootstrap (`bootstrap.rs:41`) |
| `dock_hang` (DockSessions) | `daemon.rs:574`, a client leaves when its session is over: not if it subscribes after the exit was broadcast (`daemon.rs:513`) |
| `rebuild_lost` (Rebuild) | `mod.rs:1360-1361`, `1462-1463`, the live copy a failed rename leaves is kept: step 0 of the next rebuild deletes it (`mod.rs:1337`) |
| `server_edit` (ServerHost) | `router.rs:271-273`, terminals' connections do not want events: they declare what every GUI connection declares (`socket.rs:131-134`) and may be given the edit |
| `environment_prefix` (MCEnvironment) | `lib.rs:36-43`, a socket's path depends on the name alone: the directory of `dev-test` counts as one of `dev` (`lib.rs:66`) |
| `environment_volume` (MCEnvironment) | `mod.rs:480-481`, the clean-up of a failed creation deletes no volume the user already had: it asks the engine before, and an answer 500 counts as "there is no such volume" (`volume.rs:106`), so that an error there and a failure later delete the volume with its data |
| `environment_gone` (MCEnvironment) | `configfile.rs:144-150`, the old registry is migrated once: while the oldest file is there it is copied again in every process (`appdata.rs:140`), and a removed environment is registered anew |

Met while reading and not stated as properties: a container whose `user_name` was cleared
keeps `EASYTIDY_USER_NAME` from its image (`IdentityAgrees` excepts it); the accounts of an
image are cached under its name for the life of a process (`pathvars.rs:189`); `restart` does
not prepare, against the comment at `mod.rs:1953-1957`; two processes may both start the engine's service, and the
second one removes the first one's socket (`mod.rs:199`, in `Environment` as `Spawn`).

## Fairness

* `PtyService`: a task that can run is polled and a thread is scheduled. Strong fairness for
  connection tasks, reader threads and delivery, because tokio's RwLock queues fairly and
  `select!` polls its branches in random order; weak fairness that a shell exits whose input
  has ended. `ChildrenReadInput` (a PTY write does not block for ever) is a separate conjunct
  and an assumption about children.
* `DockSessions`: weak fairness of handlers, reader threads, delivery and the cleanup task,
  and of the exit of a shell that got SIGHUP. No client is obliged to leave.
* `DockStartup`: a process that can take its next system call takes it; nobody is obliged to
  call bootstrap or to stop a daemon.
* `GuiClient`: a request's task and the late steps of readers and keep-alives are strongly
  fair, since they wait for a mutex of tokio, which is handed over in order, and since the
  wait for an answer has a timer. The handshake (`socket.rs:150-154`) and the sending (`:349`) have
  none: that they end, well or with a broken connection, is an assumption. A reader takes what is there; the server works through its frames. That it
  answers within 30 s, or stays up, is not assumed.
* `ServerHost`: main, the insertion after a launch and the wait tasks are weakly fair. Nobody
  has to connect, ask, or end. A shutdown asked for by a client only sets a
  flag, which the accept loop (`main.rs:332-354`) reads when the next connection comes:
  `ShutdownEnds` is about what follows from there, or from a signal.
* `Rebuild`, `GuiTerminals`, `ConfigStore`, `Environment`, `Provision`: safety only, none.

## Proofs

The theorems hold for all values of the constants: any number of connections, terminals,
chunks, panels, daemons, clients, requests, processes, ids, tags and writes. The only
assumptions are the named ones on the constants (bounds are naturals, a panel has at least one
attachment to make, `NoConn`, `Nobody`, `NoOp`, `NoPid` and `None` are none of the things they
stand in for, no file and half a file are told from every content (`Absent`), nobody chooses an
icon below the directory older versions used (`Chosen`: a picker offers files there are, and the
server has renamed that directory), configurations name volumes there are, commands are commands
of `Handler`; in `Provision`, what a process finds in its environment has no variables left to
expand (`HostsAre`), modes are the three that `models.rs` writes and no user is named `/`
(`ConfigsAre`), an image gives a name, and the user's number, to one account and names none by a
number (`ImagesAre`: `passwd` as `useradd` keeps it), and cookies and the literals of the module are
strings (`CookiesAre`, `Strings`, which TLA+ has and the prover lacks)), and, where it says so, `Alone` of `Rebuild`, `Kin = {}` or removals that do not overlap.

* `PtyServiceProofs`: `IInv` is `TypeOK` with the *bookkeeping*: what an opener has spawned
  and not handed over is known to it alone (`OpenerAlone`), nothing refers to an id not issued
  (`IssuedOnly`), temporary and persistent sessions are not confused (`KindsAgree`).
  `DefaultTerminalIsReal` is not inductive without these, since the default is registered
  before its session is inserted and withdrawn after it is removed. From it follow
  `DefaultIsReal`, `ListedIsWatched`, `PersistentStays` and, step by step with the same
  invariant, that the service implements `TerminalRegistry` (`Implements`).
  What a client draws needs a second invariant on top, `CInv`: every chunk drawn or under way
  is in the ring (`Bounded`); how far the first open of a connection has come is what it is
  subscribed to, owns and has in its channel (`FirstOpen`); the last chunk in the channel of a
  subscriber is the last one sent (`EndsWith`, in `OneOpenView`); a temporary terminal has an
  owner that will end it (`OwnerAnswers`). A frame changes a channel in two ways, at its head
  (delivered) or at its end (sent), and the predicates on channels speak of positions, so that
  one lemma for each way serves all of them. A step is then the acting connection's own, with
  a lemma per action, or one the connection looks on at (`OnlookerKept`, `ReaderView`). Hence
  `OwnerSees`, `AttachedSees` and `TemporaryGoes`.
* `ServerHostProofs`: `RunningIsListed` is not inductive: whether the wait task of an older
  process marks a younger one's entry depends on who has whose id. `ProcessesAgree` says that
  ids of what the kernel keeps are unique and how far a wait task is; `InsertsAgree` that the
  process a launch is about to insert is nobody else's; `HeirsAreKnown` names whoever has the id
  of an unrecorded exit; `RecordedIsExited` keeps `told` true. `KillsAreDue` (from the moment
  the shutdown kills, what is listed and runs is still to be killed or was tried in vain) gives
  `NothingListedSurvives`; `EditsAgree` ties edits in hand to connections, registered or
  unregistered since, for `EditsGoToTheRegistered`.
* `GuiProofs`, first half: `ClientInv`. `Bookkeeping` says who holds the mutex and which connections exist; with
  it, `CurrentIsServed` (no connection is current that nobody serves or is about to clear),
  `WaitersAreRegistered` and `AnsweredHasRun` are inductive together, and
  `OnlyItsOwnClearsIt` follows step by step. `AnsweredOnce` counts: the places a request has in
  the channels to the server, and the times it ran, are together at most its tries, and fewer
  until the last try is sent (`Counted`). A frame the server takes leaves its place (the other
  places of its channel move by one, an injection) and is counted as run; a broken connection
  only loses places.
* `DockProofs`, first half: `StartupIInv` says that the flock's holder is the only daemon past it,
  and that the file is its own or a killed daemon's. That no two daemons are between unlink and
  bind gives `BindAlone` and `SpareEachOther`. (`DockStartup` and `GuiClient` prefix their `Init`, `Next` and
  `Spec` so that one module can prove about both halves of a program.)
* `DockProofs`, second half: most actions are one of three shapes (a handler moves, a reader moves,
  sessions are hung up), with a lemma each. `RunningIsReachable` needs `DeadIsOver` (a sweep
  drops only what is over), which needs `EndsInOrder`. `DInv` adds that whoever watches a
  session is subscribed to it (`Subscribed`) and that the last frame under way to it carries
  the last chunk sent (`UpToDate`); as an action sends nothing, ends a handler, or sends one
  frame to all subscribers of a session, chunks stay consecutive (`InOrder`).
* `GuiProofs`, second half: that every shell has its panel is inductive only with an account of
  where a session is while no panel shows it (`Claimed`: about to be bound, its answer lost, to
  be closed, or given up), with the ids known to differ before a restart (`Fresh`, `Apart`), and
  with what a panel and an attachment know of each other (`PanelInv`, `AttInv`). A panel's claim is
  to the stream it will be rendered with once React has caught up (`Latest`), so that rendering
  changes nothing. For exits, `Announced` (an ended session's notice waits, was read, was swallowed,
  or came before the attachment) and `Listens` (an open panel shows the stream of its newest
  attachment). Restoring may take the server's list in any order, or none. Hence `ShellsHavePanels`
  and `ExitsArrive`.
* `RebuildProofs`: `AnyInv` needs no assumption and gives `ForeignStays` (a container of the
  user's under the temporary name is never touched) and `NewestStays` (a plan only has images
  older than one that exists, and this survives other deletions, since "older than" is
  transitive). `EnvHasAll` and `MidwayHasAll` need `Alone`, one rebuild at a time: the
  environment's container, or the last image, has every write counted, and so has what is left
  under the temporary name when the environment's container is gone, which is why it may take the
  name; a rebuild between its commit and its rename has a complete image and a complete new
  container. From them follow
  `NothingIsLost`, `OldIsReplaced` and `OkIsTrue`.

* `EnvironmentProofs`: the theorems are for any set of names, volumes and configurations, any
  commands out of the 39 (`Ops`), and any that may overlap. What a command may still do to the
  world is read off the rest of its script: `Planned` says that scripts are in order
  (`InOrder`), that a creation has its registration ahead of it, that one that has changed the
  container neither creates nor rebuilds again, that what is doomed only clears up, and that a
  removal is nothing else. `HandlerHandles` shows this of every handler, put together from its
  pieces as the handlers are (`Join`). `Truth` (registered is what the container was made from,
  and so is what an old registry would give it) holds of every name, or a busy command that has
  changed the container is about to register it (`Honest`, `Registers`); `Makes` says that what a
  creation made is not what it found. A step changes the record of one worker in one of a few
  ways (`Moves`: it passes, fails, turns to undoing, or has more to do first), and one lemma per
  way and per shape of change (`QuietKeeps`, `StepKeeps`, `RegistryKeeps`, `MakesKept` ...)
  serves all actions. Hence `RegistryTrue` and, step by step, `TakesBack`. `RemovedGone`
  assumes that removals do not overlap other commands, as `MCOverlapping` does, with `Alone`
  and `Clears` (what a removal is past, is gone); `FailsForCause` assumes `Kin = {}`, no name a
  hyphen and more than another, without which `lib.rs:66` makes it false, with `Housed` (what
  runs, or is about to be started, has its directory). `IInv`, `Housed`, `Alone` and `Clears`
  were checked with TLC on the instance of `environment` before they were proved; no run
  repeats that. To be proved about, `Environment` has the volumes a clean-up or `volume rm`
  deletes leave what other commands have `seen` (`Vanish`): `seen` are those that were there
  all the time since the command began.

* `ConfigStoreProofs`: nine parts are inductive together, and `Lates`. `Work`: what is left of a command is a
  rest of its steps, and a handler works for a command at the step it serves, or for one given up.
  `Company`: of two commands about one thing neither is `alone`, and the thing stays in disorder
  (`stale`) as long as they last. `Writes`: a handler of a store nobody has mixed shares its
  temporary path with nobody (`Sole`), so that a rename moves what it was given to write. `Kept`
  says why files hold what they should: what older versions left is still there or has been moved
  (`Old`), a file that nothing tore holds what is wanted (`Held`), the text of a rewriting in
  progress is what is wanted with new icon paths (`Renewed`), a command that runs alone has its
  new passthrough.toml computed from the file as it is now (`Read`, `Sent`), and a handler of
  config.json has merged its key into the file as it is now (`Merges`). `Boots`, `Mirrors` and
  `Lists` tie how far a change of the automatic start, of the icon, or a scan has come to the two
  halves it changes. `Lates` says that a request left on an old connection is one some command could make, with a text
  that fits its store. The sending again, the giving up and the late reading are shown apart
  (`SentIInv`, `GivenIInv`, `LateIInv`): none touches a file, and what runs about the same thing is
  no longer `alone`. For the others the parts use one another only in that order, each has a lemma
  that it is kept, and a step of a command has one of six shapes (`StepShapes`: it goes on without a handler,
  opens one of the three temporary files, fills it, renames it), so that each part is shown per
  shape and not per action. Hence `SetIsKept`, `HalvesAgree` and `ListedResolves`, for any number
  of commands in flight, applications and events. `IInv` was checked with TLC on the instance of
  `config_store` before. The attempt corrected the model's history: a launch that only reads the
  registry had counted as putting it in order (`Wrote`), which four events are enough to refute.

* `ProvisionProofs`: the first half is about the functions. What folds over the entries of a rule
  book is written as a recursive function of the number of entries done; since no induction rule
  with a predicate as its parameter can be used, a lemma that must hold after every entry takes the
  least number at which it would fail (`NatMin`, from the well-foundedness of the naturals).
  `Follows` is the relation kept from entry to entry: variables and mounts are only added, never in
  a place that is taken, and texts stay texts. A rule adds little, so that each of the six sections
  is described by what it may add (`DirectRules`, `BypassRules`), and `PassesOn` says what the whole
  passing on leaves of what the user has declared: all of it, and that a bypass container has both
  names of the runtime directory, neither empty unless the user says so. `MadeWell`
  carries this through the expansion of paths and the dropping of doubles (`LastIsTaken`) to the
  container (`WellMade`: `Wins`, `Told`, `Placed`). Then accounts: at most one has the user's
  number and a placeholder shares its name with nobody (`OneAccount`), which the engine's placeholder
  and the rewriting keep (`BootedIs`, `RewrittenIs`), so that taking out every line of a name takes
  out one line. `IInv` is `Typed`; `InStep`, the rest of the command in hand is one of twelve, and
  what it implies of the container; `Life`, what runs when; `AccountsKept` and `SameUser`, whose home
  is the same before and after a rewriting, a placeholder having none; `Prepares` and
  `Prepared`, how far preparation has come and that what has ended well stays so until a fault, a
  start or a rebuild; `NothingAstray`, without faults what is astray waits for a first preparation
  that is still to come; `Spared`; and `Followed`, which says that what the watcher remembers is
  where the link leads, or the link's own place, unless it could not be written (`Remembered`). Hence `RuntimeDirsAreRight`, `UserWins`, `IdentityAgrees` and
  `CookieIsFollowed`, whatever configurations, hosts, images and failures there are. `IInv` was
  checked with TLC on the instance of `provision` before. To be proved about, `Provision` keeps the
  place of a line taken out of `passwd`, as one with nothing in it.

Only model-checked: everything under fairness (`CloseReclaims`, `ExitIsReported`,
`TasksReturn`, `BootstrapReturns`, `ExitIsHeard`, `RequestsReturn`, `ExitsAreRecorded`,
`ShutdownEnds`) and what needs `ENABLED`, which the prover does not handle. Every invariant that a
passing run checks is proved.

## Not modelled, and why

* *Computation over text*: frames of the protocol, entries and units, templates and flavours,
  icons, rebuild references, asset look-up. Nothing interleaves; the models take a frame, an
  entry or a rule book as a whole.
* *Requests that are one operation*: files, previews, categories, logs, `pty.cwd`, `rc.list`,
  pulling and removing images, forced removal of volumes.
* *The podman event stream* feeds displays only, and the rendering half of the front end shows
  what the commands return. `ets` sends single requests.
* *The window's root terminal* (`gui/src/commands/root.rs`) is a client of `DockSessions`, which
  has clients that come, go and close in any order; its own table is not modelled.
* *A window's panels* of a container that does not run, and terminals that other programs open or
  close on the same server.
* *In part only*: the windows' flock (`guilock.rs`), the completion of `XDG_DATA_DIRS` and the
  variables reported by `server.env` (`setup.rs`), HTTP's encoding and the output of `exec`
  (`podman/http.rs`). In `Rebuild`, a request that the engine completes only after the process
  that sent it has crashed. In `Provision`, the cache of images' accounts.
* *Two rebuilds at once*: `Rebuild` allows them, and `ForeignIsKept` and `NewestBackupStays` are
  proved for any number; the run has one, as the rest is false with two.

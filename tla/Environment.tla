----------------------------- MODULE Environment -----------------------------
(***************************************************************************)
(* The life of environments on the host: what the commands of the window   *)
(* (crates/gui/src/commands) and of the command line (crates/cli) do to    *)
(* containers, volumes, socket directories, the registry of configurations *)
(* and the desktop entries, through crates/core.                           *)
(*                                                                         *)
(* A handler is a script: the steps it takes in order, each an engine      *)
(* request or a change of a file.  A step that must succeed ends the       *)
(* command when it fails; of one that may fail only a line is logged.      *)
(* A request may fail without effect, or take effect and be reported as    *)
(* failed; a process may die between two steps; the user removes           *)
(* containers behind the program's back and reboots.                       *)
(*                                                                         *)
(* What happens inside a rebuild is the subject of Rebuild, what a         *)
(* container is prepared with that of Provision.                           *)
(***************************************************************************)
EXTENDS Naturals, Sequences, FiniteSets

CONSTANTS Names,     \* names of environments
          Kin,       \* pairs <<n, m>>: the name m is n, a hyphen and more
          Volumes,   \* names of volumes
          Configs,   \* configurations: records [vols : SUBSET Volumes, ...]
          Gui, Cli,  \* the processes that carry out commands
          Legacies,  \* where older versions may have left their registry: "none", "home", "xdg"
          Ops,       \* bound: the commands of a run,
          Overlapping, \* and those of them that may run while another does
          None,
          MaxCommands, MaxFaults \* bounds

ASSUME EnvironmentAssumption ==
    /\ Kin \subseteq Names \X Names
    /\ Configs # {} /\ None \notin Configs /\ None \notin Names
    /\ \A c \in Configs : c.vols \subseteq Volumes
    /\ MaxCommands \in Nat /\ MaxFaults \in Nat

Workers == {Gui, Cli}

VARIABLES
    box,     \* name -> container: its state and the configuration it was made from
    spare,   \* names n with a container n_tmp that a failed rebuild left
    reg,     \* name -> registered configuration, None if there is no file
    home, xdg, \* names in ~/.easytidy/config.toml and in $XDG_CONFIG_HOME/easytidy/config.toml
    sock,    \* name -> socket directory on the host: "none", "empty", "used"
    entry,   \* names with a desktop entry
    icons,   \* names with a directory of icons
    vol,     \* volume -> is there, bears the label of easytidy, holds data
    engine,  \* the engine service: its socket file, services about to bind it
    work,    \* worker -> the command in hand
    fresh,   \* workers that have not looked for the old registry yet
    raced,   \* history: names on which two commands overlapped
    unsure,  \* history: names whose container a failed or cut command had changed
    begun, faults

world == <<box, spare, reg, home, xdg, sock, entry, icons, vol>>
past == <<raced, unsure, begun>>
vars == <<world, engine, work, fresh, past, faults>>

NoBox == [st |-> "none", cfg |-> None]
Exists(n) == box[n].st # "none"
Runs(n) == box[n].st = "running"

-----------------------------------------------------------------------------
(* The handlers *)

Must(s) == [do |-> s, must |-> TRUE]
May(s)  == [do |-> s, must |-> FALSE]

\* Podman::connect, Podman::start, create_with_config_named and the pieces of a removal.
Connect == <<Must("probe")>>
Starting == <<Must("sockdir"), Must("start"), May("open"), May("prepare")>>
Creating == <<Must("prescan"), Must("mkdir"), Must("volumes"), Must("create")>>
\* Mutant: the volumes stay.
Undoing_Dir == <<May("check"), May("undir")>>
Undoing == <<May("check"), May("undir"), May("unvol")>>
Getting == <<Must("open"), Must("read")>>
Registering == <<Must("open"), Must("register")>>
Unregistering == <<Must("open"), May("unregister")>>
Making == Connect \o Creating \o Starting \o <<May("prepare")>>

env_new == Making \o <<Must("open"), May("picture"), Must("register"), May("entry"), May("window")>>
cmd_create == Making \o <<Must("open"), May("register")>>
cmd_env_new == Making \o Registering
cmd_flavor_apply == Making \o <<Must("setup")>> \o Registering

start_container == Connect \o Starting
stop_container == Connect \o <<Must("stop")>>
restart_container == Connect \o <<Must("sockdir"), Must("restart")>>

\* Mutant: the socket directory stays.
env_rm_Kept == Connect \o <<Must("remove")>> \o Unregistering \o <<May("desktops")>>
env_rm == Connect \o <<Must("remove")>> \o Unregistering \o <<May("desktops"), May("sockets")>>
remove_container == Connect \o <<Must("remove"), Must("open"), Must("unregister"),
                                 May("desktops"), May("icons"), May("sockets")>>

env_rebuild == Getting \o Connect \o <<Must("rebuild"), May("prepare")>>
cmd_rebuild == Getting \o Connect \o <<Must("rebuild"), May("prepare"), Must("register")>>
\* Mutant: the new configuration is registered first.
apply_container_config_Early == Connect \o Registering \o <<Must("rebuild"), May("prepare")>>
apply_container_config == Connect \o <<Must("rebuild"), May("prepare")>> \o Registering

env_list == Connect \o <<Must("list"), May("open")>>
inspect_container == Connect \o <<Must("list")>>
container_failure_info == Connect \o <<Must("list"), May("logs")>>
env_copy_config == Getting
get_container_config == Getting \o Connect \o <<May("list")>>
env_snapshot == Connect \o <<Must("commit")>>

cmd_boot == Connect \o <<Must("ensure"), Must("ready"), May("window")>>
cmd_open == Connect \o <<Must("ensure"), Must("ready"), May("open"), May("window")>>
cmd_run == Connect \o <<Must("ensure"), Must("ready"), Must("exec")>>
cmd_run_root == Connect \o <<Must("ensure"), Must("exec")>>
cmd_launch == Connect \o <<Must("list"), Must("ensure"), Must("ready"), Must("exec")>>

\* Volumes by hand.
cmd_volume_ls == Connect \o <<Must("list")>>
cmd_volume_create == Connect \o <<Must("volume")>>
cmd_volume_rm == Connect \o <<Must("unmade")>>

\* The same by other ways.
env_start == start_container
cmd_start == start_container
cmd_env_start == start_container
env_stop == stop_container
cmd_stop == stop_container
cmd_env_stop == stop_container
cmd_restart == restart_container
cmd_rm == env_rm
cmd_env_rm == env_rm
cmd_env_snapshot == env_snapshot
cmd_list == inspect_container
cmd_env_list == inspect_container
cmd_inspect == get_container_config

Handler ==
    [env_new |-> env_new, cmd_create |-> cmd_create, cmd_env_new |-> cmd_env_new,
     cmd_flavor_apply |-> cmd_flavor_apply,
     start_container |-> start_container, env_start |-> env_start, cmd_start |-> cmd_start,
     cmd_env_start |-> cmd_env_start,
     stop_container |-> stop_container, env_stop |-> env_stop, cmd_stop |-> cmd_stop,
     cmd_env_stop |-> cmd_env_stop,
     restart_container |-> restart_container, cmd_restart |-> cmd_restart,
     env_rm |-> env_rm, cmd_rm |-> cmd_rm, cmd_env_rm |-> cmd_env_rm,
     remove_container |-> remove_container,
     env_rebuild |-> env_rebuild, cmd_rebuild |-> cmd_rebuild,
     apply_container_config |-> apply_container_config,
     env_list |-> env_list, inspect_container |-> inspect_container,
     container_failure_info |-> container_failure_info, cmd_list |-> cmd_list,
     cmd_env_list |-> cmd_env_list, get_container_config |-> get_container_config,
     env_copy_config |-> env_copy_config,
     cmd_inspect |-> cmd_inspect,
     env_snapshot |-> env_snapshot, cmd_env_snapshot |-> cmd_env_snapshot,
     cmd_boot |-> cmd_boot, cmd_open |-> cmd_open, cmd_run |-> cmd_run,
     cmd_run_root |-> cmd_run_root, cmd_launch |-> cmd_launch,
     cmd_volume_ls |-> cmd_volume_ls, cmd_volume_create |-> cmd_volume_create,
     cmd_volume_rm |-> cmd_volume_rm]

ASSUME OpsAssumption == Ops \subseteq DOMAIN Handler

OfGui == {"env_new", "start_container", "env_start", "stop_container", "env_stop",
          "restart_container", "env_rm", "remove_container", "env_rebuild",
          "apply_container_config", "env_list", "inspect_container",
          "container_failure_info", "get_container_config", "env_copy_config", "env_snapshot"}
Removals == {"env_rm", "cmd_rm", "cmd_env_rm", "remove_container"}
\* The removals whose caller says whether a running container is to be removed, too.
Forces(op) == IF op \in {"cmd_rm", "remove_container"} THEN BOOLEAN ELSE {TRUE}
\* The commands that come with a configuration of the user's.
Given == {"env_new", "cmd_create", "cmd_env_new", "cmd_flavor_apply", "apply_container_config", "cmd_volume_create", "cmd_volume_rm"}

-----------------------------------------------------------------------------
(* A worker and its script *)

Idle == [script |-> <<>>, removal |-> FALSE, force |-> TRUE, overlaps |-> FALSE, name |-> None, cfg |-> None,
         mine |-> {}, seen |-> {}, had |-> FALSE, hurt |-> FALSE, torn |-> FALSE, lied |-> FALSE,
         touched |-> FALSE, doomed |-> FALSE, status |-> "idle"]

Busy(w) == work[w].script # <<>>
At(w, s) == Busy(w) /\ Head(work[w].script).do = s
On(w) == work[w].name

Done(r, st) == [Idle EXCEPT !.hurt = r.hurt, !.torn = r.torn, !.status = st]

\* The record after its first step has succeeded, and after it has failed.
Stepped(r) == IF Len(r.script) = 1 THEN Done(r, IF r.doomed THEN "failed" ELSE "ok")
              ELSE [r EXCEPT !.script = Tail(@)]
Failed(r) == LET s == Head(r.script) IN
             IF ~s.must THEN Stepped(r)
             ELSE IF \E i \in DOMAIN Creating : Creating[i] = s
                  THEN [r EXCEPT !.script = Undoing, !.doomed = TRUE]
                  ELSE Done(r, "failed")

Become(w, r) == work' = [work EXCEPT ![w] = r]
Advance(w) == Become(w, Stepped(work[w])) /\ UNCHANGED <<past, faults>>
Hurt(w) == [work[w] EXCEPT !.hurt = TRUE, !.torn = @ \/ work[w].doomed]
Blame(w, b) == unsure' = IF b THEN unsure \cup {On(w)} ELSE unsure

Fault == faults < MaxFaults /\ faults' = faults + 1

\* Fails, through no fault of the engine.
Refuse(w) ==
    /\ Become(w, Failed(work[w]))
    /\ Blame(w, work[w].touched)
    /\ UNCHANGED <<raced, begun, faults>>
\* Fails without effect; or has taken effect, which is not heard of.
Break(w) ==
    /\ Fault
    /\ Become(w, Failed(Hurt(w)))
    /\ Blame(w, work[w].touched \/ Head(work[w].script).do \in {"register", "unregister"})
    /\ UNCHANGED <<raced, begun>>
Unheard(w) ==
    /\ Fault
    /\ Become(w, Failed(Hurt(w)))
    /\ Blame(w, TRUE)
    /\ UNCHANGED <<raced, begun>>
\* As Advance, of a step that has changed the container.
Changed(w) == Become(w, Stepped([work[w] EXCEPT !.touched = TRUE])) /\ UNCHANGED <<past, faults>>

Lost(w) == Break(w) /\ UNCHANGED world

Begin(w, op, n, c) ==
    /\ ~Busy(w)
    /\ begun < MaxCommands
    /\ \A o \in Workers : Busy(o) => op \in Overlapping /\ work[o].overlaps
    /\ begun' = begun + 1
    /\ \E force \in Forces(op) :
          Become(w, [Idle EXCEPT !.script = Handler[op], !.name = n, !.cfg = c,
                                 !.removal = op \in Removals, !.force = force, !.overlaps = op \in Overlapping,
                                 !.had = op \in Given /\ sock[n] # "none",
                                 !.seen = {v \in c.vols : vol[v].there}, !.status = "busy"])
    /\ raced' = IF \E o \in Workers : Busy(o) /\ On(o) = n THEN raced \cup {n} ELSE raced
    /\ fresh' = IF w = Cli THEN fresh \cup {Cli} ELSE fresh
    /\ UNCHANGED <<world, engine, unsure, faults>>

Die(w) ==
    /\ Busy(w)
    /\ Fault
    /\ Become(w, Idle)
    /\ fresh' = fresh \cup {w}
    /\ Blame(w, work[w].touched)
    /\ UNCHANGED <<world, engine, raced, begun>>

-----------------------------------------------------------------------------
(* The engine service: Podman::connect, ensure_fork_service *)

\* file: "none", "dead" (nobody listens), "live".
Own(w) == UNCHANGED <<world, fresh>>

Probe(w) ==
    /\ At(w, "probe")
    /\ \/ engine.file = "live" /\ Advance(w)
       \/ /\ engine.file # "live"
          /\ Become(w, [work[w] EXCEPT !.script = <<Must("spawn"), Must("await")>> \o Tail(@)])
          /\ UNCHANGED <<past, faults>>
       \/ w = Gui /\ Advance(w)  \* the connection kept from the last command
    /\ Own(w) /\ UNCHANGED engine

\* It removes the file, whatever it is by now, and starts a service.
Spawn(w) ==
    /\ At(w, "spawn")
    /\ engine' = [engine EXCEPT !.file = "none", !.coming = @ + 1]
    /\ Advance(w) /\ Own(w)

Await(w) ==
    /\ At(w, "await")
    /\ \/ engine.file = "live" /\ Advance(w)
       \/ Fault /\ Become(w, Stepped(Hurt(w))) /\ UNCHANGED past  \* the system's service instead
       \/ Break(w)                                               \* there is none
    /\ Own(w) /\ UNCHANGED engine

\* The service that was started binds its socket, or ends because the path is taken.
Bind ==
    /\ engine.coming > 0
    /\ engine' = IF engine.file = "none"
                 THEN [engine EXCEPT !.file = "live", !.coming = @ - 1]
                 ELSE [engine EXCEPT !.coming = @ - 1]
    /\ UNCHANGED <<world, work, fresh, past, faults>>

-----------------------------------------------------------------------------
(* Socket directories: crates/core/src/lib.rs *)

\* Every directory whose name begins with n and a hyphen counts as one of n's.
Resolved(n) == {m \in Names : (m = n \/ <<n, m>> \in Kin) /\ sock[m] # "none"}
\* Where n's socket is looked for: the newest of them, n's own if there is none.
SocketPaths(n) == IF Resolved(n) = {} THEN {n} ELSE Resolved(n)

\* ensure_socket_dir
\* Mutant: the directory is taken for granted.
SockDir_Granted(w) ==
    /\ At(w, "sockdir")
    /\ Advance(w) /\ UNCHANGED <<world, engine, fresh>>
SockDir(w) ==
    /\ At(w, "sockdir")
    /\ \/ /\ \E m \in SocketPaths(On(w)) :
                sock' = [sock EXCEPT ![m] = IF @ = "none" THEN "empty" ELSE @]
          /\ Advance(w)
          /\ UNCHANGED <<box, spare, reg, home, xdg, entry, icons, vol>>
       \/ Lost(w)
    /\ UNCHANGED <<engine, fresh>>

\* remove_socket_dirs
Sockets(w) ==
    /\ At(w, "sockets")
    /\ \/ /\ sock' = [m \in Names |-> IF m \in Resolved(On(w)) THEN "none" ELSE sock[m]]
          /\ Advance(w)
          /\ UNCHANGED <<box, spare, reg, home, xdg, entry, icons, vol>>
       \/ Lost(w)
    /\ UNCHANGED <<engine, fresh>>

-----------------------------------------------------------------------------
(* Creating: create_with_config_named, create_inner *)

\* The volumes that are not there; a failed look says they are, an answer other
\* than 2xx says they are not.
\* Mutant: no look, all of them count as made here.
Prescan_None(w) ==
    /\ At(w, "prescan")
    /\ Become(w, Stepped([work[w] EXCEPT !.mine = work[w].cfg.vols]))
    /\ UNCHANGED <<world, engine, fresh, past, faults>>
Prescan(w) ==
    /\ At(w, "prescan")
    /\ LET absent == {v \in work[w].cfg.vols : ~vol[v].there} IN
       \/ Become(w, Stepped([work[w] EXCEPT !.mine = absent])) /\ UNCHANGED faults
       \/ Fault /\ Become(w, Stepped([work[w] EXCEPT !.mine = {}, !.hurt = TRUE]))
       \/ Fault /\ Become(w, Stepped([work[w] EXCEPT !.mine = work[w].cfg.vols, !.lied = TRUE]))
    /\ UNCHANGED <<world, engine, fresh, past>>

\* image_exists and create_socket_dir.
Mkdir(w) ==
    /\ At(w, "mkdir")
    /\ \/ /\ sock' = [sock EXCEPT ![On(w)] = IF @ = "none" THEN "empty" ELSE @]
          /\ Advance(w)
          /\ UNCHANGED <<box, spare, reg, home, xdg, entry, icons, vol>>
       \/ Lost(w)
    /\ UNCHANGED <<engine, fresh>>

NoVolume == [there |-> FALSE, ours |-> FALSE, data |-> FALSE]
VolumesMade(vs, label) ==
    [v \in Volumes |-> IF v \in vs /\ ~vol[v].there
                       THEN [there |-> TRUE, ours |-> label, data |-> FALSE] ELSE vol[v]]

\* volume_ensure one by one; what the configuration asks for may also be refused here.
EnsureVolumes(w) ==
    /\ At(w, "volumes")
    /\ UNCHANGED <<box, spare, reg, home, xdg, sock, entry, icons, engine, fresh>>
    /\ \/ vol' = VolumesMade(work[w].cfg.vols, TRUE) /\ Advance(w)
       \/ \E made \in SUBSET work[w].cfg.vols : vol' = VolumesMade(made, TRUE) /\ Break(w)

\* The name may be taken; a volume that has gone since is made by the engine, without a label.
Create(w) ==
    /\ At(w, "create")
    /\ \/ /\ ~Exists(On(w))
          /\ box' = [box EXCEPT ![On(w)] = [st |-> "created", cfg |-> work[w].cfg]]
          /\ vol' = VolumesMade(work[w].cfg.vols, FALSE)
          /\ UNCHANGED <<spare, reg, home, xdg, sock, entry, icons>>
          /\ Changed(w) \/ Unheard(w)
       \/ Exists(On(w)) /\ Refuse(w) /\ UNCHANGED world
       \/ Lost(w)
    /\ UNCHANGED <<engine, fresh>>

\* After a failure: nothing is touched if there is a container of that name, or may be.
Check(w) ==
    /\ At(w, "check")
    /\ LET stop == Become(w, Done(Hurt(w), "failed")) IN
       \/ /\ IF Exists(On(w)) \/ On(w) \in spare THEN Become(w, Done(work[w], "failed"))
             ELSE Become(w, Stepped(work[w]))
          /\ UNCHANGED faults
       \/ Fault /\ stop
    /\ UNCHANGED <<world, engine, fresh, past>>

\* The socket directory goes if it is empty,
Undir(w) ==
    /\ At(w, "undir")
    /\ sock' = [sock EXCEPT ![On(w)] = IF @ = "empty" THEN "none" ELSE @]
    /\ Advance(w)
    /\ UNCHANGED <<box, spare, reg, home, xdg, entry, icons, vol, engine, fresh>>

Mounted(v) == \E n \in Names : Exists(n) /\ v \in box[n].cfg.vols

\* Volumes go, and have not been there all the time for any other command either.
Vanish(w, vs, r) ==
    /\ vol' = [v \in Volumes |-> IF v \in vs THEN NoVolume ELSE vol[v]]
    /\ work' = [u \in Workers |-> [(IF u = w THEN r ELSE work[u]) EXCEPT !.seen = @ \ vs]]

\* and of the volumes made here those with the label that nobody mounts.
Unvol(w) ==
    /\ At(w, "unvol")
    /\ LET orphans == {v \in work[w].mine : vol[v].there /\ vol[v].ours /\ ~Mounted(v)} IN
       \/ Vanish(w, orphans, Stepped(work[w])) /\ UNCHANGED <<unsure, faults>>
       \/ \E gone \in SUBSET orphans : Vanish(w, gone, Stepped(Hurt(w))) /\ Fault /\ Blame(w, work[w].touched)
    /\ UNCHANGED <<box, spare, reg, home, xdg, sock, entry, icons, engine, fresh, raced, begun>>

-----------------------------------------------------------------------------
(* Requests about a container *)

\* The container of the worker's name becomes c.
Turn(w, c) ==
    /\ box' = [box EXCEPT ![On(w)] = c]
    /\ UNCHANGED <<spare, reg, home, xdg, entry, icons, vol>>

\* start and restart: the socket directory is a mount and has to be there, and the
\* server puts its socket into it. The engine refuses to start what runs.
Startable(w) == Exists(On(w)) /\ sock[On(w)] # "none" /\ (At(w, "start") => ~Runs(On(w)))
Start(w) ==
    /\ At(w, "start") \/ At(w, "restart")
    /\ \/ /\ Startable(w)
          /\ Turn(w, [box[On(w)] EXCEPT !.st = "running"])
          /\ sock' = [sock EXCEPT ![On(w)] = "used"]
          /\ Advance(w) \/ Unheard(w)
       \/ ~Startable(w) /\ Refuse(w) /\ UNCHANGED world
       \/ Lost(w)
    /\ UNCHANGED <<engine, fresh>>

Stop(w) ==
    /\ At(w, "stop")
    /\ \/ /\ Runs(On(w))
          /\ Turn(w, [box[On(w)] EXCEPT !.st = "stopped"])
          /\ UNCHANGED sock
          /\ Advance(w) \/ Unheard(w)
       \/ ~Runs(On(w)) /\ Refuse(w) /\ UNCHANGED world
       \/ Lost(w)
    /\ UNCHANGED <<engine, fresh>>

\* That there is none is success. Unless it is told to, the engine removes none that runs.
Denied(w) == Runs(On(w)) /\ ~work[w].force
Remove(w) ==
    /\ At(w, "remove")
    /\ \/ ~Denied(w) /\ Turn(w, NoBox) /\ UNCHANGED sock /\ (Advance(w) \/ Unheard(w))
       \/ Denied(w) /\ Refuse(w) /\ UNCHANGED world
       \/ Lost(w)
    /\ UNCHANGED <<engine, fresh>>

\* Rebuild, as seen from outside: a leftover goes first; the new container is in the
\* old one's place, or the old one is still there, or the new one has only got the
\* temporary name.
Rebuild(w) ==
    /\ At(w, "rebuild")
    /\ UNCHANGED <<reg, home, xdg, entry, icons, engine, fresh>>
    /\ \/ /\ Exists(On(w))
          /\ box' = [box EXCEPT ![On(w)] = [st |-> "running", cfg |-> work[w].cfg]]
          /\ spare' = spare \ {On(w)}
          /\ sock' = [sock EXCEPT ![On(w)] = "used"]
          /\ vol' = VolumesMade(work[w].cfg.vols, TRUE)
          /\ Changed(w) \/ Unheard(w)
       \/ /\ ~Exists(On(w))
          /\ spare' = spare \ {On(w)}
          /\ Refuse(w) /\ UNCHANGED <<box, sock, vol>>
       \/ /\ Exists(On(w))
          /\ \/ /\ \E st \in {"running", "stopped"} : box' = [box EXCEPT ![On(w)].st = st]
                /\ spare' = spare \ {On(w)}
             \/ box' = [box EXCEPT ![On(w)] = NoBox] /\ spare' = spare \cup {On(w)}
          /\ sock' = [sock EXCEPT ![On(w)] = IF box'[On(w)].st = "running" THEN "used" ELSE @]
          /\ Break(w) /\ UNCHANGED vol

\* ensure_running: start it if it does not run.
Ensure(w) ==
    /\ At(w, "ensure")
    /\ \/ Runs(On(w)) /\ Advance(w)
       \/ Exists(On(w)) /\ ~Runs(On(w))
          /\ Become(w, [work[w] EXCEPT !.script = Starting \o Tail(@)]) /\ UNCHANGED <<past, faults>>
       \/ ~Exists(On(w)) /\ Refuse(w)
       \/ Break(w)
    /\ UNCHANGED <<world, engine, fresh>>

\* wait_socket_ready: a server answers at the path the socket is looked for, within ten seconds.
Ready(w) ==
    /\ At(w, "ready")
    /\ LET answering == {m \in SocketPaths(On(w)) : sock[m] = "used" /\ Runs(m)} IN
       \/ answering # {} /\ Advance(w)
       \/ answering # SocketPaths(On(w)) /\ Refuse(w)
       \/ Break(w)
    /\ UNCHANGED <<world, engine, fresh>>

\* volume_create: one that is there is an error.
MakeVolume(w) ==
    /\ At(w, "volume")
    /\ \/ /\ \E v \in work[w].cfg.vols : ~vol[v].there /\ vol' = VolumesMade({v}, TRUE)
          /\ Advance(w)
          /\ UNCHANGED <<box, spare, reg, home, xdg, sock, entry, icons>>
       \/ (\A v \in work[w].cfg.vols : vol[v].there) /\ Refuse(w) /\ UNCHANGED world
       \/ Lost(w)
    /\ UNCHANGED <<engine, fresh>>

\* cmd_volume_rm: not of a volume that is mounted.
Unmake(w) ==
    /\ At(w, "unmade")
    /\ \/ /\ \E v \in work[w].cfg.vols :
                vol[v].there /\ ~Mounted(v) /\ Vanish(w, {v}, Stepped(work[w]))
          /\ UNCHANGED <<box, spare, reg, home, xdg, sock, entry, icons, past, faults>>
       \/ (\A v \in work[w].cfg.vols : Mounted(v) \/ ~vol[v].there) /\ Refuse(w) /\ UNCHANGED world
       \/ Lost(w)
    /\ UNCHANGED <<engine, fresh>>

\* Steps that leave all of this alone.
Plain(w, s) ==
    /\ At(w, s)
    /\ \/ Advance(w)
       \/ ~Exists(On(w)) /\ Refuse(w)
       \/ Break(w)
    /\ UNCHANGED <<world, engine, fresh>>

\* list_containers, container_state, inspect_config
List(w) ==
    /\ At(w, "list")
    /\ Advance(w) \/ Break(w)
    /\ UNCHANGED <<world, engine, fresh>>
Logs(w) == Plain(w, "logs")       \* container_logs
Prepare(w) == Plain(w, "prepare") \* start_prepare_if_needed, prepare_container: Provision
Commit(w) == Plain(w, "commit")   \* snapshot: the container becomes an image
Exec(w) == Plain(w, "exec") \/ Plain(w, "setup") \* exec_oneshot; commands over the socket
Window(w) == Plain(w, "window")   \* open_container_window, another process

-----------------------------------------------------------------------------
(* The registry, the desktop *)

OldCfg == CHOOSE c \in Configs : TRUE

\* What the files of older versions hold once the oldest has been copied.
Copied == IF home = {} THEN xdg ELSE home

\* ConfigFile::default_instance: the oldest file is copied if the next one is not
\* there; the first time in a process that one is turned into files for the names
\* that have none, and put aside if all could be written.
Open(w) ==
    /\ At(w, "open")
    /\ LET old == Copied
           missing == {n \in old : reg[n] = None} IN
       IF w \notin fresh THEN home' = old /\ UNCHANGED <<reg, fresh>> /\ Advance(w)
       ELSE \E failed \in SUBSET missing :
                /\ reg' = [n \in Names |-> IF n \in missing \ failed THEN OldCfg ELSE reg[n]]
                /\ home' = IF failed = {} THEN {} ELSE old
                /\ fresh' = fresh \ {w}
                /\ IF failed = {} THEN Advance(w)
                   ELSE Fault /\ Become(w, Stepped(Hurt(w))) /\ UNCHANGED past
    /\ UNCHANGED <<box, spare, xdg, sock, entry, icons, vol, engine>>

Read(w) ==
    /\ At(w, "read")
    /\ \/ reg[On(w)] = None /\ Refuse(w)
       \/ /\ reg[On(w)] # None
          /\ Become(w, Stepped([work[w] EXCEPT !.cfg = reg[On(w)]]))
          /\ UNCHANGED <<past, faults>>
    /\ UNCHANGED <<world, engine, fresh>>

\* register_container writes another file and renames it, unregister_container
\* deletes it.
Register(w) ==
    /\ At(w, "register") \/ At(w, "unregister")
    /\ \/ /\ reg' = [reg EXCEPT ![On(w)] = IF At(w, "register") THEN work[w].cfg ELSE None]
          /\ UNCHANGED <<box, spare, home, xdg, sock, entry, icons, vol>>
          /\ Advance(w)
       \/ Lost(w)
    /\ UNCHANGED <<engine, fresh>>

\* write_gui_entry and remove_entry_desktops; the icons of the entry.
Draw(w) ==
    /\ \/ At(w, "entry")    /\ entry' = entry \cup {On(w)} /\ UNCHANGED icons
       \/ At(w, "desktops") /\ entry' = entry \ {On(w)} /\ UNCHANGED icons
       \/ At(w, "picture")  /\ icons' = icons \cup {On(w)} /\ UNCHANGED entry
       \/ At(w, "icons")    /\ icons' = icons \ {On(w)} /\ UNCHANGED entry
    /\ Advance(w)
    /\ UNCHANGED <<box, spare, reg, home, xdg, sock, vol, engine, fresh>>
DrawFails(w) ==
    /\ \E s \in {"entry", "desktops", "picture", "icons"} : At(w, s)
    /\ Lost(w) /\ UNCHANGED <<engine, fresh>>

-----------------------------------------------------------------------------
(* Around the program *)

\* A container ends by itself; the user removes one with podman.
Meddle(n, c) ==
    /\ box' = [box EXCEPT ![n] = c]
    /\ raced' = IF \E w \in Workers : Busy(w) /\ On(w) = n THEN raced \cup {n} ELSE raced
    /\ UNCHANGED <<spare, reg, home, xdg, sock, entry, icons, vol, engine, work, fresh, unsure, begun>>
Ends(n) == Runs(n) /\ Meddle(n, [box[n] EXCEPT !.st = "stopped"]) /\ UNCHANGED faults
UserRemoves(n) == Exists(n) /\ Fault /\ Meddle(n, NoBox)

\* Something is written to a volume.
Use(v) ==
    /\ \E n \in Names : Runs(n) /\ v \in box[n].cfg.vols
    /\ vol[v].there /\ ~vol[v].data
    /\ vol' = [vol EXCEPT ![v].data = TRUE]
    /\ UNCHANGED <<box, spare, reg, home, xdg, sock, entry, icons, engine, work, fresh, past, faults>>

EngineDies ==
    /\ engine.file = "live" /\ Fault
    /\ engine' = [engine EXCEPT !.file = "dead"]
    /\ UNCHANGED <<world, work, fresh, past>>

NoEngine == [file |-> "none", coming |-> 0]

\* The runtime directory is gone, and nothing runs.
Reboot ==
    /\ Fault
    /\ box' = [n \in Names |-> IF Runs(n) THEN [box[n] EXCEPT !.st = "stopped"] ELSE box[n]]
    /\ sock' = [n \in Names |-> "none"]
    /\ engine' = NoEngine
    /\ work' = [w \in Workers |-> Idle]
    /\ fresh' = Workers
    /\ unsure' = unsure \cup {On(w) : w \in {u \in Workers : work[u].touched}}
    /\ UNCHANGED <<spare, reg, home, xdg, entry, icons, vol, raced, begun>>

-----------------------------------------------------------------------------
\* The environment n is there, from this version or from an older one, or none is.
Found(n, c, made, by) ==
    /\ box = [m \in Names |-> IF made /\ m = n THEN [st |-> "running", cfg |-> IF by = "none" THEN c ELSE OldCfg]
                              ELSE NoBox]
    /\ reg = [m \in Names |-> IF made /\ m = n /\ by = "none" THEN c ELSE None]
    /\ home = IF made /\ by = "home" THEN {n} ELSE {}
    /\ xdg = IF made /\ by = "xdg" THEN {n} ELSE {}
    /\ sock = [m \in Names |-> IF made /\ m = n THEN "used" ELSE "none"]
    /\ vol \in [Volumes -> {NoVolume} \cup [there : {TRUE}, ours : BOOLEAN, data : {TRUE}]]
    /\ \A v \in Volumes : Mounted(v) => vol[v].there
Init ==
    /\ \E n \in Names, c \in Configs, made \in BOOLEAN, by \in Legacies : Found(n, c, made, by)
    /\ spare = {} /\ entry = {} /\ icons = {}
    /\ engine = NoEngine
    /\ work = [w \in Workers |-> Idle]
    /\ fresh = Workers
    /\ raced = {} /\ unsure = {} /\ begun = 0 /\ faults = 0

\* The steps of podman/mod.rs, and those of the rest.
EngineStep(w) ==
    \/ Probe(w) \/ Spawn(w) \/ Await(w)
    \/ SockDir(w) \/ Prescan(w) \/ Mkdir(w) \/ EnsureVolumes(w) \/ Create(w)
    \/ Check(w) \/ Undir(w) \/ Unvol(w)
    \/ Start(w) \/ Stop(w) \/ Remove(w) \/ Rebuild(w)
HostStep(w) ==
    \/ Sockets(w) \/ Ensure(w) \/ Ready(w) \/ MakeVolume(w) \/ Unmake(w)
    \/ List(w) \/ Logs(w) \/ Prepare(w) \/ Commit(w) \/ Exec(w) \/ Window(w)
    \/ Open(w) \/ Read(w) \/ Register(w) \/ Draw(w) \/ DrawFails(w)

Command(w) ==
    \E op \in Ops, n \in Names :
        /\ (op \in OfGui) = (w = Gui)
        /\ \E c \in IF op \in Given THEN Configs ELSE {OldCfg} : Begin(w, op, n, c)

Next ==
    \/ \E w \in Workers : Command(w) \/ EngineStep(w) \/ HostStep(w) \/ Die(w)
    \/ \E n \in Names : Ends(n) \/ UserRemoves(n)
    \/ \E v \in Volumes : Use(v)
    \/ Bind \/ EngineDies \/ Reboot

Spec == Init /\ [][Next]_vars

-----------------------------------------------------------------------------
(* Properties *)

\* configfile.rs, config.rs:108: between commands the registered configuration of a
\* container is the one it was made from, unless commands about it overlapped, or
\* one that had changed it failed or was killed.
RegistryTellsTheTruth ==
    \A n \in Names :
        /\ Exists(n) /\ reg[n] # None /\ n \notin raced \cup unsure
        /\ \A w \in Workers : ~(Busy(w) /\ On(w) = n)
        => reg[n] = box[n].cfg

Over(w, st) == Busy(w) /\ work'[w].status = st /\ On(w) \notin raced'

\* A creation that fails leaves neither a directory of its own behind nor a volume it
\* found missing, unless the name is taken or its clean-up fails too. (A look that
\* failed finds nothing missing: mod.rs:484.)
LeavesNothing(w) ==
    Over(w, "failed") /\ work[w].doomed /\ ~work'[w].torn
    /\ ~Exists(On(w)) /\ On(w) \notin spare
    => /\ work[w].had \/ sock'[On(w)] = "none"
       /\ \A v \in work[w].mine : ~vol'[v].there \/ ~vol[v].ours \/ Mounted(v)

\* Its clean-up deletes no volume that has been there since the command began, unless
\* the engine has answered the look with an error. (One that somebody else makes
\* between the look and the clean-up is deleted with the rest.)
SparesVolumes(w) ==
    At(w, "unvol") /\ work'[w].script # work[w].script /\ ~work[w].lied
    => \A v \in work[w].seen : vol[v].there => vol'[v].there

\* mod.rs:480-512: a creation that fails takes back the directory and the volumes that
\* were not there before, and spares the volumes that were, whatever other commands and
\* the user's own podman do meanwhile. An empty directory that was there goes as well.
FailedCreateTakesBackItsOwn ==
    [][\A w \in Workers : LeavesNothing(w) /\ SparesVolumes(w)]_vars

\* Of an environment whose removal succeeded nothing is left: container,
\* configuration, socket directory, entry.
RemovedMeansGone ==
    [][\A w \in Workers :
        Over(w, "ok") /\ work[w].removal /\ ~work'[w].hurt
        => LET n == On(w) IN
           box'[n] = NoBox /\ reg'[n] = None /\ sock'[n] = "none" /\ n \notin entry']_vars

\* mod.rs:2043, 1938: while the engine does what it is asked to, a removal fails only
\* where it would need force, however much is gone already, and a container is started
\* unless it is gone or runs, whatever a reboot has swept away.
FailsOnlyForCause ==
    [][\A w \in Workers :
        Over(w, "failed") /\ ~work'[w].hurt
        => LET n == On(w) IN
           /\ work[w].removal => At(w, "remove") /\ Runs(n) /\ ~work[w].force
           /\ At(w, "start") => ~Exists(n) \/ Runs(n)
           /\ At(w, "restart") => ~Exists(n)
           /\ At(w, "ready") => ~Runs(n)]_vars

-----------------------------------------------------------------------------
(* What makes them inductive *)

Kinds ==
    {"probe", "spawn", "await", "sockdir", "prescan", "mkdir", "volumes", "create", "check", "undir",
     "unvol", "start", "restart", "stop", "remove", "rebuild", "ensure", "ready", "exec", "setup",
     "commit", "list", "logs", "prepare", "window", "volume", "unmade", "open", "read", "register",
     "unregister", "entry", "desktops", "picture", "icons", "sockets"}
Steps == [do : Kinds, must : BOOLEAN]

Work ==
    [script : Seq(Steps), name : Names \cup {None}, cfg : Configs \cup {None},
     mine : SUBSET Volumes, seen : SUBSET Volumes, status : {"idle", "busy", "ok", "failed"},
     removal : BOOLEAN, force : BOOLEAN, overlaps : BOOLEAN, had : BOOLEAN, hurt : BOOLEAN, torn : BOOLEAN,
     lied : BOOLEAN, touched : BOOLEAN, doomed : BOOLEAN]

TypeOK ==
    /\ box \in [Names -> [st : {"none", "created", "running", "stopped"}, cfg : Configs \cup {None}]]
    /\ \A n \in Names : Exists(n) => box[n].cfg \in Configs
    /\ reg \in [Names -> Configs \cup {None}]
    /\ sock \in [Names -> {"none", "empty", "used"}]
    /\ vol \in [Volumes -> [there : BOOLEAN, ours : BOOLEAN, data : BOOLEAN]]
    /\ spare \cup home \cup xdg \cup entry \cup icons \subseteq Names
    /\ engine \in [file : {"none", "dead", "live"}, coming : Nat]
    /\ work \in [Workers -> Work]
    /\ \A w \in Workers :
          Busy(w) => On(w) \in Names /\ work[w].cfg \in Configs /\ work[w].status = "busy"
    /\ fresh \subseteq Workers /\ raced \cup unsure \subseteq Names \cup {None}
    /\ begun \in Nat /\ faults \in Nat

\* What a script still does, and what a worker does.
Words(s) == {s[i].do : i \in DOMAIN s}
Ahead(w) == Words(work[w].script)

Creation == {"prescan", "mkdir", "volumes", "create"}
Launches == {"start", "restart"}
Clearing == {"check", "undir", "unvol"}
Removing == {"probe", "spawn", "await", "remove", "open", "unregister", "desktops", "icons", "sockets"}

\* b never comes after a.
Barred(a, b) ==
    \/ a \in {"create", "rebuild"} /\ b \in Creation \cup {"rebuild", "read"}
    \/ a \in {"start", "restart", "ensure", "register"} /\ b \in {"create", "rebuild"}
    \/ a = "unregister" /\ b \in {"remove", "open"}
    \/ a = "sockets" /\ b = "remove"
    \/ a = "unvol" /\ b \in Clearing

\* A script in order: a start comes right after the socket directory, and the steps
\* a command cannot do without end it when they fail.
InOrder(s) ==
    /\ \A i, j \in DOMAIN s : i < j => ~Barred(s[i].do, s[j].do)
    /\ \A i \in DOMAIN s : i > 1 /\ s[i].do \in Launches => s[i - 1].do = "sockdir"
    /\ \A i \in DOMAIN s : s[i].do \in Creation \cup {"sockdir", "rebuild", "remove", "read"} => s[i].must

\* What a command has done says what is ahead of it.
Planned(r) ==
    LET ahead == Words(r.script) IN
    /\ InOrder(r.script)
    /\ ahead \cap Creation # {} => {"create", "register"} \subseteq ahead
    /\ "register" \in ahead /\ ~r.touched => {"create", "rebuild"} \cap ahead # {}
    /\ r.touched => ahead \cap (Creation \cup {"rebuild", "read"}) = {}
    /\ IF r.doomed THEN "unvol" \in ahead /\ ahead \subseteq Clearing ELSE ahead \cap Clearing = {}
    /\ IF r.removal THEN ahead \subseteq Removing /\ ("open" \in ahead => "unregister" \in ahead)
                    ELSE ahead \cap {"remove", "unregister", "sockets"} = {}

\* The registered configuration of a container is the one it was made from; what
\* an old registry would give it is, too.
Truth(n) ==
    Exists(n) => \/ reg[n] = box[n].cfg
                 \/ reg[n] = None /\ (n \in home \cup xdg => box[n].cfg = OldCfg)

\* A command that has changed a container has yet to register it, or has done so.
Registers(w) ==
    LET n == On(w) IN
    n \notin raced \cup unsure =>
        /\ work[w].touched /\ Exists(n) => box[n].cfg = work[w].cfg
        /\ "rebuild" \in Ahead(w) => \/ {"register", "read"} \cap Ahead(w) # {}
                                     \/ reg[n] = work[w].cfg

Honest ==
    \A n \in Names \ (raced \cup unsure) :
        \/ Truth(n)
        \/ \E w \in Workers : Busy(w) /\ On(w) = n /\ work[w].touched /\ "register" \in Ahead(w)

\* What a creation made is not what it found, and nobody starts what it makes.
Makes(w) ==
    /\ \A v \in work[w].seen : vol[v].there
    /\ work[w].lied \/ work[w].mine \cap work[w].seen = {}
    /\ On(w) \notin raced /\ ~work[w].had =>
          /\ "create" \in Ahead(w) \/ work[w].doomed => sock[On(w)] # "used"
          /\ work[w].doomed /\ "undir" \notin Ahead(w) => sock[On(w)] = "none"

\* Once the container is removed it is gone.
Removes(w) == work[w].removal /\ "remove" \notin Ahead(w) /\ On(w) \notin raced => box[On(w)] = NoBox

Raced == \A w, o \in Workers : w # o /\ Busy(w) /\ Busy(o) /\ On(w) = On(o) => On(w) \in raced

IInv ==
    /\ TypeOK /\ Raced /\ Honest
    /\ \A w \in Workers : Busy(w) => Planned(work[w]) /\ Registers(w) /\ Makes(w) /\ Removes(w)

\* Where no name is another's with a hyphen and more: what runs has its directory,
\* and what is about to be started, too.
Housed ==
    /\ \A n \in Names \ raced : Runs(n) => sock[n] = "used"
    /\ \A w \in Workers : (At(w, "start") \/ At(w, "restart")) /\ On(w) \notin raced => sock[On(w)] # "none"

\* Where removals do not overlap: what a removal is past, is gone.
Alone ==
    \A w \in Workers : Busy(w) /\ work[w].removal =>
        ~work[w].overlaps /\ \A o \in Workers : Busy(o) => w = o
Clears ==
    \A w \in Workers : Busy(w) /\ work[w].removal /\ ~work[w].hurt =>
        /\ "unregister" \notin Ahead(w) => reg[On(w)] = None
        /\ "desktops" \notin Ahead(w) => On(w) \notin entry
        /\ "sockets" \notin Ahead(w) => sock[On(w)] = "none"

(* What comments say and the code does not do *)

\* lib.rs:36-43: the directory a container mounts and the one its socket is looked
\* for in depend on its name alone and are always the same.
PathIsOwn == \A n \in Names : SocketPaths(n) = {n}

\* mod.rs:480-481: the clean-up of a failed creation deletes only the volumes that creation made, never
\* one the user already had, whatever its label.
DataIsSpared ==
    [][\A w \in Workers, v \in Volumes : At(w, "unvol") /\ vol[v].data => vol'[v] = vol[v]]_vars

\* configfile.rs:144-150, appdata.rs:124: the migration happens once; a name that has left
\* the registry does not come back (of commands that register nothing).
GoneStaysGone ==
    \A n \in Names : [](reg[n] # None => [](reg[n] = None => [](reg[n] = None)))
=============================================================================

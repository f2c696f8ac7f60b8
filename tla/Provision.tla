------------------------------ MODULE Provision ------------------------------
(***************************************************************************)
(* What a container is given and what becomes of it.  On the host a        *)
(* configuration is turned into environment variables, mounts and a        *)
(* user (core env/host.rs, env/gui.rs, podman/mod.rs, libpod.rs); in the   *)
(* container a one-shot program run as root makes the account, the home    *)
(* and the runtime directory fit (core env/incontainer.rs), and the server *)
(* finds out who it is and keeps a link to the host's X11 cookie (server   *)
(* setup.rs).                                                              *)
(*                                                                         *)
(* The display of the host is passed on for X11 and for Wayland, each      *)
(* directly ("direct": the host's runtime directory in its own place) or   *)
(* beside the container's own ("bypass": under another name).  A rebuild   *)
(* makes the next container from an image of the last one, whose           *)
(* environment variables the image keeps.                                  *)
(*                                                                         *)
(* A text is a sequence of pieces; a piece that is the name of a variable  *)
(* stands for ${NAME}; two texts are equal when their pieces are.  A name  *)
(* stands for the path of the home of that name as well.                   *)
(***************************************************************************)
EXTENDS Naturals, SequencesExt

CONSTANTS Configs,   \* configurations
          HostEnvs,  \* environments of the processes that create: [vars, absent]
          Images,    \* images: [passwd, env]
          Hardware,  \* what there is for GPUs: of "nvidia", "cdi", "kfd", "render"
          Sessions,  \* files with X11 cookies of the host's sessions
          OwnCookie, \* that of an X server in the container
          None,
          MaxCommands, MaxFaults \* bounds

Names == {"HOME", "UID", "DISPLAY", "WAYLAND_DISPLAY", "XDG_RUNTIME_DIR", "HOST_XDG_RUNTIME_DIR"}
Texts == Seq(STRING)
Plain == Seq(STRING \ Names)
IsEnv(env, values) == DOMAIN env \subseteq STRING /\ env \in [DOMAIN env -> values]
Accounts == [name : STRING, uid : STRING, home : STRING]
Plans == [remove : SUBSET STRING, add : Seq(Accounts), home : STRING, first : BOOLEAN,
          at : STRING, user : STRING \cup {None}]

ASSUME Absent ==
  /\ None \notin Configs /\ None \notin STRING /\ None \notin Seq(Accounts)
  /\ None \notin Accounts /\ None \notin Plans
\* Modes are written as models.rs writes them, a user is not named by a path.
ASSUME ConfigsAre ==
  \A c \in Configs :
    /\ c = [f \in DOMAIN c |-> c[f]] /\ {"x11", "wayland", "user"} \subseteq DOMAIN c
    /\ {c.x11, c.wayland} \subseteq {"none", "direct", "bypass"}
    /\ c.user \in (STRING \ {"/"}) \cup {None}
    /\ IsEnv(c.env, Texts)
    /\ c.mounts \in Seq([from : Texts, to : Texts])
\* What a process finds in its environment is not expanded again.
ASSUME HostsAre == \A hv \in HostEnvs : IsEnv(hv.vars, Plain)
\* An image gives a name, and the user's number, to one account; it has none whose
\* name is a number.
ASSUME ImagesAre ==
  \A i \in Images :
    /\ i.passwd \in Seq(Accounts)
    /\ \A j, k \in DOMAIN i.passwd :
          (i.passwd[j].name = i.passwd[k].name \/ {i.passwd[j].uid, i.passwd[k].uid} = {"uid"}) => j = k
    /\ \A j \in DOMAIN i.passwd : i.passwd[j].name # "1000"
    /\ i.tools \subseteq STRING /\ IsEnv(i.env, Texts)
ASSUME CookiesAre == Sessions \cup {OwnCookie} \subseteq STRING
ASSUME BoundsAre == MaxCommands \in Nat /\ MaxFaults \in Nat
\* What is written out here is a string; the provers do not know it.
ASSUME Strings ==
  Names \cup {"DBUS_SESSION_BUS_ADDRESS", "HOST_DISPLAY", "XAUTHORITY", "HOST_XAUTHORITY", "EASYTIDY_USER_NAME",
     "/run/user", "/run/easytidy", "xauthority", "bus", ".Xauthority", "/tmp/.X11-unix", "/tmp/.X11-unix/X0",
     "999", ":99", ":0", "1000", "", "/", "uid", "me", "none", "placeholder", "real", "fonts", "buttons", "ets", "x11",
     "called", "passwd", "group", "home", "dirs", "repair", "scripts"} \subseteq STRING
RunUser(t) == t # <<>> /\ Head(t) = "/run/user"
Get(env, k) == IF k \in DOMAIN env THEN env[k] ELSE <<>>
Put(env, k, v) == [x \in DOMAIN env \cup {k} |-> IF x = k THEN v ELSE env[x]]
Over(env, rest) == [x \in DOMAIN env \cup DOMAIN rest |-> IF x \in DOMAIN env THEN env[x] ELSE rest[x]]

VARIABLES
    box,     \* the container, NoBox if there is none
    fs,      \* its files: accounts, groups, homes and the owner of what is in them, scripts,
             \* the rest of what preparation puts in it
    up,      \* what it was last started by: "down", "start", "restart"
    reg,     \* its configuration file, None if there is none
    todo,    \* steps of the command in hand
    given,   \* and the configuration it has come with
    exec,    \* the preparation that runs in the container, None if none does
    server,  \* the identity the server has found, None if it does not run
    rundir,  \* owner of the container's own runtime directory
    hostdir, \* the host's: "spared", or why preparation has touched it
    cookie, left, \* files in the host's runtime directory: the present session's cookie, None
             \* if there is none, and others that look like one
    own,     \* those in the container's own
    link,    \* where the link the server keeps leads to, None if there is none
    last,    \* the file it has been made for, as the server remembers it, {} if none
    unwritten, \* it could not be written when that was last tried
    stale,   \* the cookies have changed since the server last looked
    failed,  \* a preparation has failed or was cut short, and none has ended well since
    begun, faults

made  == <<box, fs, reg>>
cmd   == <<todo, given, begun>>
dirs  == <<rundir, hostdir>>
x11   == <<cookie, left, own, link, last, unwritten, stale>>
vars  == <<made, up, cmd, exec, server, dirs, x11, failed, faults>>

-----------------------------------------------------------------------------
(* The configuration file: models.rs *)

Optional == {"x11", "wayland", "user"}
Default == [x11 |-> "none", wayland |-> "none", user |-> None]
Mode(v) == CASE v = "true" -> "direct" [] v = "false" -> "none" [] OTHER -> v

\* A field that has its default value is left out of the file.
Stored(c) == [f \in {g \in DOMAIN c : g \in Optional => c[g] # Default[g]} |-> c[f]]
\* Older versions wrote flags instead of modes.
Loaded(file) == [f \in DOMAIN file \cup Optional |->
                    IF f \notin DOMAIN file THEN Default[f]
                    ELSE IF f \in {"x11", "wayland"} THEN Mode(file[f]) ELSE file[f]]
Legacy(c) == [f \in DOMAIN Stored(c) |-> IF f \in {"x11", "wayland"} THEN "true" ELSE c[f]]

Direct(c) == "direct" \in {c.x11, c.wayland}
Bypass(c) == "bypass" \in {c.x11, c.wayland}

-----------------------------------------------------------------------------
(* The rules of passing on a display: env/gui.rs and its two rule books *)

E(k, v) == [key |-> k, value |-> v]
M(f, t) == [from |-> f, to |-> t, must |-> TRUE]
Section(env, mounts, keep) == [env |-> env, mounts |-> mounts, keep |-> keep]

load_rule ==
    [shared |-> Section(<<E("XDG_RUNTIME_DIR", <<"XDG_RUNTIME_DIR">>)>>,
                        <<M(<<"XDG_RUNTIME_DIR">>, <<"XDG_RUNTIME_DIR">>)>>, TRUE),
     x11 |-> Section(<<E("DISPLAY", <<"DISPLAY">>), E("XAUTHORITY", <<"/run/easytidy", "xauthority">>)>>,
                     <<M(<<"/tmp/.X11-unix">>, <<"/tmp/.X11-unix">>)>>, FALSE),
     wayland |-> Section(<<E("WAYLAND_DISPLAY", <<"WAYLAND_DISPLAY">>)>>, <<>>, FALSE)]
load_bypass_rule ==
    [shared |-> Section(<<E("XDG_RUNTIME_DIR", <<"/run/user", "UID">>),
                          E("HOST_XDG_RUNTIME_DIR", <<"/run/user", "999">>),
                          E("DBUS_SESSION_BUS_ADDRESS", <<"XDG_RUNTIME_DIR", "bus">>)>>,
                        <<M(<<"XDG_RUNTIME_DIR">>, <<"HOST_XDG_RUNTIME_DIR">>)>>, TRUE),
     x11 |-> Section(<<E("DISPLAY", <<":99">>), E("HOST_DISPLAY", <<":0">>),
                       E("XAUTHORITY", <<"XDG_RUNTIME_DIR", ".Xauthority">>),
                       E("HOST_XAUTHORITY", <<"/run/easytidy", "xauthority">>)>>,
                     <<[M(<<"/tmp/.X11-unix/X0">>, <<"/tmp/.X11-unix/X0">>) EXCEPT !.must = FALSE]>>, FALSE),
     wayland |-> Section(<<E("WAYLAND_DISPLAY", <<>>)>>, <<>>, FALSE)]

expand_host_vars(text, dict) ==
    LET Value(p) == IF p \in Names THEN Get(dict, p) ELSE <<p>>
        out[i \in 0..Len(text)] == IF i = 0 THEN <<>> ELSE out[i - 1] \o Value(text[i]) IN
    out[Len(text)]
merged_dict(hv, cenv) == Over(cenv, hv.vars)

Dict(a, view, hv) == IF view THEN merged_dict(hv, a.cenv) ELSE hv.vars

\* In hand: [env, cenv, mounts, keep].
EnvEntry(a, k, v, view, suppress) ==
    IF k = "XAUTHORITY" \/ k \in DOMAIN a.env \/ v = <<>> \/ (suppress /\ k = "XDG_RUNTIME_DIR")
    THEN a
    ELSE [a EXCEPT !.env = Put(@, k, v), !.cenv = IF view THEN Put(@, k, v) ELSE @]
InjectEnv(a, e, view, suppress, hv) ==
    EnvEntry(a, e.key, expand_host_vars(e.value, Dict(a, view, hv)), view, suppress)

MountEntry(a, from, to, skip, absent) ==
    IF skip \/ from = <<>> \/ to = <<>> \/ from \in absent \/ \E i \in DOMAIN a.mounts : a.mounts[i].to = to
    THEN a
    ELSE [a EXCEPT !.mounts = Append(@, [from |-> from, to |-> to])]
InjectMount(a, m, view, suppress, hv) ==
    MountEntry(a, expand_host_vars(m.from, hv.vars), expand_host_vars(m.to, Dict(a, view, hv)),
               suppress /\ Contains(m.to, "XDG_RUNTIME_DIR"), IF m.must THEN {} ELSE hv.absent)

inject_section(a, s, view, suppress, hv) ==
    LET env[i \in 0..Len(s.env)] ==
            IF i = 0 THEN [a EXCEPT !.keep = @ \/ s.keep]
            ELSE InjectEnv(env[i - 1], s.env[i], view, suppress, hv)
        all[i \in 0..Len(s.mounts)] ==
            IF i = 0 THEN env[Len(s.env)]
            ELSE InjectMount(all[i - 1], s.mounts[i], view, suppress, hv) IN
    all[Len(s.mounts)]

section_env_value(s, k) ==
    LET at == {i \in DOMAIN s.env : s.env[i].key = k} IN
    IF at = {} THEN <<>> ELSE s.env[CHOOSE i \in at : TRUE].value

\* Mutant: what the user has declared is overwritten.
set_env_Over(env, k, v, declared) == Put(env, k, v)
set_env(env, k, v, declared) == IF k \in declared THEN env ELSE Put(env, k, v)

\* The last word on the keys that tell what is meant: off means empty, for the
\* image may hold an older value.
Intended(a, c, hv) ==
    LET rule == load_bypass_rule
        Of(mode, direct, bypass) ==
            CASE mode = "direct" -> direct [] mode = "bypass" -> bypass [] OTHER -> <<>>
        Value(k) == expand_host_vars(section_env_value(rule.x11, k), merged_dict(hv, a.cenv))
        declared == DOMAIN c.env
        e1 == set_env(a.env, "DISPLAY",
                Of(c.x11, Get(hv.vars, "DISPLAY"), section_env_value(rule.x11, "DISPLAY")), declared)
        e2 == set_env(e1, "XAUTHORITY",
                Of(c.x11, <<"/run/easytidy", "xauthority">>, Value("XAUTHORITY")), declared)
        e3 == set_env(e2, "HOST_XAUTHORITY", Of(c.x11, <<>>, Value("HOST_XAUTHORITY")), declared) IN
    [a EXCEPT !.env = set_env(e3, "WAYLAND_DISPLAY",
        Of(c.wayland, Get(hv.vars, "WAYLAND_DISPLAY"), section_env_value(rule.wayland, "WAYLAND_DISPLAY")),
        declared)]

Inject(on, a, s, view, suppress, hv) == IF on THEN inject_section(a, s, view, suppress, hv) ELSE a
\* Beside the container's own directory the host's does not take its place.
direct_sections(a, c, hv) ==
    LET rule == load_rule
        a1 == Inject(Direct(c), a, rule.shared, FALSE, Bypass(c), hv)
        a2 == Inject(c.x11 = "direct", a1, rule.x11, FALSE, Bypass(c), hv) IN
    Inject(c.wayland = "direct", a2, rule.wayland, FALSE, Bypass(c), hv)
bypass_sections(a, c, hv) ==
    LET rule == load_bypass_rule
        a1 == Inject(Bypass(c), a, rule.shared, TRUE, FALSE, hv)
        a2 == Inject(c.x11 = "bypass", a1, rule.x11, TRUE, FALSE, hv) IN
    Inject(c.wayland = "bypass", a2, rule.wayland, TRUE, FALSE, hv)
apply(a, c, hv) == Intended(bypass_sections(direct_sections(a, c, hv), c, hv), c, hv)

\* NVIDIA's libraries are told to offer all they can.
inject_gpu_passthrough(a, c) ==
    IF c.gpu = "nvidia" /\ "NVIDIA_DRIVER_CAPABILITIES" \notin DOMAIN a.env
    THEN [a EXCEPT !.env = Put(@, "NVIDIA_DRIVER_CAPABILITIES", <<"all">>)] ELSE a

inject_passthrough(c, hv) ==
    LET a == [env |-> c.env, cenv |-> <<>>, mounts |-> c.mounts, keep |-> c.keep] IN
    inject_gpu_passthrough(IF Direct(c) \/ Bypass(c) THEN apply(a, c, hv) ELSE a, c)

-----------------------------------------------------------------------------
(* Accounts: env/incontainer.rs *)

User(name, home) == [name |-> name, uid |-> "uid", home |-> home]
NoLine == [name |-> "", uid |-> "", home |-> ""]
OfUid(passwd) == {i \in DOMAIN passwd : passwd[i].uid = "uid"}
Placeholder(e) == e.home = "/"
Held(passwd) == {i \in OfUid(passwd) : Placeholder(passwd[i])}
Real(passwd) == OfUid(passwd) \ Held(passwd)

resolve_identity(passwd, name) ==
    IF name # None THEN User(name, name)
    ELSE IF OfUid(passwd) # {} /\ ~Placeholder(passwd[Min(OfUid(passwd))]) THEN passwd[Min(OfUid(passwd))]
    ELSE User("uid", "uid")

\* Mutant: the placeholder stays.
plan_prepare_Kept(f, name, first) ==
    LET id == resolve_identity(f.passwd, name) IN
    [remove |-> {}, add |-> IF Real(f.passwd) # {} THEN <<>> ELSE <<User(id.name, id.home)>>,
     home |-> id.home, first |-> first, at |-> "passwd", user |-> name]
plan_prepare(f, name, first) ==
    LET id == resolve_identity(f.passwd, name)
        held == Held(f.passwd) IN
    [remove |-> IF held = {} \/ (name = None /\ Real(f.passwd) # {}) THEN {} ELSE {f.passwd[Min(held)].name},
     add |-> IF Real(f.passwd) # {} THEN <<>> ELSE <<User(id.name, id.home)>>,
     home |-> id.home, first |-> first, at |-> "passwd", user |-> name]

-----------------------------------------------------------------------------
(* Creating: podman/mod.rs create_inner, libpod.rs *)

\* Path variables of the user's mounts: pathvars.rs.
Known == {"HOME", "UID"}
expand_path(text, home) ==
    [i \in DOMAIN text |-> CASE text[i] = "HOME" -> home [] text[i] = "UID" -> "1000" [] OTHER -> text[i]]
Expandable(mounts) ==
    \A i \in DOMAIN mounts : \A p \in Names \ Known :
        ~Contains(mounts[i].from, p) /\ ~Contains(mounts[i].to, p)
needs_image_passwd(mounts, name) ==
    name = None /\ \E i \in DOMAIN mounts : Contains(mounts[i].to, "HOME")
container_path_vars(name, passwd) ==
    IF passwd # None THEN resolve_identity(passwd, name).home ELSE IF name # None THEN name ELSE "uid"
HomeOf(c, mounts, passwd) ==
    container_path_vars(c.user, IF needs_image_passwd(mounts, c.user) THEN passwd ELSE None)

expand_mounts(mounts, home) ==
    [i \in DOMAIN mounts |-> [from |-> expand_path(mounts[i].from, "me"), to |-> expand_path(mounts[i].to, home)]]
\* The last one of a target; those without one are dropped.
dedup_mounts(mounts) ==
    LET to == {mounts[i].to : i \in DOMAIN mounts} \ {<<>>}
        At(t) == CHOOSE i \in DOMAIN mounts :
                    mounts[i].to = t /\ \A j \in DOMAIN mounts : mounts[j].to = t => j <= i IN
    [t \in to |-> mounts[At(t)].from]

\* The container's own runtime directory.
Tmpfs(c, env) == IF Bypass(c) /\ RunUser(Get(env, "XDG_RUNTIME_DIR"))
                 THEN {Get(env, "XDG_RUNTIME_DIR")} ELSE {}
Fixed == {<<"/run/easytidy">>}

detect_nvidia_gpu == IF "nvidia" \notin Hardware THEN "none"
                     ELSE IF "cdi" \in Hardware THEN "ready" ELSE "no description"
detect_amd_gpu_devices == {"kfd", "render"} \cap Hardware

Gpu(c) == /\ c.gpu = "amd" => detect_amd_gpu_devices # {}
          /\ c.gpu = "nvidia" => detect_nvidia_gpu = "ready"
\* A container in the host's network publishes no ports.
PortBindings(c) == IF c.net = "host" THEN {} ELSE c.ports

\* One with mappings of its own does not keep the user's number, one in another's
\* process namespace has no init.
keep_id_create_body(c, keep) ==
    [userns |-> IF c.maps THEN "mapped" ELSE IF keep THEN "keep-id" ELSE "none",
     init |-> c.pid \in {None, "private"},
     ports |-> PortBindings(c),
     devices |-> (c.devices \ {""}) \cup (IF c.gpu = "amd" THEN detect_amd_gpu_devices ELSE {})
                    \cup (IF c.gpu = "nvidia" THEN {"nvidia.com/gpu=all"} ELSE {})]

\* In the order of the list of variables the last one counts.
Variables(c, env) == IF c.user = None THEN env ELSE Put(env, "EASYTIDY_USER_NAME", <<c.user>>)

\* What is asked of the engine, p passed on; of an image it keeps the variables nobody
\* sets.
WithHome(c, p, home, image) ==
    [cfg |-> c, env |-> Over(Variables(c, p.env), image.env), tmpfs |-> Tmpfs(c, p.env),
     mounts |-> dedup_mounts(expand_mounts(p.mounts, home)),
     home |-> IF \E i \in DOMAIN c.mounts : Contains(c.mounts[i].to, "HOME") THEN home ELSE None,
     image |-> image.passwd, body |-> keep_id_create_body(c, p.keep)]
Passed(c, p, passwd, image) == WithHome(c, p, HomeOf(c, p.mounts, passwd), image)
create_inner(c, hv, passwd, image) == Passed(c, inject_passthrough(c, hv), passwd, image)

podman_mounts(b) == <<DOMAIN b.mounts, b.tmpfs, Fixed>>

\* The checks of volumes, ports, GPUs and mounts, and the engine's: no two mounts in
\* one place.
Creatable(c, hv, b) ==
    /\ "" \notin c.volumes
    /\ 0 \notin PortBindings(c)
    /\ Gpu(c)
    /\ Expandable(inject_passthrough(c, hv).mounts)
    /\ \A t \in DOMAIN b.mounts : b.mounts[t] \notin hv.absent
    /\ \A i, j \in DOMAIN podman_mounts(b) :
          i # j => podman_mounts(b)[i] \cap podman_mounts(b)[j] = {}

-----------------------------------------------------------------------------
(* Commands *)

Fault == faults < MaxFaults /\ faults' = faults + 1
At(s) == todo # <<>> /\ Head(todo) = s
GiveUp == todo' = <<>> /\ given' = None /\ UNCHANGED begun
Advance == IF Len(todo) = 1 THEN GiveUp ELSE todo' = Tail(todo) /\ UNCHANGED <<given, begun>>

NoBox == [cfg |-> None]
Begin(steps, c) ==
    /\ todo = <<>>
    /\ begun < MaxCommands
    /\ begun' = begun + 1
    /\ todo' = steps
    /\ given' = c
    /\ UNCHANGED <<made, up, exec, server, dirs, x11, failed, faults>>

Files(image, strays) ==
    [passwd |-> image.passwd, group |-> "none", homes |-> {}, strays |-> strays, scripts |-> {},
     tools |-> image.tools, rest |-> {}]

create(c) == box = NoBox /\ Begin(<<"create", "start", "wait", "prepare_first", "wait", "register">>, c)
rebuild(c) == box # NoBox /\ Begin(<<"rebuild", "prepare", "wait", "register">>, c)
start == box # NoBox /\ up = "down" /\ Begin(<<"start", "wait">>, None)
restart == box # NoBox /\ Begin(<<"restart">>, None)

\* The engine enters a placeholder for the user if there is no account, under the
\* name he has on the host or, if that is taken, his number; and one for the group.
Boot(f) ==
    /\ fs' = [f EXCEPT !.passwd =
                 IF OfUid(@) # {} THEN @
                 ELSE Append(@, User(IF \E i \in DOMAIN @ : @[i].name = "me" THEN "1000" ELSE "me", "/")),
                        !.group = IF @ = "none" THEN "placeholder" ELSE @]
    /\ server' = resolve_identity(fs'.passwd,
                    LET n == Get(box'.env, "EASYTIDY_USER_NAME") IN IF n = <<>> THEN None ELSE Head(n))
    /\ rundir' = "root"
    /\ own' = {}
    /\ failed' = (failed \/ exec # None)
    /\ last' = {}

Create ==
    /\ At("create")
    /\ \E hv \in HostEnvs, i \in Images : \E b \in {create_inner(given, hv, i.passwd, i)} :
          \/ /\ Creatable(given, hv, b)
             /\ box' = b
             /\ fs' = Files(i, TRUE)
             /\ Advance
          \/ ~Creatable(given, hv, b) /\ GiveUp /\ UNCHANGED <<box, fs>>
    /\ UNCHANGED <<reg, up, exec, server, dirs, x11, failed, faults>>

\* Looked into for accounts is the image the old container was made from.
probe_image == box.image
Rebuild ==
    /\ At("rebuild")
    /\ \E hv \in HostEnvs :
          \E b \in {create_inner(given, hv, probe_image, [passwd |-> fs.passwd, env |-> box.env])} :
          \/ /\ Creatable(given, hv, b)
             /\ box' = b
             /\ Boot(fs)
             /\ up' = "start"
             /\ stale' = TRUE
             /\ exec' = None
             /\ Advance
          \/ ~Creatable(given, hv, b) /\ GiveUp
             /\ UNCHANGED <<box, fs, up, server, rundir, own, last, stale, failed, exec>>
    /\ UNCHANGED <<reg, hostdir, cookie, left, link, unwritten, faults>>

\* start_prepare_if_needed: as the configuration file has it.
Start ==
    /\ \/ At("start") /\ up = "down" /\ up' = "start"
       \/ At("restart") /\ up' = "restart"
    /\ UNCHANGED box
    /\ Boot(fs)
    /\ stale' = TRUE
    /\ exec' = IF At("start") /\ reg # None /\ Bypass(Loaded(reg))
               THEN [plan_prepare(fs', Loaded(reg).user, FALSE) EXCEPT !.at = "called"] ELSE None
    /\ Advance
    /\ UNCHANGED <<reg, hostdir, cookie, left, link, unwritten, faults>>

\* prepare_container
Prepare ==
    /\ At("prepare") \/ At("prepare_first")
    /\ exec = None
    /\ exec' = IF up = "down" THEN None
               ELSE [plan_prepare(fs, given.user, At("prepare_first")) EXCEPT !.at = "called"]
    /\ Advance
    /\ UNCHANGED <<made, up, server, dirs, x11, failed, faults>>

\* It is waited for, for a minute; that it has failed is logged.
Wait ==
    /\ At("wait")
    /\ \/ exec = None /\ UNCHANGED <<faults, failed>>
       \/ exec # None /\ Fault /\ failed' = TRUE
    /\ Advance
    /\ UNCHANGED <<made, up, exec, server, dirs, x11>>

Register ==
    /\ At("register")
    /\ reg' = Stored(given)
    /\ Advance
    /\ UNCHANGED <<box, fs, up, exec, server, dirs, x11, failed, faults>>

\* The command is killed or the engine fails.
Fails ==
    /\ todo # <<>>
    /\ Fault
    /\ GiveUp
    /\ failed' = (failed \/ up # "down")
    /\ UNCHANGED <<made, up, exec, server, dirs, x11>>

\* The container is stopped, by the program or by something else.
Stop ==
    /\ up # "down"
    /\ (todo = <<>> /\ exec = None /\ UNCHANGED faults) \/ (exec # None /\ Fault)
    /\ up' = "down"
    /\ server' = None
    /\ exec' = None
    /\ failed' = (failed \/ exec # None)
    /\ UNCHANGED <<made, cmd, dirs, x11>>

-----------------------------------------------------------------------------
(* Preparing, in the container: env/incontainer.rs *)

Exec(s) == exec # None /\ exec.at = s
Step(s) == exec' = [exec EXCEPT !.at = s]
Inside == UNCHANGED <<box, reg, up, cmd, server, x11, faults>>

\* What is to be done is decided on the files as they are now.
Plan ==
    /\ Exec("called")
    /\ exec' = plan_prepare(fs, exec.user, exec.first)
    /\ UNCHANGED <<fs, dirs, failed>> /\ Inside

\* rewrite_file: every line of a name to be removed goes.  The place of one that is gone
\* is kept, with nothing in it, so that the others keep theirs.
RewritePasswd ==
    /\ Exec("passwd")
    /\ fs' = [fs EXCEPT !.passwd = [i \in DOMAIN @ |-> IF @[i].name \in exec.remove THEN NoLine ELSE @[i]] \o exec.add]
    /\ Step("group")
    /\ UNCHANGED <<dirs, failed>> /\ Inside
RewriteGroup ==
    /\ Exec("group")
    /\ fs' = [fs EXCEPT !.group = IF exec.add # <<>> THEN "real" ELSE IF exec.remove # {} /\ @ # "real" THEN "none" ELSE @]
    /\ Step("home")
    /\ UNCHANGED <<dirs, failed>> /\ Inside

write_fontconfig == {"fonts"} \cap fs.tools
ensure_home ==
    /\ Exec("home")
    /\ fs' = [fs EXCEPT !.homes = @ \cup {exec.home}, !.rest = @ \cup write_fontconfig]
    /\ Step("dirs")
    /\ UNCHANGED <<dirs, failed>> /\ Inside

ensure_x11_socket_dir == IF Get(box.env, "HOST_XDG_RUNTIME_DIR") # <<>> THEN {"x11"} ELSE {}
Hosts(dir) == dir \in DOMAIN box.mounts /\ RunUser(box.mounts[dir])

\* Mutant: as it was before, whoever the directory belongs to.
ensure_xdg_runtime_dir_Any ==
    /\ Exec("dirs")
    /\ LET dir == Get(box.env, "XDG_RUNTIME_DIR") IN
       IF RunUser(dir)
       THEN IF dir \in box.tmpfs THEN rundir' = "user" /\ UNCHANGED hostdir
            ELSE hostdir' = (IF Hosts(dir) THEN "touched" ELSE hostdir) /\ UNCHANGED rundir
       ELSE UNCHANGED dirs
    /\ fs' = [fs EXCEPT !.rest = @ \cup ensure_x11_socket_dir]
    /\ Step("repair")
    /\ UNCHANGED failed /\ Inside
\* It takes a runtime directory for the container's own where the host's has
\* another name.
ensure_xdg_runtime_dir ==
    /\ Exec("dirs")
    /\ LET dir == Get(box.env, "XDG_RUNTIME_DIR") IN
       IF RunUser(dir) /\ Get(box.env, "HOST_XDG_RUNTIME_DIR") # <<>>
       THEN IF dir \in box.tmpfs THEN rundir' = "user" /\ UNCHANGED hostdir
            ELSE /\ hostdir' = IF ~Hosts(dir) THEN hostdir
                               ELSE IF "HOST_XDG_RUNTIME_DIR" \in DOMAIN box.cfg.env THEN "asked"
                               ELSE IF Bypass(box.cfg) THEN "touched" ELSE "inherited"
                 /\ UNCHANGED rundir
       ELSE UNCHANGED dirs
    /\ fs' = [fs EXCEPT !.rest = @ \cup ensure_x11_socket_dir]
    /\ Step("repair")
    /\ UNCHANGED failed /\ Inside

\* Only the first time is what is astray in the home made the user's; the rest is
\* done every time.
ensure_ets_symlink == {"ets"}
ensure_button_layout == {"buttons"} \cap fs.tools
Repair ==
    /\ Exec("repair")
    /\ fs' = [fs EXCEPT !.strays = @ /\ ~exec.first,
                        !.rest = @ \cup ensure_ets_symlink \cup ensure_button_layout]
    /\ Step("scripts")
    /\ UNCHANGED <<dirs, failed>> /\ Inside

\* The program ends; if the host still waits it puts the scripts into the home.
install_scripts ==
    /\ Exec("scripts")
    /\ LET home == resolve_identity(fs.passwd, exec.user).home IN
       fs' = [fs EXCEPT !.scripts = IF At("wait") /\ home \in fs.homes THEN @ \cup {home} ELSE @]
    /\ failed' = (failed /\ ~At("wait"))
    /\ exec' = None
    /\ UNCHANGED dirs /\ Inside

\* The program fails, or is killed.
Cut ==
    /\ exec # None
    /\ Fault
    /\ exec' = None
    /\ failed' = TRUE
    /\ UNCHANGED <<made, up, cmd, server, dirs, x11>>

-----------------------------------------------------------------------------
(* The server and the cookie: setup.rs *)

\* The files in a directory of the container that look like a cookie: the host's, where
\* its runtime directory is mounted.
Cookies(dir) ==
    LET names == IF dir \in box.tmpfs THEN own
                 ELSE IF Hosts(dir) THEN (left \cup {cookie}) \ {None} ELSE {} IN
    IF dir = <<>> THEN {} ELSE {Append(dir, n) : n \in names}
\* The first one listed, whichever that is, of the first directory that has one.
\* Mutant: only the runtime directory is looked into.
probe_xauthority_any_Own == Cookies(Get(box.env, "XDG_RUNTIME_DIR"))
probe_xauthority_any ==
    LET first == Cookies(Get(box.env, "XDG_RUNTIME_DIR")) IN
    IF first # {} THEN first ELSE Cookies(Get(box.env, "HOST_XDG_RUNTIME_DIR"))

\* Where the link goes; it may take the place of a cookie, and looks like one then.
LinkPath == LET host == Get(box.env, "HOST_XAUTHORITY") IN
            IF host # <<>> THEN host ELSE Get(box.env, "XAUTHORITY")
Wanted == LinkPath # <<>>
Probed == {Get(box.env, k) : k \in {"XDG_RUNTIME_DIR", "HOST_XDG_RUNTIME_DIR"}}
Displaced(probed) == {n \in Sessions \cup {OwnCookie} : \E d \in probed : LinkPath = Append(d, n)}
InOwn == Displaced(Probed \cap box.tmpfs)
InHosts == Displaced({d \in Probed \ box.tmpfs : Hosts(d)})

\* What was there is removed and the link made; either may fail, and is only logged.
write_xauthority_link(found) ==
    \/ /\ link' = found /\ unwritten' = FALSE
       /\ left' = left \cup InHosts /\ own' = own \cup InOwn
       /\ cookie' = IF cookie \in InHosts THEN None ELSE cookie
    \/ /\ link' = None /\ unwritten' = TRUE
       /\ left' = left \ InHosts /\ own' = own \ InOwn
       /\ cookie' = IF cookie \in InHosts THEN None ELSE cookie
    \/ unwritten' = TRUE /\ UNCHANGED <<link, left, own, cookie>>
\* Nothing is written where the link would be the file itself.
Follow(found) ==
    IF found = LinkPath THEN unwritten' = FALSE /\ UNCHANGED <<link, left, own, cookie>>
    ELSE write_xauthority_link(found)

\* At its start; then every half a minute.
ensure_xauthority ==
    /\ server # None
    /\ stale /\ last = {}
    /\ Wanted /\ \E found \in probe_xauthority_any : Follow(found)
    /\ stale' = FALSE
    /\ UNCHANGED <<made, up, cmd, exec, server, dirs, last, failed, faults>>
\* A link is written where the file found is another than the last time, even if
\* writing it has failed then.
xauthority_watch_task ==
    /\ server # None
    /\ \/ /\ Wanted
          /\ \E found \in probe_xauthority_any :
                /\ IF last = {found} THEN UNCHANGED <<link, left, own, cookie, unwritten>> ELSE Follow(found)
                /\ last' = {found}
       \/ /\ ~Wanted \/ probe_xauthority_any = {}
          /\ UNCHANGED <<link, left, own, cookie, unwritten, last>>
    /\ stale' = FALSE
    /\ UNCHANGED <<made, up, cmd, exec, server, dirs, failed, faults>>

\* The host's session ends, leaving its file or not, another begins, or files of former
\* ones go; the container's own X server writes a cookie.
Session ==
    /\ left' \in SUBSET (left \cup ({cookie} \ {None}))
    /\ cookie' \in ({cookie, None} \cup (Sessions \ left)) \ left'
    /\ <<cookie', left'>> # <<cookie, left>>
    /\ stale' = TRUE
    /\ UNCHANGED <<made, up, cmd, exec, server, dirs, own, link, last, unwritten, failed, faults>>
OwnDisplay ==
    /\ server # None /\ box.tmpfs # {} /\ rundir = "user" /\ OwnCookie \notin own
    /\ own' = own \cup {OwnCookie}
    /\ stale' = TRUE
    /\ UNCHANGED <<made, up, cmd, exec, server, dirs, cookie, left, link, last, unwritten, failed, faults>>

-----------------------------------------------------------------------------
\* There is no container, or one that an older version has made.
Init ==
    /\ \/ box = NoBox /\ reg = None /\ fs = Files([passwd |-> <<>>, tools |-> {}], TRUE)
       \/ \E c \in Configs, hv \in HostEnvs, i \in Images : \E b \in {create_inner(c, hv, i.passwd, i)} :
             /\ ~Bypass(c) /\ Creatable(c, hv, b)
             /\ box = b
             /\ reg = Legacy(c)
             /\ fs = Files(i, FALSE)
    /\ up = "down" /\ todo = <<>> /\ given = None /\ begun = 0
    /\ exec = None /\ server = None /\ rundir = "root" /\ hostdir = "spared"
    /\ cookie \in Sessions \cup {None} /\ left \in SUBSET (Sessions \ {cookie}) /\ own = {}
    /\ link = None /\ last = {} /\ unwritten = FALSE /\ stale = FALSE
    /\ failed = FALSE /\ faults = 0

Command == start \/ restart \/ \E c \in Configs : create(c) \/ rebuild(c)
OnHost == Create \/ Rebuild \/ Start \/ Prepare \/ Wait \/ Register \/ Fails \/ Stop
InContainer == \/ Plan \/ RewritePasswd \/ RewriteGroup \/ ensure_home \/ ensure_xdg_runtime_dir
               \/ Repair \/ install_scripts \/ Cut
OfServer == ensure_xauthority \/ xauthority_watch_task \/ Session \/ OwnDisplay

Next == Command \/ OnHost \/ InContainer \/ OfServer

Spec == Init /\ [][Next]_vars

-----------------------------------------------------------------------------
(* Properties *)

Quiet == todo = <<>> /\ exec = None /\ up # "down"

\* incontainer.rs:541, mod.rs:1950-1957: preparation never changes the host's runtime
\* directory, unless the user has declared the variable that tells it not to be the
\* container's own, or the container has it from an earlier one; and once a container with
\* a display of its own has been started by the program, its own runtime directory belongs
\* to its user, unless preparation has failed or is that of another configuration, or the
\* user has declared that variable as empty.
RuntimeDirsAreRight ==
    /\ hostdir # "touched"
    /\ (/\ Quiet /\ up = "start" /\ ~failed /\ box.tmpfs # {}
        /\ reg # None /\ Loaded(reg) = box.cfg
        /\ "HOST_XDG_RUNTIME_DIR" \in DOMAIN box.cfg.env => box.cfg.env["HOST_XDG_RUNTIME_DIR"] # <<>>)
       => rundir = "user"

\* gui.rs:175: what the user has declared is what the container gets: variables, but for
\* the one the name of a configured user goes into (mod.rs:755), and mounts whose target
\* he has written out.
UserWins ==
    box # NoBox =>
    /\ \A k \in DOMAIN box.cfg.env :
          k # "EASYTIDY_USER_NAME" \/ box.cfg.user = None => box.env[k] = box.cfg.env[k]
    /\ LET m == box.cfg.mounts IN
       \A i \in DOMAIN m : (m[i].to # <<>> /\ \A p \in Known : ~Contains(m[i].to, p))
            => \E j \in DOMAIN m : box.mounts[m[i].to] = expand_path(m[j].from, "me")

\* incontainer.rs:57-70, 253-260, pathvars.rs: where the server says the user's home is, his
\* mounts were put, and the account, the directory and the scripts are, unless the
\* container has a user name of an earlier one's.  Once prepared there is one account of
\* the user's and it has a home, accounts of others are left alone, and what was astray
\* in the home is his.
IdentityAgrees ==
    /\ (/\ Quiet
        /\ box.cfg.user # None \/ "EASYTIDY_USER_NAME" \notin DOMAIN box.env)
       => /\ resolve_identity(fs.passwd, box.cfg.user).home = server.home
          /\ box.home # None => box.home = server.home
          /\ (~failed /\ reg # None /\ Loaded(reg) = box.cfg /\ fs.homes # {})
             => /\ server.home \in fs.homes \cap fs.scripts
                /\ ({"fonts", "buttons"} \cap fs.tools) \cup {"ets"} \subseteq fs.rest
    /\ fs.homes # {} =>
       /\ Held(fs.passwd) = {} /\ \E i \in DOMAIN fs.passwd : OfUid(fs.passwd) = {i}
       /\ Quiet => \A i \in DOMAIN box.image :
                     box.image[i].uid # "uid" => Contains(fs.passwd, box.image[i])
       /\ (Quiet /\ faults = 0) => ~fs.strays

\* setup.rs:274-278: the link leads to the cookie of the host's present session once the
\* server has looked, or is that file itself: unless something else looks like a cookie,
\* a file of a former session, of a display of the container's own or the link itself,
\* whose place the user has chosen; or the link could not be written, which is not tried
\* again before the cookies change.
CookieIsFollowed ==
    LET hosts == {d \in Probed : Hosts(d)} IN
    /\ server # None /\ ~stale /\ ~unwritten
    /\ Wanted /\ cookie # None /\ left = {} /\ own = {} /\ hosts # {}
    => \E d \in hosts : Append(d, cookie) \in {link, LinkPath}

(* What a comment says and the code does not do *)

\* incontainer.rs:541-544: the runtime directory of the host is never touched in a
\* container that has it in its own place; only the others have the variable.
DirectIsSpared == hostdir \notin {"touched", "inherited"}
=============================================================================

--------------------------- MODULE ConfigStoreProofs ---------------------------
(***************************************************************************)
(* ConfigStore for any number of commands and applications.                *)
(***************************************************************************)
EXTENDS ConfigStore, TLAPS

\* What a store may hold, and what is left of a command.
Contents(s) == CASE s = "pt" -> PtFiles [] s = "cj" -> CjFiles [] s = "reg" -> SUBSET Scanned
AnyContents == PtFiles \cup CjFiles \cup SUBSET Scanned

Left(op) ==
  CASE op.kind = "remove"   -> {<<"list", "set", "clean">>, <<"set", "clean">>, <<"clean">>}
    [] op.kind = "entry"    -> {<<"host", "cjicon">>, <<"cjicon">>}
    [] op.kind = "shortcut" -> {<<"host", "cjicon", "cjname">>, <<"cjicon", "cjname">>, <<"cjname">>}
    [] op.kind = "reexport" -> {<<"hosticon", "cjicon", "cjname">>, <<"cjicon", "cjname">>, <<"cjname">>}
    [] op.kind = "name"     -> {<<"cjname">>}
    [] op.kind = "boot"     -> IF op.mode = "off"
                               THEN {<<"disable", "unlink", "reload">>, <<"unlink", "reload">>, <<"reload">>}
                               ELSE {<<"install", "reload", "enable">>, <<"reload", "enable">>, <<"enable">>}
    [] op.kind = "export"   -> {<<"export">>}
    [] op.kind = "revoke"   -> {<<"revoke">>}
    [] op.kind = "scan"     -> {<<"scan">>}
    [] op.kind = "launch"   -> {<<"resolve">>}
    [] OTHER                -> {<<"list", "set">>, <<"set">>}

Todos == {<<>>} \cup UNION {Left(op) : op \in Ops}
TaskRec == [todo : Todos, op : Ops \cup {Idle.op}, conn : Nat, saves : PtFiles \cup Paths]
HandlerRec == [pc : {"opened", "filled"}, store : Stores, new : AnyContents,
               key : {"all", "icon", "name"}, at : {"tmp", "file", "gone"}]
Aspects == {"pt", "reg", "icon", "name", "boot", "shortcut"}

Works(t) == handler[t] # NoHandler
Holds(t, a) == Taken(t) /\ Aspect(Op(t)) = a

\* The values of the variables.
Typed ==
  /\ file = [s \in Stores |-> file[s]] /\ tmp = [s \in Stores |-> tmp[s]]
  /\ \A s \in Stores : file[s] \in Contents(s) \cup {NoFile, Torn} /\ tmp[s] \in Contents(s) \cup {NoFile, Torn}
  /\ legacy = [s \in {"pt", "cj"} |-> legacy[s]] /\ want = [s \in {"pt", "cj"} |-> want[s]]
  /\ \A s \in {"pt", "cj"} : legacy[s] \in Contents(s) \cup {NoFile} /\ want[s] \in Contents(s)
  /\ text \in PtFiles \cup {NoFile}
  /\ handler \in [Tasks -> HandlerRec \cup {NoHandler}] /\ task \in [Tasks -> TaskRec] /\ conn \in Nat
  /\ alone \in [Tasks -> BOOLEAN] /\ host \in Paths

\* A handler works for a command at the step it serves, or for one given up.
Slot(t) ==
  /\ Busy(t) => Op(t) \in Ops /\ task[t].todo \in Left(Op(t))
  /\ At(t, "set") => task[t].saves \in PtFiles
  /\ At(t, "cjicon") /\ Op(t).kind = "reexport" => task[t].saves \in Paths

ServesPt(t) == handler[t].store = "pt" => Aspect(Op(t)) = "pt" /\ (Busy(t) => At(t, "set"))
ServesReg(t) == handler[t].store = "reg" => Aspect(Op(t)) = "reg"
ServesCj(t) ==
  handler[t].store = "cj" =>
    /\ Aspect(Op(t)) \in {"icon", "name"} /\ handler[t].key \in {"icon", "name"}
    /\ handler[t].key = "icon" => Aspect(Op(t)) = "icon"
    /\ Busy(t) => At(t, IF handler[t].key = "icon" THEN "cjicon" ELSE "cjname")
    /\ Busy(t) /\ handler[t].key = "icon" =>
         handler[t].new.icon = IF Op(t).kind = "reexport" THEN task[t].saves ELSE Op(t).icon
Serves(t) == Works(t) => /\ server = "up" /\ Op(t) \in Ops /\ handler[t].new \in Contents(handler[t].store)
                         /\ ServesPt(t) /\ ServesReg(t) /\ ServesCj(t)
Work == \A t \in Tasks : Slot(t) /\ Serves(t)

\* Of two commands of one aspect neither is alone, and the aspect is in disorder as long as they last.
Company ==
  /\ \A t, u \in Tasks : t # u /\ Taken(t) /\ Taken(u) /\ Aspect(Op(t)) = Aspect(Op(u)) => ~alone[t]
  /\ \A t \in Tasks : Taken(t) /\ ~alone[t] => Aspect(Op(t)) \in stale

\* A handler that shares its temporary file with nobody.
Sole(t) ==
  LET h == handler[t] IN
  /\ h.at = "tmp" /\ Writers(h.store) = {t}
  /\ h.pc = "filled" => tmp[h.store] = h.new
Writes ==
  \A t \in Tasks : Works(t) /\ (handler[t].store \notin mixed \/ (handler[t].store = "reg" /\ alone[t])) => Sole(t)

\* The rest of a command computed from the file as it is now, by one that runs alone.
Fresh(c) == \A id \in DOMAIN c.apps : c.apps[id].icon # OldIcon
Pending(t) == At(t, "set")
Current(t, new) == Fresh(new) /\ (alone[t] => Allowed(Op(t), Seen("pt")) /\ new = Changed(Op(t), Seen("pt")))

Old(s)  == legacy[s] # NoFile => server = "down" /\ file[s] = NoFile /\ want[s] = legacy[s]
Held(s) == legacy[s] = NoFile /\ (s = "pt" => server # "cut") => file[s] # Torn /\ Seen(s) = want[s]
Renewed == server = "cut" => text \in PtFiles /\ ("pt" \notin mixed => text = NewIcons(want["pt"]))
Read(t) == Pending(t) => legacy["pt"] = NoFile /\ server # "cut" /\ Fresh(Seen("pt")) /\ Current(t, task[t].saves)
Sent(t) == Works(t) /\ handler[t].store = "pt" => Current(t, handler[t].new)
Merges(t) == LET h == handler[t] IN
             Works(t) /\ h.store = "cj" => h.new = [Seen("cj") EXCEPT ![h.key] = h.new[h.key]]

Kept ==
  /\ \A s \in {"pt", "cj"} : Old(s)
  /\ \A s \in {"pt", "cj"} \ mixed : Held(s)
  /\ Renewed
  /\ "pt" \notin mixed => (server = "up" => Fresh(Seen("pt"))) /\ \A t \in Tasks : Read(t) /\ Sent(t)
  /\ "cj" \notin mixed => \A t \in Tasks : Merges(t)

Boots ==
  /\ NoDeadUnit
  /\ \A t \in Tasks : Busy(t) /\ Op(t).kind = "boot" /\ alone[t] =>
       IF Op(t).mode = "off" THEN ~At(t, "disable") => ~enabled
                             ELSE ~At(t, "install") => unit # None

\* A command about the icon that runs alone has set the one on the host to what it brings the container,
\* and one given up while its handler works has left the two in disorder.
Agree == host = want["cj"].icon
Exported(t) ==
  /\ At(t, "cjicon") => task[t].saves = host /\ host # None
  /\ At(t, "cjname") /\ task[t].saves # None => Agree
  /\ "icon" \notin stale => Agree
Entered(t) ==
  /\ At(t, "cjicon") => host = Op(t).icon
  /\ At(t, "cjname") => Agree
MirrorOf(t) ==
  Holds(t, "icon") => /\ ~Busy(t) => "icon" \in stale
                      /\ Busy(t) /\ alone[t] => IF Op(t).kind = "reexport" THEN Exported(t) ELSE Entered(t)
Mirrors ==
  mixed = {} => /\ "icon" \in stale \/ Agree \/ \E t \in Tasks : Holds(t, "icon")
                /\ \A t \in Tasks : MirrorOf(t)

Lists ==
  /\ listed \subseteq installed /\ installed \subseteq Scanned
  /\ "reg" \notin stale => Seen("reg") = {} \/ listed \subseteq Seen("reg")
  /\ \A t \in Tasks : Works(t) /\ handler[t].store = "reg" /\ alone[t] => listed \subseteq handler[t].new

\* What is still on an old connection is a request of some command, and fits the store it is for.
Late(q) ==
  /\ q.store \in Stores /\ q.op \in Ops /\ q.conn \in Nat /\ (q.store # "cj" => Aspect(q.op) = q.store /\ q.key = "all")
  /\ q.store = "pt" => q.new \in PtFiles
  /\ q.store = "cj" => /\ q.key \in {"icon", "name"} /\ Aspect(q.op) \in {"icon", "name"}
                       /\ q.key = "icon" => Aspect(q.op) = "icon"
                       /\ q.new \in IF q.key = "icon" THEN Paths ELSE Icons \cup {None}
Lates == \A q \in late : Late(q) /\ ("pt" \notin mixed /\ q.store = "pt" => Fresh(q.new))

IInv == Typed /\ Work /\ Company /\ Writes /\ Kept /\ Boots /\ Mirrors /\ Lists /\ Lates

-----------------------------------------------------------------------------
(* What the files hold *)

\* A function from some ids to values.
Maps(V) == UNION {[S -> V] : S \in SUBSET Ids}
Apps == [cmd : Cmds, auto : BOOLEAN, icon : Paths]

\* The empty function is the empty sequence.
LEMMA EmptyFun == ASSUME NEW V PROVE <<>> \in Maps(V) /\ DOMAIN <<>> = {} /\ <<>> = [x \in {} |-> x]
<1>1. <<>> = [x \in {} |-> x]
  OBVIOUS
<1>2. <<>> \in [{} -> V]
  OBVIOUS
<1> QED
  BY <1>1, <1>2 DEF Maps

\* Being such a function: its domain and its values.
LEMMA MapsMeans ==
  ASSUME NEW V, NEW f
  PROVE  f \in Maps(V) <=> DOMAIN f \subseteq Ids /\ f = [x \in DOMAIN f |-> f[x]] /\ \A x \in DOMAIN f : f[x] \in V
<1>1. ASSUME f \in Maps(V) PROVE DOMAIN f \subseteq Ids /\ f = [x \in DOMAIN f |-> f[x]] /\ \A x \in DOMAIN f : f[x] \in V
  <2>1. PICK S \in SUBSET Ids : f \in [S -> V]
    BY <1>1 DEF Maps
  <2> QED
    BY <2>1
<1>2. ASSUME DOMAIN f \subseteq Ids, f = [x \in DOMAIN f |-> f[x]], \A x \in DOMAIN f : f[x] \in V PROVE f \in Maps(V)
  <2>1. f \in [DOMAIN f -> V]
    BY <1>2
  <2> QED
    BY <1>2, <2>1 DEF Maps
<1> QED
  BY <1>1, <1>2

\* An entry added or replaced.
LEMMA Added ==
  ASSUME NEW V, NEW f \in Maps(V), NEW id \in Ids, NEW v \in V
  PROVE  /\ With(f, id, v) \in Maps(V) /\ DOMAIN With(f, id, v) = DOMAIN f \cup {id}
         /\ \A x \in DOMAIN f \cup {id} : With(f, id, v)[x] = IF x = id THEN v ELSE f[x]
<1> DEFINE g == With(f, id, v)
<1>1. DOMAIN g = DOMAIN f \cup {id} /\ \A x \in DOMAIN f \cup {id} : g[x] = IF x = id THEN v ELSE f[x]
  BY DEF With
<1>2. g = [x \in DOMAIN g |-> g[x]]
  BY DEF With
<1>3. DOMAIN f \subseteq Ids /\ \A x \in DOMAIN f : f[x] \in V
  BY MapsMeans
<1> HIDE DEF g
<1>4. g \in Maps(V)
  BY <1>1, <1>2, <1>3, MapsMeans
<1> QED
  BY <1>1, <1>4 DEF g

\* An entry taken away.
LEMMA Dropped ==
  ASSUME NEW V, NEW f \in Maps(V), NEW id
  PROVE  /\ Without(f, id) \in Maps(V) /\ DOMAIN Without(f, id) = DOMAIN f \ {id}
         /\ \A x \in DOMAIN f \ {id} : Without(f, id)[x] = f[x]
<1>1. Without(f, id) = [x \in DOMAIN f \ {id} |-> f[x]]
  BY DEF Without, Restrict
<1>2. DOMAIN f \subseteq Ids /\ \A x \in DOMAIN f : f[x] \in V
  BY MapsMeans
<1> HIDE DEF Without
<1>3. Without(f, id) \in Maps(V)
  <2> DEFINE g == Without(f, id)
  <2>1. DOMAIN g \subseteq Ids /\ g = [x \in DOMAIN g |-> g[x]] /\ \A x \in DOMAIN g : g[x] \in V
    BY <1>1, <1>2
  <2> HIDE DEF g
  <2> QED
    BY <2>1, MapsMeans DEF g
<1> QED
  BY <1>1, <1>3

\* passthrough.toml: two such functions.
LEMMA PtMeans ==
  /\ PtFiles = [apps : Maps(Apps), pinned : Maps(Cmds)]
  /\ \A c \in PtFiles : c.apps \in Maps(Apps) /\ c.pinned \in Maps(Cmds) /\ c = [apps |-> c.apps, pinned |-> c.pinned]
  /\ \A a \in Maps(Apps), p \in Maps(Cmds) : [apps |-> a, pinned |-> p] \in PtFiles
<1>1. PtFiles = [apps : Maps(Apps), pinned : Maps(Cmds)]
  BY DEF PtFiles, Maps, Apps
<1> QED
  BY <1>1

\* The commands that change it.
LEMMA PtKinds ==
  ASSUME NEW op \in PtOps
  PROVE  /\ op.kind \in {"pin", "auto", "add", "update", "remove", "icon"}
         /\ op.id \in Ids
         /\ op.kind \in {"pin", "auto", "add", "update"} => op.cmd \in Cmds
         /\ op.kind \in {"pin", "auto"} => op.on \in BOOLEAN
         /\ op.kind = "update" => op.new \in Ids
         /\ op.kind = "icon" => op.icon \in Icons \cup {None}
BY DEF PtOps, Ids

\* What a file of another path has for an application.
LEMMA AppTyped ==
  ASSUME NEW c \in PtFiles, NEW id, NEW cmd \in Cmds, NEW auto \in BOOLEAN
  PROVE  App(id, c, cmd, auto) \in Apps /\ (Fresh(c) => App(id, c, cmd, auto).icon # OldIcon)
<1>1. c.apps \in Maps(Apps)
  BY PtMeans
<1>2. \A x \in DOMAIN c.apps : c.apps[x] \in Apps
  BY <1>1, MapsMeans
<1>3. \A x \in DOMAIN c.apps : c.apps[x].icon \in Paths
  BY <1>2 DEF Apps
<1>4. None \in Paths /\ None # OldIcon
  BY Absent DEF Paths
<1> QED
  BY <1>3, <1>4 DEF App, Apps, Fresh

\* What a command makes of a file is a file, without icons in the old place if there were none.
LEMMA PinTyped ==
  ASSUME NEW op \in PtOps, op.kind = "pin", NEW c \in PtFiles
  PROVE  SetPinned(op, c) \in PtFiles /\ SetPinned(op, c).apps = c.apps
<1>1. c.apps \in Maps(Apps) /\ c.pinned \in Maps(Cmds) /\ c = [apps |-> c.apps, pinned |-> c.pinned]
  BY PtMeans
<1>2. With(c.pinned, op.id, op.cmd) \in Maps(Cmds) /\ Without(c.pinned, op.id) \in Maps(Cmds)
  BY <1>1, PtKinds, Added, Dropped
<1> DEFINE p == IF op.on THEN With(c.pinned, op.id, op.cmd) ELSE Without(c.pinned, op.id)
<1>3. p \in Maps(Cmds)
  BY <1>2
<1>4. SetPinned(op, c) = [c EXCEPT !.pinned = p]
  BY DEF SetPinned
<1> HIDE DEF p
<1>5. [c EXCEPT !.pinned = p] = [apps |-> c.apps, pinned |-> p]
  BY <1>1
<1> QED
  BY <1>1, <1>3, <1>4, <1>5, PtMeans

\* Changing the applications only.
LEMMA AppsChanged ==
  ASSUME NEW c \in PtFiles, NEW a \in Maps(Apps)
  PROVE  [c EXCEPT !.apps = a] \in PtFiles /\ [c EXCEPT !.apps = a].apps = a
<1>1. c.pinned \in Maps(Cmds) /\ c = [apps |-> c.apps, pinned |-> c.pinned]
  BY PtMeans
<1>2. [c EXCEPT !.apps = a] = [apps |-> a, pinned |-> c.pinned]
  BY <1>1
<1> QED
  BY <1>1, <1>2, PtMeans

FreshApps(a) == \A id \in DOMAIN a : a[id].icon # OldIcon

\* The same of one entry of them.
LEMMA EntryChanged ==
  ASSUME NEW a \in Maps(Apps), NEW id \in DOMAIN a, NEW v \in Apps
  PROVE  /\ [a EXCEPT ![id] = v] \in Maps(Apps)
         /\ FreshApps(a) /\ v.icon # OldIcon => FreshApps([a EXCEPT ![id] = v])
<1> DEFINE b == [a EXCEPT ![id] = v]
<1>1. DOMAIN a \subseteq Ids /\ a = [x \in DOMAIN a |-> a[x]] /\ \A x \in DOMAIN a : a[x] \in Apps
  BY MapsMeans
<1>2. DOMAIN b = DOMAIN a /\ b = [x \in DOMAIN b |-> b[x]] /\ \A x \in DOMAIN a : b[x] = IF x = id THEN v ELSE a[x]
  BY <1>1
<1> HIDE DEF b
<1>3. b \in Maps(Apps)
  BY <1>1, <1>2, MapsMeans
<1> QED
  BY <1>2, <1>3 DEF b, FreshApps

LEMMA WithFresh ==
  ASSUME NEW a \in Maps(Apps), NEW id \in Ids, NEW v \in Apps
  PROVE  /\ With(a, id, v) \in Maps(Apps) /\ (FreshApps(a) /\ v.icon # OldIcon => FreshApps(With(a, id, v)))
         /\ Without(a, id) \in Maps(Apps) /\ (FreshApps(a) => FreshApps(Without(a, id)))
<1>1. /\ With(a, id, v) \in Maps(Apps) /\ DOMAIN With(a, id, v) = DOMAIN a \cup {id}
      /\ \A x \in DOMAIN a \cup {id} : With(a, id, v)[x] = IF x = id THEN v ELSE a[x]
  <2>1. With(a, id, v) \in Maps(Apps)
    BY Added
  <2>2. DOMAIN With(a, id, v) = DOMAIN a \cup {id}
    BY DEF With
  <2>3. \A x \in DOMAIN a \cup {id} : With(a, id, v)[x] = IF x = id THEN v ELSE a[x]
    BY DEF With
  <2> QED
    BY <2>1, <2>2, <2>3
<1>2. /\ Without(a, id) \in Maps(Apps) /\ DOMAIN Without(a, id) = DOMAIN a \ {id}
      /\ \A x \in DOMAIN a \ {id} : Without(a, id)[x] = a[x]
  BY Dropped
<1> QED
  BY <1>1, <1>2 DEF FreshApps

LEMMA FreshMeans == \A c : Fresh(c) <=> FreshApps(c.apps)
BY DEF Fresh, FreshApps

LEMMA AutoTyped ==
  ASSUME NEW op \in PtOps, op.kind = "auto", NEW c \in PtFiles
  PROVE  SetAutoStart(op, c) \in PtFiles /\ (Fresh(c) => Fresh(SetAutoStart(op, c)))
<1>1. c.apps \in Maps(Apps) /\ op.id \in Ids /\ op.cmd \in Cmds
  BY PtMeans, PtKinds
<1>2. App(op.id, c, op.cmd, TRUE) \in Apps /\ (Fresh(c) => App(op.id, c, op.cmd, TRUE).icon # OldIcon)
  BY <1>1, AppTyped
<1> DEFINE add == With(c.apps, op.id, App(op.id, c, op.cmd, TRUE))
           drop == Without(c.apps, op.id)
           off == [c.apps EXCEPT ![op.id].auto = FALSE]
<1>3. add \in Maps(Apps) /\ (Fresh(c) => FreshApps(add)) /\ drop \in Maps(Apps) /\ (Fresh(c) => FreshApps(drop))
  BY <1>1, <1>2, WithFresh, FreshMeans
<1>4. ASSUME op.id \in DOMAIN c.apps PROVE off \in Maps(Apps) /\ (Fresh(c) => FreshApps(off))
  <2> DEFINE v == [c.apps[op.id] EXCEPT !.auto = FALSE]
  <2>1. c.apps[op.id] \in Apps
    BY <1>1, <1>4, MapsMeans
  <2>2. v \in Apps /\ v.icon = c.apps[op.id].icon
    BY <2>1 DEF Apps
  <2>3. off = [c.apps EXCEPT ![op.id] = v]
    OBVIOUS
  <2> HIDE DEF v
  <2> QED
    BY <1>1, <1>4, <2>2, <2>3, EntryChanged, FreshMeans DEF FreshApps
<1> DEFINE a == IF op.on THEN add ELSE IF op.id \in Scanned THEN drop ELSE IF op.id \in DOMAIN c.apps THEN off ELSE c.apps
<1>5. SetAutoStart(op, c) = [c EXCEPT !.apps = a]
  BY DEF SetAutoStart
<1> HIDE DEF add, drop, off
<1>6. a \in Maps(Apps) /\ (Fresh(c) => FreshApps(a))
  BY <1>1, <1>3, <1>4, FreshMeans
<1> HIDE DEF a
<1> QED
  BY <1>5, <1>6, AppsChanged, FreshMeans

LEMMA AddTyped ==
  ASSUME NEW op \in PtOps, op.kind = "add", NEW c \in PtFiles
  PROVE  AddCustom(op, c) \in PtFiles /\ (Fresh(c) => Fresh(AddCustom(op, c)))
<1>1. c.apps \in Maps(Apps) /\ op.id \in Ids /\ op.cmd \in Cmds
  BY PtMeans, PtKinds
<1>2. App(op.id, c, op.cmd, FALSE) \in Apps /\ (Fresh(c) => App(op.id, c, op.cmd, FALSE).icon # OldIcon)
  BY <1>1, AppTyped
<1> DEFINE a == With(c.apps, op.id, App(op.id, c, op.cmd, FALSE))
<1>3. a \in Maps(Apps) /\ (Fresh(c) => FreshApps(a))
  BY <1>1, <1>2, WithFresh, FreshMeans
<1>4. AddCustom(op, c) = [c EXCEPT !.apps = a]
  BY DEF AddCustom
<1> HIDE DEF a
<1> QED
  BY <1>3, <1>4, AppsChanged, FreshMeans

LEMMA UpdateTyped ==
  ASSUME NEW op \in PtOps, op.kind = "update", NEW c \in PtFiles, op.id \in DOMAIN c.apps
  PROVE  UpdateCustom(op, c) \in PtFiles /\ (Fresh(c) => Fresh(UpdateCustom(op, c)))
<1>1. c.apps \in Maps(Apps) /\ c.pinned \in Maps(Cmds) /\ op.id \in Ids /\ op.new \in Ids /\ op.cmd \in Cmds
  BY PtMeans, PtKinds
<1> DEFINE v == [c.apps[op.id] EXCEPT !.cmd = op.cmd]
           rest == Without(c.apps, op.id)
           a == With(rest, op.new, v)
           p == IF op.new # op.id /\ op.id \in DOMAIN c.pinned
                THEN With(Without(c.pinned, op.id), op.new, op.cmd) ELSE c.pinned
<1>2. c.apps[op.id] \in Apps
  BY <1>1, MapsMeans
<1>3. v \in Apps /\ v.icon = c.apps[op.id].icon
  BY <1>1, <1>2 DEF Apps
<1>4. Fresh(c) => v.icon # OldIcon
  BY <1>3 DEF Fresh
<1> HIDE DEF v
<1>5. rest \in Maps(Apps) /\ (Fresh(c) => FreshApps(rest))
  BY <1>1, <1>3, WithFresh, FreshMeans
<1> HIDE DEF rest
<1>6. a \in Maps(Apps) /\ (Fresh(c) => FreshApps(a))
  BY <1>1, <1>3, <1>4, <1>5, WithFresh
<1>7. p \in Maps(Cmds)
  <2>1. Without(c.pinned, op.id) \in Maps(Cmds)
    BY <1>1, Dropped
  <2>2. With(Without(c.pinned, op.id), op.new, op.cmd) \in Maps(Cmds)
    BY <1>1, <2>1, Added
  <2> QED
    BY <1>1, <2>2
<1>8. UpdateCustom(op, c) = [apps |-> a, pinned |-> p]
  BY DEF UpdateCustom, v, rest
<1> HIDE DEF a, p
<1>9. UpdateCustom(op, c) \in PtFiles /\ UpdateCustom(op, c).apps = a
  BY <1>6, <1>7, <1>8, PtMeans
<1> QED
  BY <1>6, <1>9, FreshMeans

LEMMA RemoveTyped ==
  ASSUME NEW op \in PtOps, op.kind = "remove", NEW c \in PtFiles
  PROVE  RemoveApp(op, c) \in PtFiles /\ (Fresh(c) => Fresh(RemoveApp(op, c)))
<1>1. c.apps \in Maps(Apps) /\ c.pinned \in Maps(Cmds)
  BY PtMeans
<1>2. Without(c.apps, op.id) \in Maps(Apps) /\ Without(c.pinned, op.id) \in Maps(Cmds)
  BY <1>1, Dropped
<1>3. FreshApps(c.apps) => FreshApps(Without(c.apps, op.id))
  <2>1. DOMAIN Without(c.apps, op.id) = DOMAIN c.apps \ {op.id}
    BY DEF Without, Restrict
  <2>2. \A x \in DOMAIN c.apps \ {op.id} : Without(c.apps, op.id)[x] = c.apps[x]
    BY DEF Without, Restrict
  <2> QED
    BY <2>1, <2>2 DEF FreshApps
<1>4. RemoveApp(op, c) \in PtFiles /\ RemoveApp(op, c).apps = Without(c.apps, op.id)
  BY <1>2, PtMeans DEF RemoveApp
<1> QED
  BY <1>3, <1>4, FreshMeans

LEMMA IconTyped ==
  ASSUME NEW op \in PtOps, op.kind = "icon", NEW c \in PtFiles, op.id \in DOMAIN c.apps
  PROVE  SetCustomIcon(op, c) \in PtFiles /\ (Fresh(c) => Fresh(SetCustomIcon(op, c)))
<1>1. c.apps \in Maps(Apps) /\ op.icon \in Icons \cup {None}
  BY PtMeans, PtKinds
<1> DEFINE v == [c.apps[op.id] EXCEPT !.icon = op.icon]
           a == [c.apps EXCEPT ![op.id] = v]
<1>2. c.apps[op.id] \in Apps
  BY <1>1, MapsMeans
<1>3. v \in Apps /\ v.icon = op.icon
  BY <1>1, <1>2 DEF Apps, Paths
<1>4. v.icon # OldIcon
  BY <1>1, <1>3, Absent, Chosen
<1>5. SetCustomIcon(op, c) = [c EXCEPT !.apps = a]
  BY DEF SetCustomIcon
<1> HIDE DEF v
<1>6. a \in Maps(Apps) /\ (Fresh(c) => FreshApps(a))
  BY <1>1, <1>3, <1>4, EntryChanged, FreshMeans
<1> HIDE DEF a
<1> QED
  <2>1. [c EXCEPT !.apps = a] \in PtFiles /\ [c EXCEPT !.apps = a].apps = a
    BY <1>6, AppsChanged
  <2> QED
    BY <1>5, <1>6, <2>1, FreshMeans

\* What a command sends back is a file again, and puts no icon back into the old place.
LEMMA ChangedTyped ==
  ASSUME NEW op \in PtOps, NEW c \in PtFiles, Allowed(op, c)
  PROVE  Changed(op, c) \in PtFiles /\ (Fresh(c) => Fresh(Changed(op, c)))
<1>1. CASE op.kind = "pin"
  <2>1. Changed(op, c) = SetPinned(op, c)
    BY <1>1 DEF Changed
  <2> QED
    BY <1>1, <2>1, PinTyped, FreshMeans
<1>2. CASE op.kind = "auto"
  <2>1. Changed(op, c) = SetAutoStart(op, c)
    BY <1>2 DEF Changed
  <2> QED
    BY <1>2, <2>1, AutoTyped
<1>3. CASE op.kind = "add"
  <2>1. Changed(op, c) = AddCustom(op, c)
    BY <1>3 DEF Changed
  <2> QED
    BY <1>3, <2>1, AddTyped
<1>4. CASE op.kind = "update"
  <2>1. Changed(op, c) = UpdateCustom(op, c) /\ op.id \in DOMAIN c.apps
    BY <1>4 DEF Changed, Allowed
  <2> QED
    BY <1>4, <2>1, UpdateTyped
<1>5. CASE op.kind = "remove"
  <2>1. Changed(op, c) = RemoveApp(op, c)
    BY <1>5 DEF Changed
  <2> QED
    BY <1>5, <2>1, RemoveTyped
<1>6. CASE op.kind = "icon"
  <2>1. Changed(op, c) = SetCustomIcon(op, c) /\ op.id \in DOMAIN c.apps
    BY <1>6 DEF Changed, Allowed
  <2> QED
    BY <1>6, <2>1, IconTyped
<1> QED
  BY <1>1, <1>2, <1>3, <1>4, <1>5, <1>6, PtKinds

-----------------------------------------------------------------------------
(* Files as they are read *)

LEMMA PtDefault == Default["pt"] \in PtFiles /\ Fresh(Default["pt"]) /\ NewIcons(Default["pt"]) = Default["pt"]
<1> DEFINE d == Default["pt"]
<1>1. d = [apps |-> <<>>, pinned |-> <<>>]
  BY DEF Default
<1>2. <<>> \in Maps(Apps) /\ <<>> \in Maps(Cmds) /\ DOMAIN <<>> = {}
  BY EmptyFun
<1>3. [id \in DOMAIN d.apps |-> [d.apps[id] EXCEPT !.icon = IF @ = OldIcon THEN NewIcon ELSE @]] = <<>>
  BY <1>1, <1>2
<1>4. NewIcons(d) = d
  BY <1>1, <1>3 DEF NewIcons
<1> QED
  BY <1>1, <1>2, <1>4, PtMeans DEF Fresh

LEMMA DefaultTyped == \A s \in Stores : Default[s] \in Contents(s)
<1>1. Default["pt"] \in Contents("pt")
  BY PtDefault DEF Contents
<1>2. Default["cj"] \in Contents("cj")
  BY DEF Contents, Default, CjFiles, Paths
<1>3. Default["reg"] \in Contents("reg")
  BY DEF Contents, Default
<1> QED
  BY <1>1, <1>2, <1>3 DEF Stores

LEMMA ContentsMeans ==
  /\ Contents("pt") = PtFiles /\ Contents("cj") = CjFiles /\ Contents("reg") = SUBSET Scanned
  /\ \A s \in Stores : NoFile \notin Contents(s) /\ Torn \notin Contents(s)
<1>1. Contents("pt") = PtFiles /\ Contents("cj") = CjFiles /\ Contents("reg") = SUBSET Scanned
  BY DEF Contents
<1> QED
  BY <1>1, Absent DEF Stores

\* A reader takes what a file holds or the default.
LEMMA SeenMeans ==
  ASSUME Typed, NEW s \in Stores
  PROVE  /\ Seen(s) \in Contents(s)
         /\ file[s] \notin {NoFile, Torn} => Seen(s) = file[s]
         /\ file[s] \in {NoFile, Torn} => Seen(s) = Default[s]
         /\ file[s] \in Contents(s) => Seen(s) = file[s]
BY DefaultTyped, ContentsMeans DEF Typed, Seen

\* Rewriting the icon paths.
LEMMA NewIconsTyped ==
  ASSUME NEW c \in PtFiles
  PROVE  NewIcons(c) \in PtFiles /\ Fresh(NewIcons(c)) /\ (Fresh(c) => NewIcons(c) = c)
<1> DEFINE New(x) == [c.apps[x] EXCEPT !.icon = IF @ = OldIcon THEN NewIcon ELSE @]
           a == [x \in DOMAIN c.apps |-> New(x)]
<1>1. c.apps \in Maps(Apps) /\ c = [apps |-> c.apps, pinned |-> c.pinned]
  BY PtMeans
<1>2. /\ DOMAIN c.apps \subseteq Ids /\ c.apps = [x \in DOMAIN c.apps |-> c.apps[x]]
      /\ \A x \in DOMAIN c.apps : c.apps[x] \in Apps
  BY <1>1, MapsMeans
<1>3. NewIcons(c) = [c EXCEPT !.apps = a]
  BY DEF NewIcons
<1>4. NewIcon \in Paths /\ NewIcon # OldIcon
  BY DEF Paths, NewIcon, OldIcon
<1>5. \A x \in DOMAIN c.apps : /\ New(x) \in Apps /\ New(x).icon # OldIcon
                               /\ c.apps[x].icon # OldIcon => New(x) = c.apps[x]
  <2> SUFFICES ASSUME NEW x \in DOMAIN c.apps
               PROVE  /\ New(x) \in Apps /\ New(x).icon # OldIcon
                      /\ c.apps[x].icon # OldIcon => New(x) = c.apps[x]
    OBVIOUS
  <2> DEFINE r == c.apps[x]
  <2>1. r \in Apps /\ r.icon \in Paths
    BY <1>2 DEF Apps
  <2> HIDE DEF r
  <2>2. \A i \in Paths : [r EXCEPT !.icon = i] \in Apps /\ [r EXCEPT !.icon = i].icon = i /\ [r EXCEPT !.icon = r.icon] = r
    BY <2>1 DEF Apps
  <2>3. New(x) = [r EXCEPT !.icon = IF r.icon = OldIcon THEN NewIcon ELSE r.icon]
    BY DEF r
  <2> HIDE DEF New
  <2> QED
    BY <1>4, <2>1, <2>2, <2>3 DEF r
<1> HIDE DEF New
<1>6. DOMAIN a = DOMAIN c.apps /\ a = [x \in DOMAIN a |-> a[x]] /\ \A x \in DOMAIN c.apps : a[x] = New(x)
  OBVIOUS
<1>7. ASSUME Fresh(c) PROVE a = c.apps
  <2>1. \A x \in DOMAIN c.apps : New(x) = c.apps[x]
    BY <1>5, <1>7 DEF Fresh
  <2> QED
    BY <1>2, <2>1
<1> HIDE DEF a
<1>8. a \in Maps(Apps) /\ FreshApps(a)
  BY <1>2, <1>5, <1>6, MapsMeans DEF FreshApps
<1>9. ASSUME Fresh(c) PROVE NewIcons(c) = c
  <2>1. [c EXCEPT !.apps = c.apps] = c
    BY <1>1
  <2> QED
    BY <1>3, <1>7, <1>9, <2>1
<1> QED
  BY <1>3, <1>8, <1>9, AppsChanged, FreshMeans

-----------------------------------------------------------------------------
(* Commands and what is left of them *)

LEMMA OpsKinds ==
  ASSUME NEW op \in Ops
  PROVE  /\ op.kind \in {"pin", "auto", "add", "update", "remove", "icon", "entry", "name", "shortcut", "reexport",
                         "boot", "export", "revoke", "scan", "launch"}
         /\ op.kind \in {"pin", "auto", "add", "update", "remove", "icon"} => op \in PtOps
         /\ op.kind = "boot" => op.mode \in {"off", "silent", "gui"}
         /\ op.kind \in {"entry", "shortcut"} => op.icon \in Icons \cup {None}
         /\ op.kind \in {"name", "shortcut", "reexport"} => op.name \in Icons \cup {None}
         /\ op.kind \in {"export", "revoke", "remove"} => op.id \in Ids
<1>1. CASE op \in PtOps
  BY <1>1, PtKinds
<1>2. CASE op \in OtherOps
  BY <1>2 DEF OtherOps
<1> QED
  BY <1>1, <1>2 DEF Ops

\* The aspect a command is about.
LEMMA AspectOf ==
  ASSUME NEW op \in Ops
  PROVE  /\ Aspect(op) = "pt" <=> op \in PtOps
         /\ Aspect(op) = "pt" <=> op.kind \in {"pin", "auto", "add", "update", "remove", "icon"}
         /\ Aspect(op) = "icon" <=> op.kind \in {"entry", "shortcut", "reexport"}
         /\ Aspect(op) = "name" <=> op.kind = "name"
         /\ Aspect(op) = "boot" <=> op.kind = "boot"
         /\ Aspect(op) = "shortcut" <=> op.kind \in {"export", "revoke"}
         /\ Aspect(op) = "reg" <=> op.kind \in {"scan", "launch"}
         /\ Aspect(op) \in Aspects
<1>1. op \in PtOps => op.kind \in {"pin", "auto", "add", "update", "remove", "icon"}
  BY PtKinds
<1> QED
  BY <1>1, OpsKinds DEF Aspect, Aspects

\* One step of a list of steps.
LEMMA Lists3 ==
  /\ \A a, b, c : /\ Head(<<a, b, c>>) = a /\ Tail(<<a, b, c>>) = <<b, c>> /\ Len(<<a, b, c>>) = 3
                  /\ <<a, b, c>> # <<>>
  /\ \A a, b : Head(<<a, b>>) = a /\ Tail(<<a, b>>) = <<b>> /\ Len(<<a, b>>) = 2 /\ <<a, b>> # <<>>
  /\ \A a : Head(<<a>>) = a /\ Tail(<<a>>) = <<>> /\ Len(<<a>>) = 1 /\ <<a>> # <<>>
OBVIOUS

Kinds == {"pin", "auto", "add", "update", "icon", "remove", "entry", "shortcut", "reexport", "name", "boot",
          "export", "revoke", "scan", "launch"}

\* What may be left, kind by kind.
LEMMA LeftCases ==
  ASSUME NEW op \in Ops
  PROVE  /\ op.kind \in {"pin", "auto", "add", "update", "icon"} => Left(op) = {<<"list", "set">>, <<"set">>}
         /\ op.kind = "remove" => Left(op) = {<<"list", "set", "clean">>, <<"set", "clean">>, <<"clean">>}
         /\ op.kind = "entry" => Left(op) = {<<"host", "cjicon">>, <<"cjicon">>}
         /\ op.kind = "shortcut" => Left(op) = {<<"host", "cjicon", "cjname">>, <<"cjicon", "cjname">>, <<"cjname">>}
         /\ op.kind = "reexport" =>
              Left(op) = {<<"hosticon", "cjicon", "cjname">>, <<"cjicon", "cjname">>, <<"cjname">>}
         /\ op.kind = "name" => Left(op) = {<<"cjname">>}
         /\ op.kind = "boot" /\ op.mode = "off" =>
              Left(op) = {<<"disable", "unlink", "reload">>, <<"unlink", "reload">>, <<"reload">>}
         /\ op.kind = "boot" /\ op.mode # "off" =>
              Left(op) = {<<"install", "reload", "enable">>, <<"reload", "enable">>, <<"enable">>}
         /\ op.kind = "export" => Left(op) = {<<"export">>}
         /\ op.kind = "revoke" => Left(op) = {<<"revoke">>}
         /\ op.kind = "scan" => Left(op) = {<<"scan">>}
         /\ op.kind = "launch" => Left(op) = {<<"resolve">>}
BY DEF Left

\* Which command a step belongs to, and which step comes next.
Belongs(op, q) ==
  /\ Head(q) \in {"list", "set"} => Aspect(op) = "pt"
  /\ Head(q) = "clean" => op.kind = "remove"
  /\ Head(q) = "host" => op.kind \in {"entry", "shortcut"}
  /\ Head(q) = "hosticon" => op.kind = "reexport"
  /\ Head(q) = "cjicon" => Aspect(op) = "icon"
  /\ Head(q) = "cjname" => op.kind \in {"shortcut", "reexport", "name"}
  /\ Head(q) \in {"disable", "unlink"} => op.kind = "boot" /\ op.mode = "off"
  /\ Head(q) \in {"install", "enable"} => op.kind = "boot" /\ op.mode # "off"
  /\ Head(q) = "reload" => op.kind = "boot"
  /\ Head(q) \in {"export", "revoke"} => op.kind = Head(q)
  /\ Head(q) = "scan" => op.kind = "scan"
  /\ Head(q) = "resolve" => op.kind = "launch"
  /\ Aspect(op) = "icon" => Head(q) \in {"host", "hosticon", "cjicon", "cjname"}
  /\ op.kind = "entry" => Head(q) \in {"host", "cjicon"}
  /\ op.kind = "boot" => Head(q) \in IF op.mode = "off" THEN {"disable", "unlink", "reload"}
                                                         ELSE {"install", "reload", "enable"}
Follows(op, q) ==
  /\ Len(q) = 1 <=> Tail(q) = <<>>
  /\ Head(q) = "list" => Tail(q) # <<>>
  /\ Tail(q) # <<>> =>
       /\ Head(q) = "list" <=> Head(Tail(q)) = "set"
       /\ Head(Tail(q)) = "cjicon" <=> Head(q) \in {"host", "hosticon"}
       /\ Head(Tail(q)) = "cjname" => Head(q) = "cjicon"
       /\ Head(q) = "hosticon" => op.kind = "reexport"
       /\ Head(Tail(q)) \notin {"list", "host", "hosticon", "disable", "install", "scan", "resolve"}
  /\ Head(q) \in {"disable", "unlink", "install"} => Tail(q) # <<>>
  /\ Head(q) \in {"host", "hosticon"} => Tail(q) # <<>>
  /\ Len(q) = 1 =>
       /\ op.kind = "boot" => Head(q) = IF op.mode = "off" THEN "reload" ELSE "enable"
       /\ op.kind = "entry" => Head(q) = "cjicon"
       /\ op.kind \in {"shortcut", "reexport"} => Head(q) = "cjname"

LEMMA LeftMeans ==
  ASSUME NEW op \in Ops, NEW q \in Left(op)
  PROVE  q # <<>> /\ Tail(q) \in Left(op) \cup {<<>>} /\ Belongs(op, q) /\ Follows(op, q)
<1> DEFINE P == q # <<>> /\ Tail(q) \in Left(op) \cup {<<>>} /\ Belongs(op, q) /\ Follows(op, q)
<1> SUFFICES P
  OBVIOUS
<1>0. op.kind \in Kinds
  BY OpsKinds DEF Kinds
<1>1. CASE op.kind \in {"pin", "auto", "add", "update", "icon"}
  <2>1. Aspect(op) = "pt" /\ Left(op) = {<<"list", "set">>, <<"set">>}
    BY <1>1, LeftCases, AspectOf
  <2>2. CASE q = <<"list", "set">>
    <3>1. q # <<>> /\ Head(q) = "list" /\ Tail(q) = <<"set">> /\ Len(q) = 2 /\ Tail(q) # <<>>
      BY <2>2
    <3>2. Head(Tail(q)) = "set" /\ Tail(q) \in Left(op)
      BY <3>1, <2>1
    <3>3. q # <<>> /\ Head(q) = "list" /\ Len(q) = 2 /\ Tail(q) # <<>>
      BY <3>1
    <3> QED
      BY <1>1, <2>1, <3>2, <3>3 DEF Belongs, Follows
  <2>3. CASE q = <<"set">>
    <3>1. q # <<>> /\ Head(q) = "set" /\ Tail(q) = <<>> /\ Len(q) = 1
      BY <2>3
    <3> QED
      BY <1>1, <2>1, <3>1 DEF Belongs, Follows
  <2> QED
    BY <2>1, <2>2, <2>3
<1>2. CASE op.kind = "remove"
  <2>1. Aspect(op) = "pt" /\ Left(op) = {<<"list", "set", "clean">>, <<"set", "clean">>, <<"clean">>}
    BY <1>2, LeftCases, AspectOf
  <2>2. CASE q = <<"list", "set", "clean">>
    <3>1. q # <<>> /\ Head(q) = "list" /\ Tail(q) = <<"set", "clean">> /\ Len(q) = 3 /\ Tail(q) # <<>>
      BY <2>2
    <3>2. Head(Tail(q)) = "set" /\ Tail(q) \in Left(op)
      BY <3>1, <2>1
    <3>3. q # <<>> /\ Head(q) = "list" /\ Len(q) = 3 /\ Tail(q) # <<>>
      BY <3>1
    <3> QED
      BY <1>2, <2>1, <3>2, <3>3 DEF Belongs, Follows
  <2>3. CASE q = <<"set", "clean">>
    <3>1. q # <<>> /\ Head(q) = "set" /\ Tail(q) = <<"clean">> /\ Len(q) = 2 /\ Tail(q) # <<>>
      BY <2>3
    <3>2. Head(Tail(q)) = "clean" /\ Tail(q) \in Left(op)
      BY <3>1, <2>1
    <3>3. q # <<>> /\ Head(q) = "set" /\ Len(q) = 2 /\ Tail(q) # <<>>
      BY <3>1
    <3> QED
      BY <1>2, <2>1, <3>2, <3>3 DEF Belongs, Follows
  <2>4. CASE q = <<"clean">>
    <3>1. q # <<>> /\ Head(q) = "clean" /\ Tail(q) = <<>> /\ Len(q) = 1
      BY <2>4
    <3> QED
      BY <1>2, <2>1, <3>1 DEF Belongs, Follows
  <2> QED
    BY <2>1, <2>2, <2>3, <2>4
<1>3. CASE op.kind = "entry"
  <2>1. Aspect(op) = "icon" /\ Left(op) = {<<"host", "cjicon">>, <<"cjicon">>}
    BY <1>3, LeftCases, AspectOf
  <2>2. CASE q = <<"host", "cjicon">>
    <3>1. q # <<>> /\ Head(q) = "host" /\ Tail(q) = <<"cjicon">> /\ Len(q) = 2 /\ Tail(q) # <<>>
      BY <2>2
    <3>2. Head(Tail(q)) = "cjicon" /\ Tail(q) \in Left(op)
      BY <3>1, <2>1
    <3>3. q # <<>> /\ Head(q) = "host" /\ Len(q) = 2 /\ Tail(q) # <<>>
      BY <3>1
    <3> QED
      BY <1>3, <2>1, <3>2, <3>3 DEF Belongs, Follows
  <2>3. CASE q = <<"cjicon">>
    <3>1. q # <<>> /\ Head(q) = "cjicon" /\ Tail(q) = <<>> /\ Len(q) = 1
      BY <2>3
    <3> QED
      BY <1>3, <2>1, <3>1 DEF Belongs, Follows
  <2> QED
    BY <2>1, <2>2, <2>3
<1>4. CASE op.kind = "shortcut"
  <2>1. Aspect(op) = "icon" /\ Left(op) = {<<"host", "cjicon", "cjname">>, <<"cjicon", "cjname">>, <<"cjname">>}
    BY <1>4, LeftCases, AspectOf
  <2>2. CASE q = <<"host", "cjicon", "cjname">>
    <3>1. q # <<>> /\ Head(q) = "host" /\ Tail(q) = <<"cjicon", "cjname">> /\ Len(q) = 3 /\ Tail(q) # <<>>
      BY <2>2
    <3>2. Head(Tail(q)) = "cjicon" /\ Tail(q) \in Left(op)
      BY <3>1, <2>1
    <3>3. q # <<>> /\ Head(q) = "host" /\ Len(q) = 3 /\ Tail(q) # <<>>
      BY <3>1
    <3> QED
      BY <1>4, <2>1, <3>2, <3>3 DEF Belongs, Follows
  <2>3. CASE q = <<"cjicon", "cjname">>
    <3>1. q # <<>> /\ Head(q) = "cjicon" /\ Tail(q) = <<"cjname">> /\ Len(q) = 2 /\ Tail(q) # <<>>
      BY <2>3
    <3>2. Head(Tail(q)) = "cjname" /\ Tail(q) \in Left(op)
      BY <3>1, <2>1
    <3>3. q # <<>> /\ Head(q) = "cjicon" /\ Len(q) = 2 /\ Tail(q) # <<>>
      BY <3>1
    <3> QED
      BY <1>4, <2>1, <3>2, <3>3 DEF Belongs, Follows
  <2>4. CASE q = <<"cjname">>
    <3>1. q # <<>> /\ Head(q) = "cjname" /\ Tail(q) = <<>> /\ Len(q) = 1
      BY <2>4
    <3> QED
      BY <1>4, <2>1, <3>1 DEF Belongs, Follows
  <2> QED
    BY <2>1, <2>2, <2>3, <2>4
<1>5. CASE op.kind = "reexport"
  <2>1. Aspect(op) = "icon" /\ Left(op) = {<<"hosticon", "cjicon", "cjname">>, <<"cjicon", "cjname">>, <<"cjname">>}
    BY <1>5, LeftCases, AspectOf
  <2>2. CASE q = <<"hosticon", "cjicon", "cjname">>
    <3>1. q # <<>> /\ Head(q) = "hosticon" /\ Tail(q) = <<"cjicon", "cjname">> /\ Len(q) = 3 /\ Tail(q) # <<>>
      BY <2>2
    <3>2. Head(Tail(q)) = "cjicon" /\ Tail(q) \in Left(op)
      BY <3>1, <2>1
    <3>3. q # <<>> /\ Head(q) = "hosticon" /\ Len(q) = 3 /\ Tail(q) # <<>>
      BY <3>1
    <3> QED
      BY <1>5, <2>1, <3>2, <3>3 DEF Belongs, Follows
  <2>3. CASE q = <<"cjicon", "cjname">>
    <3>1. q # <<>> /\ Head(q) = "cjicon" /\ Tail(q) = <<"cjname">> /\ Len(q) = 2 /\ Tail(q) # <<>>
      BY <2>3
    <3>2. Head(Tail(q)) = "cjname" /\ Tail(q) \in Left(op)
      BY <3>1, <2>1
    <3>3. q # <<>> /\ Head(q) = "cjicon" /\ Len(q) = 2 /\ Tail(q) # <<>>
      BY <3>1
    <3> QED
      BY <1>5, <2>1, <3>2, <3>3 DEF Belongs, Follows
  <2>4. CASE q = <<"cjname">>
    <3>1. q # <<>> /\ Head(q) = "cjname" /\ Tail(q) = <<>> /\ Len(q) = 1
      BY <2>4
    <3> QED
      BY <1>5, <2>1, <3>1 DEF Belongs, Follows
  <2> QED
    BY <2>1, <2>2, <2>3, <2>4
<1>6. CASE op.kind = "name"
  <2>1. Aspect(op) = "name" /\ Left(op) = {<<"cjname">>}
    BY <1>6, LeftCases, AspectOf
  <2>2. q = <<"cjname">>
    BY <2>1
  <2>3. q # <<>> /\ Head(q) = "cjname" /\ Tail(q) = <<>> /\ Len(q) = 1
    BY <2>2
  <2> QED
    BY <1>6, <2>1, <2>3 DEF Belongs, Follows
<1>7. CASE op.kind = "boot" /\ op.mode = "off"
  <2>1. Aspect(op) = "boot" /\ Left(op) = {<<"disable", "unlink", "reload">>, <<"unlink", "reload">>, <<"reload">>}
    BY <1>7, LeftCases, AspectOf
  <2>2. CASE q = <<"disable", "unlink", "reload">>
    <3>1. q # <<>> /\ Head(q) = "disable" /\ Tail(q) = <<"unlink", "reload">> /\ Len(q) = 3 /\ Tail(q) # <<>>
      BY <2>2
    <3>2. Head(Tail(q)) = "unlink" /\ Tail(q) \in Left(op)
      BY <3>1, <2>1
    <3>3. q # <<>> /\ Head(q) = "disable" /\ Len(q) = 3 /\ Tail(q) # <<>>
      BY <3>1
    <3> QED
      BY <1>7, <2>1, <3>2, <3>3 DEF Belongs, Follows
  <2>3. CASE q = <<"unlink", "reload">>
    <3>1. q # <<>> /\ Head(q) = "unlink" /\ Tail(q) = <<"reload">> /\ Len(q) = 2 /\ Tail(q) # <<>>
      BY <2>3
    <3>2. Head(Tail(q)) = "reload" /\ Tail(q) \in Left(op)
      BY <3>1, <2>1
    <3>3. q # <<>> /\ Head(q) = "unlink" /\ Len(q) = 2 /\ Tail(q) # <<>>
      BY <3>1
    <3> QED
      BY <1>7, <2>1, <3>2, <3>3 DEF Belongs, Follows
  <2>4. CASE q = <<"reload">>
    <3>1. q # <<>> /\ Head(q) = "reload" /\ Tail(q) = <<>> /\ Len(q) = 1
      BY <2>4
    <3> QED
      BY <1>7, <2>1, <3>1 DEF Belongs, Follows
  <2> QED
    BY <2>1, <2>2, <2>3, <2>4
<1>8. CASE op.kind = "boot" /\ op.mode # "off"
  <2>1. Aspect(op) = "boot" /\ Left(op) = {<<"install", "reload", "enable">>, <<"reload", "enable">>, <<"enable">>}
    BY <1>8, LeftCases, AspectOf
  <2>2. CASE q = <<"install", "reload", "enable">>
    <3>1. q # <<>> /\ Head(q) = "install" /\ Tail(q) = <<"reload", "enable">> /\ Len(q) = 3 /\ Tail(q) # <<>>
      BY <2>2
    <3>2. Head(Tail(q)) = "reload" /\ Tail(q) \in Left(op)
      BY <3>1, <2>1
    <3>3. q # <<>> /\ Head(q) = "install" /\ Len(q) = 3 /\ Tail(q) # <<>>
      BY <3>1
    <3> QED
      BY <1>8, <2>1, <3>2, <3>3 DEF Belongs, Follows
  <2>3. CASE q = <<"reload", "enable">>
    <3>1. q # <<>> /\ Head(q) = "reload" /\ Tail(q) = <<"enable">> /\ Len(q) = 2 /\ Tail(q) # <<>>
      BY <2>3
    <3>2. Head(Tail(q)) = "enable" /\ Tail(q) \in Left(op)
      BY <3>1, <2>1
    <3>3. q # <<>> /\ Head(q) = "reload" /\ Len(q) = 2 /\ Tail(q) # <<>>
      BY <3>1
    <3> QED
      BY <1>8, <2>1, <3>2, <3>3 DEF Belongs, Follows
  <2>4. CASE q = <<"enable">>
    <3>1. q # <<>> /\ Head(q) = "enable" /\ Tail(q) = <<>> /\ Len(q) = 1
      BY <2>4
    <3> QED
      BY <1>8, <2>1, <3>1 DEF Belongs, Follows
  <2> QED
    BY <2>1, <2>2, <2>3, <2>4
<1>9. CASE op.kind = "export"
  <2>1. Aspect(op) = "shortcut" /\ Left(op) = {<<"export">>}
    BY <1>9, LeftCases, AspectOf
  <2>2. q = <<"export">>
    BY <2>1
  <2>3. q # <<>> /\ Head(q) = "export" /\ Tail(q) = <<>> /\ Len(q) = 1
    BY <2>2
  <2> QED
    BY <1>9, <2>1, <2>3 DEF Belongs, Follows
<1>10. CASE op.kind = "revoke"
  <2>1. Aspect(op) = "shortcut" /\ Left(op) = {<<"revoke">>}
    BY <1>10, LeftCases, AspectOf
  <2>2. q = <<"revoke">>
    BY <2>1
  <2>3. q # <<>> /\ Head(q) = "revoke" /\ Tail(q) = <<>> /\ Len(q) = 1
    BY <2>2
  <2> QED
    BY <1>10, <2>1, <2>3 DEF Belongs, Follows
<1>11. CASE op.kind = "scan"
  <2>1. Aspect(op) = "reg" /\ Left(op) = {<<"scan">>}
    BY <1>11, LeftCases, AspectOf
  <2>2. q = <<"scan">>
    BY <2>1
  <2>3. q # <<>> /\ Head(q) = "scan" /\ Tail(q) = <<>> /\ Len(q) = 1
    BY <2>2
  <2> QED
    BY <1>11, <2>1, <2>3 DEF Belongs, Follows
<1>12. CASE op.kind = "launch"
  <2>1. Aspect(op) = "reg" /\ Left(op) = {<<"resolve">>}
    BY <1>12, LeftCases, AspectOf
  <2>2. q = <<"resolve">>
    BY <2>1
  <2>3. q # <<>> /\ Head(q) = "resolve" /\ Tail(q) = <<>> /\ Len(q) = 1
    BY <2>2
  <2> QED
    BY <1>12, <2>1, <2>3 DEF Belongs, Follows
<1> QED
  BY <1>0, <1>1, <1>2, <1>3, <1>4, <1>5, <1>6, <1>7, <1>8, <1>9, <1>10, <1>11, <1>12 DEF Kinds

\* A command begins with its first step.
LEMMA StepsMeans ==
  ASSUME NEW op \in Ops
  PROVE  /\ Steps(op) \in Left(op) /\ Steps(op) \in Todos
         /\ Head(Steps(op)) \notin {"set", "cjicon"}
         /\ Aspect(op) = "icon" => Head(Steps(op)) \in {"host", "hosticon"}
         /\ op.kind = "boot" => Head(Steps(op)) = IF op.mode = "off" THEN "disable" ELSE "install"
<1> DEFINE P == /\ Steps(op) \in Left(op)
                /\ Head(Steps(op)) \notin {"set", "cjicon"}
                /\ Aspect(op) = "icon" => Head(Steps(op)) \in {"host", "hosticon"}
                /\ op.kind = "boot" => Head(Steps(op)) = IF op.mode = "off" THEN "disable" ELSE "install"
<1> SUFFICES P
  BY DEF Todos
<1>0. op.kind \in Kinds
  BY OpsKinds DEF Kinds
<1>1. CASE op.kind \in {"pin", "auto", "add", "update", "icon"}
  <2>1. Aspect(op) = "pt" /\ <<"list", "set">> \in Left(op)
    BY <1>1, LeftCases, AspectOf
  <2>2. Steps(op) = <<"list", "set">>
    BY <1>1 DEF Steps, EntrySteps, BootSteps
  <2>3. Head(Steps(op)) = "list"
    BY <2>2
  <2> QED
    BY <1>1, <2>1, <2>2, <2>3
<1>2. CASE op.kind = "remove"
  <2>1. Aspect(op) = "pt" /\ <<"list", "set", "clean">> \in Left(op)
    BY <1>2, LeftCases, AspectOf
  <2>2. Steps(op) = <<"list", "set", "clean">>
    BY <1>2 DEF Steps, EntrySteps, BootSteps
  <2>3. Head(Steps(op)) = "list"
    BY <2>2
  <2> QED
    BY <1>2, <2>1, <2>2, <2>3
<1>3. CASE op.kind = "entry"
  <2>1. Aspect(op) = "icon" /\ <<"host", "cjicon">> \in Left(op)
    BY <1>3, LeftCases, AspectOf
  <2>2. Steps(op) = <<"host", "cjicon">>
    BY <1>3 DEF Steps, EntrySteps, BootSteps
  <2>3. Head(Steps(op)) = "host"
    BY <2>2
  <2> QED
    BY <1>3, <2>1, <2>2, <2>3
<1>4. CASE op.kind = "shortcut"
  <2>1. Aspect(op) = "icon" /\ <<"host", "cjicon", "cjname">> \in Left(op)
    BY <1>4, LeftCases, AspectOf
  <2>2. Steps(op) = <<"host", "cjicon", "cjname">>
    BY <1>4 DEF Steps, EntrySteps, BootSteps
  <2>3. Head(Steps(op)) = "host"
    BY <2>2
  <2> QED
    BY <1>4, <2>1, <2>2, <2>3
<1>5. CASE op.kind = "reexport"
  <2>1. Aspect(op) = "icon" /\ <<"hosticon", "cjicon", "cjname">> \in Left(op)
    BY <1>5, LeftCases, AspectOf
  <2>2. Steps(op) = <<"hosticon", "cjicon", "cjname">>
    BY <1>5 DEF Steps, EntrySteps, BootSteps
  <2>3. Head(Steps(op)) = "hosticon"
    BY <2>2
  <2> QED
    BY <1>5, <2>1, <2>2, <2>3
<1>6. CASE op.kind = "name"
  <2>1. Aspect(op) = "name" /\ <<"cjname">> \in Left(op)
    BY <1>6, LeftCases, AspectOf
  <2>2. Steps(op) = <<"cjname">>
    BY <1>6 DEF Steps, EntrySteps, BootSteps
  <2>3. Head(Steps(op)) = "cjname"
    BY <2>2
  <2> QED
    BY <1>6, <2>1, <2>2, <2>3
<1>7. CASE op.kind = "boot" /\ op.mode = "off"
  <2>1. Aspect(op) = "boot" /\ <<"disable", "unlink", "reload">> \in Left(op)
    BY <1>7, LeftCases, AspectOf
  <2>2. Steps(op) = <<"disable", "unlink", "reload">>
    BY <1>7 DEF Steps, EntrySteps, BootSteps
  <2>3. Head(Steps(op)) = "disable"
    BY <2>2
  <2> QED
    BY <1>7, <2>1, <2>2, <2>3
<1>8. CASE op.kind = "boot" /\ op.mode # "off"
  <2>1. Aspect(op) = "boot" /\ <<"install", "reload", "enable">> \in Left(op)
    BY <1>8, LeftCases, AspectOf
  <2>2. Steps(op) = <<"install", "reload", "enable">>
    BY <1>8 DEF Steps, EntrySteps, BootSteps
  <2>3. Head(Steps(op)) = "install"
    BY <2>2
  <2> QED
    BY <1>8, <2>1, <2>2, <2>3
<1>9. CASE op.kind = "export"
  <2>1. Aspect(op) = "shortcut" /\ <<"export">> \in Left(op)
    BY <1>9, LeftCases, AspectOf
  <2>2. Steps(op) = <<"export">>
    BY <1>9 DEF Steps, EntrySteps, BootSteps
  <2>3. Head(Steps(op)) = "export"
    BY <2>2
  <2> QED
    BY <1>9, <2>1, <2>2, <2>3
<1>10. CASE op.kind = "revoke"
  <2>1. Aspect(op) = "shortcut" /\ <<"revoke">> \in Left(op)
    BY <1>10, LeftCases, AspectOf
  <2>2. Steps(op) = <<"revoke">>
    BY <1>10 DEF Steps, EntrySteps, BootSteps
  <2>3. Head(Steps(op)) = "revoke"
    BY <2>2
  <2> QED
    BY <1>10, <2>1, <2>2, <2>3
<1>11. CASE op.kind = "scan"
  <2>1. Aspect(op) = "reg" /\ <<"scan">> \in Left(op)
    BY <1>11, LeftCases, AspectOf
  <2>2. Steps(op) = <<"scan">>
    BY <1>11 DEF Steps, EntrySteps, BootSteps
  <2>3. Head(Steps(op)) = "scan"
    BY <2>2
  <2> QED
    BY <1>11, <2>1, <2>2, <2>3
<1>12. CASE op.kind = "launch"
  <2>1. Aspect(op) = "reg" /\ <<"resolve">> \in Left(op)
    BY <1>12, LeftCases, AspectOf
  <2>2. Steps(op) = <<"resolve">>
    BY <1>12 DEF Steps, EntrySteps, BootSteps
  <2>3. Head(Steps(op)) = "resolve"
    BY <2>2
  <2> QED
    BY <1>12, <2>1, <2>2, <2>3
<1> QED
  BY <1>0, <1>1, <1>2, <1>3, <1>4, <1>5, <1>6, <1>7, <1>8, <1>9, <1>10, <1>11, <1>12 DEF Kinds

-----------------------------------------------------------------------------
(* Single steps of commands and handlers *)

\* config.json is a record of the two keys a handler may change.
LEMMA KeyExcept ==
  ASSUME NEW I, NEW N, NEW c \in [icon : I, name : N], NEW v
  PROVE  /\ [c EXCEPT !["icon"] = v] = [icon |-> v, name |-> c.name]
         /\ [c EXCEPT !["name"] = v] = [icon |-> c.icon, name |-> v]
<1>1. [c EXCEPT !["icon"] = v] = [c EXCEPT !.icon = v]
  OBVIOUS
<1>2. [c EXCEPT !.icon = v] = [icon |-> v, name |-> c.name]
  OBVIOUS
<1>3. [c EXCEPT !["name"] = v] = [c EXCEPT !.name = v]
  OBVIOUS
<1>4. [c EXCEPT !.name = v] = [icon |-> c.icon, name |-> v]
  OBVIOUS
<1> QED
  BY <1>1, <1>2, <1>3, <1>4

LEMMA KeySet ==
  ASSUME NEW c \in CjFiles, NEW v
  PROVE  /\ c = [icon |-> c.icon, name |-> c.name] /\ c.icon \in Paths /\ c.name \in Icons \cup {None}
         /\ [c EXCEPT !["icon"] = v] = [icon |-> v, name |-> c.name]
         /\ [c EXCEPT !["name"] = v] = [icon |-> c.icon, name |-> v]
         /\ c["icon"] = c.icon /\ c["name"] = c.name
<1>1. c = [icon |-> c.icon, name |-> c.name] /\ c.icon \in Paths /\ c.name \in Icons \cup {None}
  BY DEF CjFiles
<1> DEFINE N == Icons \cup {None}
<1>2. c \in [icon : Paths, name : N]
  BY DEF CjFiles
<1> HIDE DEF N
<1>3. [c EXCEPT !["icon"] = v] = [icon |-> v, name |-> c.name] /\ [c EXCEPT !["name"] = v] = [icon |-> c.icon, name |-> v]
  BY <1>2, KeyExcept
<1> QED
  BY <1>1, <1>3

LEMMA KeyTyped ==
  ASSUME NEW c \in CjFiles, NEW key \in {"icon", "name"}, NEW v,
         v \in IF key = "icon" THEN Paths ELSE Icons \cup {None}
  PROVE  /\ [c EXCEPT ![key] = v] \in CjFiles /\ [c EXCEPT ![key] = v][key] = v
         /\ \A k \in {"icon", "name"} \ {key} : [c EXCEPT ![key] = v][k] = c[k]
<1>1. CASE key = "icon"
  <2>1. [c EXCEPT ![key] = v] = [icon |-> v, name |-> c.name]
    BY <1>1, KeySet
  <2> QED
    BY <1>1, <2>1, KeySet DEF CjFiles
<1>2. CASE key = "name"
  <2>1. [c EXCEPT ![key] = v] = [icon |-> c.icon, name |-> v]
    BY <1>2, KeySet
  <2> QED
    BY <1>2, <2>1, KeySet DEF CjFiles
<1> QED
  BY <1>1, <1>2

\* Two files that agree on both keys are one.
LEMMA KeysAgree ==
  ASSUME NEW c \in CjFiles, NEW d \in CjFiles, \A k \in {"icon", "name"} : c[k] = d[k]
  PROVE  c = d
<1>1. c.icon = d.icon /\ c.name = d.name
  BY KeySet
<1> QED
  BY <1>1, KeySet

LEMMA BothExcept ==
  ASSUME NEW r \in TaskRec, NEW q, NEW v
  PROVE  [r EXCEPT !.todo = q, !.saves = v] = [todo |-> q, op |-> r.op, conn |-> r.conn, saves |-> v]
<1> DEFINE p == [todo |-> q, op |-> r.op, conn |-> r.conn, saves |-> r.saves]
<1>1. [r EXCEPT !.todo = q] = p
  BY DEF TaskRec
<1>2. [r EXCEPT !.todo = q, !.saves = v] = [p EXCEPT !.saves = v]
  BY <1>1
<1>3. [p EXCEPT !.saves = v] = [todo |-> q, op |-> r.op, conn |-> r.conn, saves |-> v]
  OBVIOUS
<1> QED
  BY <1>2, <1>3

\* A slot's record with some fields changed.
LEMMA TaskExcept ==
  ASSUME NEW r \in TaskRec, NEW q, NEW v
  PROVE  /\ r.todo \in Todos /\ r.op \in Ops \cup {Idle.op} /\ r.saves \in PtFiles \cup Paths /\ r.conn \in Nat
         /\ r = [todo |-> r.todo, op |-> r.op, conn |-> r.conn, saves |-> r.saves]
         /\ [r EXCEPT !.todo = q] = [todo |-> q, op |-> r.op, conn |-> r.conn, saves |-> r.saves]
         /\ [r EXCEPT !.todo = q, !.saves = v] = [todo |-> q, op |-> r.op, conn |-> r.conn, saves |-> v]
         /\ [r EXCEPT !.todo = Tail(@)] = [r EXCEPT !.todo = Tail(r.todo)]
         /\ [r EXCEPT !.todo = Tail(@), !.saves = v] = [r EXCEPT !.todo = Tail(r.todo), !.saves = v]
<1>1. /\ r.todo \in Todos /\ r.op \in Ops \cup {Idle.op} /\ r.saves \in PtFiles \cup Paths /\ r.conn \in Nat
      /\ r = [todo |-> r.todo, op |-> r.op, conn |-> r.conn, saves |-> r.saves]
  BY DEF TaskRec
<1>2. [r EXCEPT !.todo = q] = [todo |-> q, op |-> r.op, conn |-> r.conn, saves |-> r.saves]
  BY DEF TaskRec
<1>3. [r EXCEPT !.todo = q, !.saves = v] = [todo |-> q, op |-> r.op, conn |-> r.conn, saves |-> v]
  BY BothExcept
<1>4. [r EXCEPT !.todo = Tail(@)] = [r EXCEPT !.todo = Tail(r.todo)]
  OBVIOUS
<1>5. [r EXCEPT !.todo = Tail(@), !.saves = v] = [r EXCEPT !.todo = Tail(r.todo), !.saves = v]
  OBVIOUS
<1> QED
  BY <1>1, <1>2, <1>3, <1>4, <1>5

LEMMA TailExcept ==
  ASSUME NEW r \in TaskRec, NEW v
  PROVE  [r EXCEPT !.todo = Tail(@), !.saves = v] = [todo |-> Tail(r.todo), op |-> r.op, conn |-> r.conn, saves |-> v]
<1>1. [r EXCEPT !.todo = Tail(@), !.saves = v] = [r EXCEPT !.todo = Tail(r.todo), !.saves = v]
  OBVIOUS
<1> QED
  BY <1>1, BothExcept

\* A handler's record with a field changed.
LEMMA PcExcept ==
  ASSUME NEW P, NEW S, NEW N, NEW K, NEW A, NEW h \in [pc : P, store : S, new : N, key : K, at : A], NEW v
  PROVE  /\ h = [pc |-> h.pc, store |-> h.store, new |-> h.new, key |-> h.key, at |-> h.at]
         /\ h.pc \in P /\ h.store \in S /\ h.new \in N /\ h.key \in K /\ h.at \in A
         /\ [h EXCEPT !.pc = v] = [pc |-> v, store |-> h.store, new |-> h.new, key |-> h.key, at |-> h.at]
OBVIOUS

LEMMA AtExcept ==
  ASSUME NEW P, NEW S, NEW N, NEW K, NEW A, NEW h \in [pc : P, store : S, new : N, key : K, at : A], NEW v
  PROVE  [h EXCEPT !.at = v] = [pc |-> h.pc, store |-> h.store, new |-> h.new, key |-> h.key, at |-> v]
OBVIOUS

LEMMA HandlerExcept ==
  ASSUME NEW h \in HandlerRec, NEW v
  PROVE  /\ h.pc \in {"opened", "filled"} /\ h.store \in Stores /\ h.new \in AnyContents
         /\ h.key \in {"all", "icon", "name"} /\ h.at \in {"tmp", "file", "gone"} /\ h # NoHandler
         /\ [h EXCEPT !.pc = v] = [pc |-> v, store |-> h.store, new |-> h.new, key |-> h.key, at |-> h.at]
         /\ [h EXCEPT !.at = v] = [pc |-> h.pc, store |-> h.store, new |-> h.new, key |-> h.key, at |-> v]
<1> DEFINE P == {"opened", "filled"}  K == {"all", "icon", "name"}  A == {"tmp", "file", "gone"}
<1>1. h \in [pc : P, store : Stores, new : AnyContents, key : K, at : A]
  BY DEF HandlerRec
<1> HIDE DEF P, K, A
<1>2. h.pc \in P /\ h.store \in Stores /\ h.new \in AnyContents /\ h.key \in K /\ h.at \in A
  BY <1>1, PcExcept
<1>3. [h EXCEPT !.pc = v] = [pc |-> v, store |-> h.store, new |-> h.new, key |-> h.key, at |-> h.at]
  BY <1>1, PcExcept
<1>4. [h EXCEPT !.at = v] = [pc |-> h.pc, store |-> h.store, new |-> h.new, key |-> h.key, at |-> v]
  BY <1>1, AtExcept
<1>5. h.pc # "none"
  BY <1>2 DEF P
<1>6. h # NoHandler
  BY <1>5 DEF NoHandler
<1> QED
  BY <1>2, <1>3, <1>4, <1>6 DEF P, K, A

\* The state of a slot and of a handler, as the steps below speak of them.
LEMMA SlotTyped ==
  ASSUME Typed, NEW t \in Tasks
  PROVE  /\ task[t] \in TaskRec /\ task[t].todo \in Todos /\ task[t].saves \in PtFiles \cup Paths
         /\ alone[t] \in BOOLEAN
         /\ Works(t) => handler[t] \in HandlerRec /\ handler[t].store \in Stores
<1>1. task[t] \in TaskRec /\ alone[t] \in BOOLEAN
  BY DEF Typed
<1>2. Works(t) => handler[t] \in HandlerRec
  BY DEF Typed, Works
<1> QED
  BY <1>1, <1>2, TaskExcept, HandlerExcept

\* The command goes on.
LEMMA AdvanceMeans ==
  ASSUME Typed, NEW t \in Tasks, Advance(t)
  PROVE  /\ \A u \in Tasks : /\ task'[u].op = task[u].op /\ task'[u].saves = task[u].saves
                             /\ task'[u].conn = task[u].conn
                             /\ u # t => task'[u] = task[u]
         /\ task'[t].todo = Tail(task[t].todo)
         /\ task' = [task EXCEPT ![t] = [task[t] EXCEPT !.todo = Tail(task[t].todo)]]
<1>1. task' = [task EXCEPT ![t].todo = Tail(@)]
  BY DEF Advance
<1>2. task = [u \in Tasks |-> task[u]] /\ task[t] \in TaskRec
  BY DEF Typed
<1>3. task' = [task EXCEPT ![t] = [task[t] EXCEPT !.todo = Tail(task[t].todo)]]
  BY <1>1, <1>2
<1>4. task'[t] = [task[t] EXCEPT !.todo = Tail(task[t].todo)] /\ \A u \in Tasks : u # t => task'[u] = task[u]
  BY <1>2, <1>3
<1>5. /\ task'[t].todo = Tail(task[t].todo) /\ task'[t].op = task[t].op /\ task'[t].saves = task[t].saves
      /\ task'[t].conn = task[t].conn
  BY <1>2, <1>4, TaskExcept
<1> QED
  BY <1>3, <1>4, <1>5

\* The commands of T are given up.
LEMMA AbandonMeans ==
  ASSUME Typed, NEW T \in SUBSET Tasks, Abandon(T)
  PROVE  /\ \A u \in Tasks : /\ task'[u].op = task[u].op /\ task'[u].saves = task[u].saves
                             /\ task'[u].conn = task[u].conn
                             /\ task'[u].todo = IF u \in T THEN <<>> ELSE task[u].todo
                             /\ u \notin T => task'[u] = task[u]
                             /\ u \in T => task'[u] = [task[u] EXCEPT !.todo = <<>>]
         /\ task' = [u \in Tasks |-> task'[u]]
         /\ stale \subseteq stale' /\ stale' \subseteq stale \cup {"icon"}
<1>1. task' = [u \in Tasks |-> IF u \in T THEN [task[u] EXCEPT !.todo = <<>>] ELSE task[u]]
  BY DEF Abandon
<1>2. stale \subseteq stale' /\ stale' \subseteq stale \cup {"icon"}
  BY DEF Abandon
<1>3. ASSUME NEW u \in Tasks
      PROVE  /\ task'[u].op = task[u].op /\ task'[u].saves = task[u].saves
             /\ task'[u].conn = task[u].conn
             /\ task'[u].todo = IF u \in T THEN <<>> ELSE task[u].todo
  <2>1. task[u] \in TaskRec
    BY SlotTyped
  <2> QED
    BY <1>1, <2>1, TaskExcept
<1> QED
  BY <1>1, <1>2, <1>3

\* A handler opens the temporary file: its own record, and what it leaves alone.
LEMMA HandlerMade ==
  ASSUME NEW s \in Stores, NEW new \in AnyContents, NEW key \in {"all", "icon", "name"}
  PROVE  [pc |-> "opened", store |-> s, new |-> new, key |-> key, at |-> "tmp"] \in HandlerRec
BY DEF HandlerRec

LEMMA OpenRecord ==
  ASSUME Typed, NEW t \in Tasks, NEW s \in Stores, NEW new, NEW key, OpenTmp(t, s, new, key), ~Works(t)
  PROVE  handler'[t] = [pc |-> "opened", store |-> s, new |-> new, key |-> key, at |-> "tmp"]
<1> DEFINE r == [pc |-> "opened", store |-> s, new |-> new, key |-> key, at |-> "tmp"]
<1>1. handler = [u \in Tasks |-> handler[u]] /\ handler' = [handler EXCEPT ![t] = r]
  BY DEF Typed, OpenTmp
<1> QED
  BY <1>1

LEMMA OpenFields ==
  ASSUME Typed, NEW t \in Tasks, NEW s \in Stores, NEW new, NEW key, OpenTmp(t, s, new, key), ~Works(t)
  PROVE  /\ handler'[t].store = s /\ handler'[t].new = new /\ handler'[t].key = key
         /\ handler'[t].pc = "opened" /\ handler'[t].at = "tmp"
<1> DEFINE r == [pc |-> "opened", store |-> s, new |-> new, key |-> key, at |-> "tmp"]
<1>1. handler = [u \in Tasks |-> handler[u]] /\ handler' = [handler EXCEPT ![t] = r]
  BY DEF Typed, OpenTmp
<1>2. r.store = s /\ r.new = new /\ r.key = key /\ r.pc = "opened" /\ r.at = "tmp"
  OBVIOUS
<1> HIDE DEF r
<1>3. handler'[t] = r
  BY <1>1
<1> QED
  BY <1>2, <1>3

LEMMA OpenMeans ==
  ASSUME Typed, NEW t \in Tasks, NEW s \in Stores, NEW new, NEW key, OpenTmp(t, s, new, key), ~Works(t)
  PROVE  /\ Works(t)' /\ \A u \in Tasks : u # t => handler'[u] = handler[u]
         /\ handler' = [u \in Tasks |-> handler'[u]]
         /\ Writers(s)' = Writers(s) \cup {t}
         /\ \A r \in Stores : r # s => Writers(r)' = Writers(r) /\ tmp'[r] = tmp[r]
         /\ tmp'[s] = Torn /\ tmp' = [r \in Stores |-> tmp'[r]]
         /\ mixed' = IF Writers(s) = {} THEN mixed ELSE mixed \cup {s}
<1> DEFINE rec == [pc |-> "opened", store |-> s, new |-> new, key |-> key, at |-> "tmp"]
<1>1. handler = [u \in Tasks |-> handler[u]] /\ tmp = [r \in Stores |-> tmp[r]]
  BY DEF Typed
<1>2. handler' = [handler EXCEPT ![t] = rec] /\ tmp' = [tmp EXCEPT ![s] = Torn]
  BY DEF OpenTmp
<1>3. rec.pc = "opened" /\ rec.store = s /\ rec.new = new /\ rec.key = key /\ rec.at = "tmp"
  OBVIOUS
<1>4. rec # NoHandler
  BY <1>3 DEF NoHandler
<1> HIDE DEF rec
<1>5. /\ handler'[t] = rec /\ \A u \in Tasks : u # t => handler'[u] = handler[u]
      /\ handler' = [u \in Tasks |-> handler'[u]]
  BY <1>1, <1>2
<1>6. tmp'[s] = Torn /\ tmp' = [r \in Stores |-> tmp'[r]] /\ \A r \in Stores : r # s => tmp'[r] = tmp[r]
  BY <1>1, <1>2
<1>7. handler[t] = NoHandler
  BY DEF Works
<1>8. Writers(s)' = Writers(s) \cup {t}
  BY <1>3, <1>4, <1>5, <1>7 DEF Writers
<1>9. \A r \in Stores : r # s => Writers(r)' = Writers(r)
  BY <1>3, <1>4, <1>5, <1>7 DEF Writers
<1>10. mixed' = IF Writers(s) = {} THEN mixed ELSE mixed \cup {s}
  BY DEF OpenTmp
<1>11. Works(t)'
  BY <1>4, <1>5 DEF Works
<1> QED
  BY <1>5, <1>6, <1>8, <1>9, <1>10, <1>11

-----------------------------------------------------------------------------
(* The shapes of the steps *)

\* The steps without those that send a request again, give it up, or read it late.
Usual == \/ StartServer \/ RewriteBegin \/ RewriteEnd
         \/ \E t \in Tasks : (\E op \in Ops : Begin(t, op)) \/ Step(t)
         \/ ServerDies \/ WindowCloses \/ PackagesChange \/ ManagerEdits

\* A command leaves a disorder behind, or ends one if it ran alone to its end.
Orders(t) ==
  /\ stale' \subseteq stale \cup {"icon"}
  /\ \A a \in stale \ stale' : a = Aspect(Op(t)) /\ alone[t] /\ task'[t].todo = <<>>

\* A command goes on, or is given up, without a handler.
Goes(t) ==
  /\ UNCHANGED <<disk_, server, handler, conn, apps_, want, alone, mixed>>
  /\ Busy(t) /\ ~Works(t) /\ task' \in [Tasks -> TaskRec] /\ \A u \in Tasks \ {t} : task'[u] = task[u]
  /\ task'[t].op = task[t].op /\ task'[t].conn = task[t].conn /\ task'[t].todo \in Left(Op(t)) \cup {<<>>}
  /\ At(t, "set")' => At(t, "list") /\ Allowed(Op(t), Seen("pt")) /\ task'[t].saves = Changed(Op(t), Seen("pt"))
                      /\ server = "up"
  /\ At(t, "cjicon")' /\ Op(t).kind = "reexport" => task'[t].saves = host /\ host # None /\ host' = host
  /\ Orders(t) /\ ("reg" \in stale => "reg" \in stale')

\* A handler opens the temporary file of a store.
Unmoved == UNCHANGED <<file, legacy, text, server, task, conn, host_, apps_, want, alone, stale>>
Opens(t) == Busy(t) /\ ~Works(t) /\ server = "up" /\ Unmoved
OpenPt(t) == Opens(t) /\ At(t, "set") /\ OpenTmp(t, "pt", task[t].saves, "all")
OpenCj(t) ==
  /\ Opens(t) /\ file["cj"] # Torn
  /\ \E key \in {"icon", "name"}, v \in Paths :
       /\ At(t, IF key = "icon" THEN "cjicon" ELSE "cjname") /\ (key = "name" => v \in Icons \cup {None})
       /\ key = "icon" => v = IF Op(t).kind = "reexport" THEN task[t].saves ELSE Op(t).icon
       /\ OpenTmp(t, "cj", [Seen("cj") EXCEPT ![key] = v], key)
OpenReg(t) == Opens(t) /\ Op(t).kind \in {"scan", "launch"} /\ OpenTmp(t, "reg", installed, "all")

LEMMA BusyMeans ==
  ASSUME Typed, Work, NEW t \in Tasks, Busy(t)
  PROVE  /\ Op(t) \in Ops /\ task[t].todo \in Left(Op(t)) /\ task[t].todo # <<>>
         /\ Tail(task[t].todo) \in Left(Op(t)) \cup {<<>>}
         /\ Belongs(Op(t), task[t].todo) /\ Follows(Op(t), task[t].todo)
<1>1. Op(t) \in Ops /\ task[t].todo \in Left(Op(t))
  BY DEF Work, Slot, Serves, ServesPt, ServesReg, ServesCj
<1> QED
  BY <1>1, LeftMeans

\* What is left of a command is among what may be left of any.
LEMMA LeftTodos == \A op \in Ops : Left(op) \cup {<<>>} \subseteq Todos
BY DEF Todos

LEMMA TaskMade ==
  ASSUME NEW r \in TaskRec, NEW q \in Todos, NEW v \in PtFiles \cup Paths
  PROVE  [todo |-> q, op |-> r.op, conn |-> r.conn, saves |-> v] \in TaskRec
BY TaskExcept DEF TaskRec

LEMMA TodoMade ==
  ASSUME NEW r \in TaskRec, NEW q \in Todos
  PROVE  [r EXCEPT !.todo = q] \in TaskRec
<1>1. [r EXCEPT !.todo = q] = [todo |-> q, op |-> r.op, conn |-> r.conn, saves |-> r.saves]
  BY TaskExcept
<1>2. r.saves \in PtFiles \cup Paths
  BY TaskExcept
<1> QED
  BY <1>1, <1>2, TaskMade

LEMMA AdvanceTyped ==
  ASSUME Typed, Work, NEW t \in Tasks, Busy(t), Advance(t)
  PROVE  /\ task' \in [Tasks -> TaskRec] /\ \A u \in Tasks \ {t} : task'[u] = task[u]
         /\ task'[t].op = task[t].op /\ task'[t].conn = task[t].conn /\ task'[t].saves = task[t].saves
         /\ task'[t].todo = Tail(task[t].todo) /\ task'[t].todo \in Left(Op(t)) \cup {<<>>}
         /\ Orders(t) /\ stale' \subseteq stale
<1> DEFINE r == task[t]  q == Tail(r.todo)
<1>1. r \in TaskRec /\ task \in [Tasks -> TaskRec]
  BY DEF Typed
<1>2. Op(t) \in Ops /\ q \in Left(Op(t)) \cup {<<>>} /\ Follows(Op(t), r.todo)
  BY BusyMeans
<1>3. q \in Todos
  BY <1>2, LeftTodos
<1>4. task' = [task EXCEPT ![t] = [r EXCEPT !.todo = q]]
  BY AdvanceMeans
<1>5. [r EXCEPT !.todo = q] \in TaskRec
  <2> HIDE DEF r, q
  <2> QED
    BY <1>1, <1>3, TodoMade
<1>6. task' \in [Tasks -> TaskRec]
  <2> HIDE DEF r, q
  <2> QED
    BY <1>1, <1>4, <1>5
<1>7. stale' \subseteq stale /\ \A a \in stale \ stale' : a = Aspect(Op(t)) /\ alone[t] /\ Len(task[t].todo) = 1
  BY DEF Advance
<1>8. Len(task[t].todo) = 1 => Tail(task[t].todo) = <<>>
  BY <1>2 DEF Follows
<1>9. task'[t].todo = q /\ task'[t].op = task[t].op /\ task'[t].conn = task[t].conn /\ task'[t].saves = task[t].saves
      /\ \A u \in Tasks \ {t} : task'[u] = task[u]
  BY AdvanceMeans
<1> QED
  BY <1>2, <1>6, <1>7, <1>8, <1>9 DEF Orders

LEMMA AbandonTyped ==
  ASSUME Typed, NEW T \in SUBSET Tasks, Abandon(T)
  PROVE  task' \in [Tasks -> TaskRec]
<1>1. ASSUME NEW u \in Tasks PROVE [task[u] EXCEPT !.todo = <<>>] \in TaskRec /\ task[u] \in TaskRec
  <2>1. task[u] \in TaskRec /\ <<>> \in Todos
    BY SlotTyped DEF Todos
  <2> QED
    BY <2>1, TodoMade
<1>2. task' = [u \in Tasks |-> IF u \in T THEN [task[u] EXCEPT !.todo = <<>>] ELSE task[u]]
  BY DEF Abandon
<1> QED
  BY <1>1, <1>2

\* A command that goes on by itself, neither reading the list nor the host's icon.
LEMMA AdvanceGoes ==
  ASSUME Typed, Work, NEW t \in Tasks, Busy(t), ~Works(t), Advance(t),
         ~At(t, "list"), ~At(t, "hosticon"), ~At(t, "scan"),
         UNCHANGED <<disk_, server, handler, conn, apps_, want, alone, mixed>>
  PROVE  Goes(t)
<1>1. Op(t) \in Ops /\ Belongs(Op(t), task[t].todo) /\ Follows(Op(t), task[t].todo)
  BY BusyMeans
<1>2. task'[t].todo = Tail(task[t].todo)
  BY AdvanceTyped
<1>3. ~At(t, "set")'
  BY <1>1, <1>2 DEF At, Busy, Follows
<1>4. At(t, "cjicon")' => Op(t).kind # "reexport"
  <2>1. At(t, "cjicon")' => Head(task[t].todo) = "host"
    BY <1>1, <1>2 DEF At, Busy, Follows
  <2>2. Head(task[t].todo) = "host" => Op(t).kind # "reexport"
    BY <1>1 DEF Belongs
  <2> QED
    BY <2>1, <2>2
<1>5. "reg" \in stale => "reg" \in stale'
  <2> SUFFICES ASSUME "reg" \in stale, "reg" \notin stale' PROVE FALSE
    OBVIOUS
  <2>1. Aspect(Op(t)) = "reg" /\ Wrote(t)
    BY DEF Advance
  <2>2. Op(t).kind \in {"scan", "launch"}
    BY <1>1, <2>1, AspectOf
  <2>3. CASE Op(t).kind = "scan"
    <3>1. task[t].todo = <<"scan">> /\ Head(<<"scan">>) = "scan"
      BY <1>1, <2>3, LeftCases, BusyMeans
    <3> QED
      BY <3>1 DEF At
  <2>4. CASE Op(t).kind = "launch"
    BY <2>1, <2>4 DEF Wrote, Works
  <2> QED
    BY <2>2, <2>3, <2>4
<1> QED
  BY <1>3, <1>4, <1>5, AdvanceTyped DEF Goes

LEMMA AbandonGoes ==
  ASSUME Typed, Work, NEW t \in Tasks, Busy(t), ~Works(t), Abandon({t}),
         UNCHANGED <<disk_, server, handler, conn, apps_, want, alone, mixed>>
  PROVE  Goes(t)
<1>1. /\ task'[t].op = task[t].op /\ task'[t].conn = task[t].conn /\ task'[t].todo = <<>>
      /\ \A u \in Tasks \ {t} : task'[u] = task[u]
      /\ stale \subseteq stale' /\ stale' \subseteq stale \cup {"icon"}
  BY AbandonMeans
<1>2. ~At(t, "set")' /\ ~At(t, "cjicon")'
  BY <1>1 DEF At, Busy
<1> QED
  BY <1>1, <1>2, AbandonTyped DEF Goes, Orders

\* A command that is served has no handler at work; one on the host has none either.
LEMMA HostSteps ==
  ASSUME Typed, Work, NEW t \in Tasks, Busy(t),
         Head(task[t].todo) \in {"host", "hosticon", "install", "unlink", "enable", "disable", "reload",
                                 "export", "revoke", "clean"}
  PROVE  ~Works(t)
<1>1. SUFFICES ASSUME Works(t) PROVE FALSE
  OBVIOUS
<1>2. Op(t) \in Ops /\ Belongs(Op(t), task[t].todo) /\ handler[t].store \in Stores
  BY <1>1, BusyMeans, SlotTyped
<1>3. CASE handler[t].store = "pt"
  BY <1>1, <1>3 DEF Work, Slot, Serves, ServesPt, ServesReg, ServesCj, At
<1>4. CASE handler[t].store = "cj"
  BY <1>1, <1>4 DEF Work, Slot, Serves, ServesPt, ServesReg, ServesCj, At
<1>5. CASE handler[t].store = "reg"
  <2>1. Aspect(Op(t)) = "reg"
    BY <1>1, <1>5 DEF Work, Slot, Serves, ServesPt, ServesReg, ServesCj
  <2>2. Op(t).kind \in {"scan", "launch"}
    BY <1>2, <2>1, AspectOf
  <2> QED
    BY <1>2, <2>2, AspectOf DEF Belongs
<1> QED
  BY <1>2, <1>3, <1>4, <1>5 DEF Stores

\* Which shape a step of a command has.
LEMMA ReadListShape ==
  ASSUME Typed, Work, NEW t \in Tasks, ReadList(t)
  PROVE  Goes(t)
<1> DEFINE r == task[t]  q == Tail(r.todo)  v == Changed(Op(t), Seen("pt"))
<1>1. At(t, "list") /\ Busy(t) /\ ~Works(t) /\ server = "up" /\ Head(task[t].todo) = "list"
  BY DEF ReadList, Served, Works, At
<1>2. /\ Op(t) \in Ops /\ q \in Left(Op(t)) \cup {<<>>} /\ Belongs(Op(t), r.todo) /\ Follows(Op(t), r.todo)
  BY <1>1, BusyMeans
<1>3. r \in TaskRec /\ task \in [Tasks -> TaskRec]
  BY DEF Typed
<1>4. /\ UNCHANGED <<disk_, server, handler, conn, apps_, want, alone, mixed>> /\ UNCHANGED stale
  BY DEF ReadList, hist_
<1>5. CASE Allowed(Op(t), Seen("pt"))
  <2>1. Op(t) \in PtOps /\ Seen("pt") \in PtFiles
    BY <1>1, <1>2, AspectOf, SeenMeans, ContentsMeans DEF Belongs, Stores
  <2>2. v \in PtFiles
    BY <1>5, <2>1, ChangedTyped
  <2>3. q \in Todos
    BY <1>2, LeftTodos
  <2>4. task' = [task EXCEPT ![t] = [r EXCEPT !.todo = Tail(@), !.saves = v]]
    BY <1>3, <1>5 DEF ReadList
  <2> HIDE DEF v, r
  <2>5. [r EXCEPT !.todo = Tail(@), !.saves = v] = [todo |-> q, op |-> r.op, conn |-> r.conn, saves |-> v]
    BY <1>3, TailExcept
  <2>6. [todo |-> q, op |-> r.op, conn |-> r.conn, saves |-> v] \in TaskRec
    <3> HIDE DEF q
    <3> QED
      BY <1>3, <2>2, <2>3, TaskMade
  <2>7. task' = [task EXCEPT ![t] = [todo |-> q, op |-> r.op, conn |-> r.conn, saves |-> v]]
    BY <2>4, <2>5
  <2> HIDE DEF q
  <2>8. /\ task'[t].todo = q /\ task'[t].op = r.op /\ task'[t].conn = r.conn /\ task'[t].saves = v
        /\ \A u \in Tasks \ {t} : task'[u] = task[u]
    BY <1>3, <2>7
  <2>9. task' \in [Tasks -> TaskRec]
    BY <1>3, <2>6, <2>7
  <2>10. ~At(t, "cjicon")'
    BY <1>1, <1>2, <2>8 DEF At, Busy, Follows, q, r
  <2> QED
    BY <1>1, <1>2, <1>4, <1>5, <2>8, <2>9, <2>10 DEF Goes, Orders, v, r
<1>6. CASE ~Allowed(Op(t), Seen("pt"))
  <2>1. task' = [task EXCEPT ![t] = [r EXCEPT !.todo = <<>>]]
    BY <1>3, <1>6 DEF ReadList
  <2> HIDE DEF r, q
  <2>2. [r EXCEPT !.todo = <<>>] \in TaskRec
    BY <1>3, TodoMade DEF Todos
  <2>3. task'[t] = [r EXCEPT !.todo = <<>>] /\ \A u \in Tasks \ {t} : task'[u] = task[u]
    BY <1>3, <2>1
  <2>4. task' \in [Tasks -> TaskRec]
    BY <1>3, <2>1, <2>2
  <2>5. task'[t].todo = <<>> /\ task'[t].op = r.op /\ task'[t].conn = r.conn
    BY <1>3, <2>3, TaskExcept
  <2>6. ~At(t, "set")' /\ ~At(t, "cjicon")'
    BY <2>5 DEF At, Busy
  <2> QED
    BY <1>1, <1>4, <2>3, <2>4, <2>5, <2>6 DEF Goes, Orders, r
<1> QED
  BY <1>5, <1>6

LEMMA ReadHostShape ==
  ASSUME Typed, Work, NEW t \in Tasks, ReadHostIcon(t)
  PROVE  /\ Goes(t) /\ Op(t).kind = "reexport" /\ host' = host /\ stale' = stale
         /\ task'[t].saves = host /\ task'[t].todo # <<>> /\ (At(t, "cjname")' => host = None)
<1> DEFINE r == task[t]  q == IF host = None THEN <<"cjname">> ELSE Tail(r.todo)
<1>1. At(t, "hosticon") /\ Busy(t) /\ ~Works(t) /\ Head(task[t].todo) = "hosticon"
  <2>1. At(t, "hosticon") /\ Busy(t) /\ Head(task[t].todo) = "hosticon"
    BY DEF ReadHostIcon, At
  <2> QED
    BY <2>1, HostSteps
<1>2. /\ Op(t) \in Ops /\ Tail(r.todo) \in Left(Op(t)) \cup {<<>>} /\ Belongs(Op(t), r.todo) /\ Follows(Op(t), r.todo)
  BY <1>1, BusyMeans
<1>3. r \in TaskRec /\ task \in [Tasks -> TaskRec] /\ host \in PtFiles \cup Paths
  BY DEF Typed
<1>4. /\ UNCHANGED <<disk_, server, handler, conn, apps_, want, alone, mixed>> /\ UNCHANGED stale /\ host' = host
  BY DEF ReadHostIcon, hostOnly_, host_
<1>5. q \in Left(Op(t)) \cup {<<>>} /\ Op(t).kind = "reexport"
  BY <1>1, <1>2, LeftCases DEF Belongs
<1>6. q \in Todos
  BY <1>2, <1>5, LeftTodos
<1>7. task' = [task EXCEPT ![t] = [r EXCEPT !.todo = q, !.saves = host]]
  BY <1>3 DEF ReadHostIcon
<1> HIDE DEF r
<1>8. [r EXCEPT !.todo = q, !.saves = host] = [todo |-> q, op |-> r.op, conn |-> r.conn, saves |-> host]
  <2> HIDE DEF q
  <2> QED
    BY <1>3, BothExcept
<1>9. [todo |-> q, op |-> r.op, conn |-> r.conn, saves |-> host] \in TaskRec
  <2> HIDE DEF q
  <2> QED
    BY <1>3, <1>6, TaskMade
<1>10. task' = [task EXCEPT ![t] = [todo |-> q, op |-> r.op, conn |-> r.conn, saves |-> host]]
  BY <1>7, <1>8
<1> HIDE DEF q
<1>11. /\ task'[t].todo = q /\ task'[t].op = r.op /\ task'[t].conn = r.conn /\ task'[t].saves = host
       /\ \A u \in Tasks \ {t} : task'[u] = task[u]
  BY <1>3, <1>10
<1>12. task' \in [Tasks -> TaskRec]
  BY <1>3, <1>9, <1>10
<1>13. At(t, "cjicon")' => host # None
  <2>1. ASSUME host = None PROVE task'[t].todo = <<"cjname">>
    BY <1>11, <2>1 DEF q
  <2>2. Head(<<"cjname">>) = "cjname"
    OBVIOUS
  <2> QED
    BY <2>1, <2>2 DEF At, Busy
<1>14. ~At(t, "set")'
  <2>1. CASE host = None
    <3>1. task'[t].todo = <<"cjname">> /\ Head(<<"cjname">>) = "cjname"
      BY <1>11, <2>1 DEF q
    <3> QED
      BY <3>1 DEF At, Busy
  <2>2. CASE host # None
    BY <1>1, <1>2, <1>11, <2>2 DEF At, Busy, Follows, q, r
  <2> QED
    BY <2>1, <2>2
<1>15. task'[t].todo # <<>> /\ (At(t, "cjname")' => host = None)
  <2>1. CASE host = None
    BY <1>11, <2>1 DEF q
  <2>2. CASE host # None
    <3>1. Tail(r.todo) # <<>> /\ Head(Tail(r.todo)) = "cjicon"
      BY <1>1, <1>2 DEF Follows, r
    <3> QED
      BY <1>11, <2>2, <3>1 DEF At, q
  <2> QED
    BY <2>1, <2>2
<1> QED
  BY <1>1, <1>4, <1>5, <1>11, <1>12, <1>13, <1>14, <1>15 DEF Goes, Orders, r

LEMMA HostShape ==
  ASSUME Typed, Work, NEW t \in Tasks,
         \/ SetHostIcon(t) \/ Install(t) \/ Unlink(t) \/ Enable(t) \/ Disable(t) \/ Reload(t)
         \/ Export(t) \/ Revoke(t) \/ Clean(t) \/ NoServer(t)
  PROVE  Goes(t)
<1> USE DEF hostOnly_
<1>1. CASE NoServer(t)
  <2>1. Busy(t) /\ Abandon({t}) /\ server = "down" /\ UNCHANGED <<disk_, server, handler, conn, apps_, want, alone, mixed>>
    BY <1>1 DEF NoServer
  <2>2. ~Works(t)
    BY <2>1 DEF Work, Slot, Serves, ServesPt, ServesReg, ServesCj
  <2> QED
    BY <2>1, <2>2, AbandonGoes
<1>2. CASE \/ SetHostIcon(t) \/ Install(t) \/ Unlink(t) \/ Enable(t) \/ Disable(t) \/ Reload(t)
           \/ Export(t) \/ Revoke(t) \/ Clean(t)
  <2>1. /\ Busy(t) /\ UNCHANGED <<disk_, server, handler, conn, apps_, want, alone, mixed>>
        /\ Head(task[t].todo) \in {"host", "install", "unlink", "enable", "disable", "reload", "export", "revoke", "clean"}
        /\ Advance(t) \/ Abandon({t})
    BY <1>2 DEF SetHostIcon, Install, Unlink, Enable, Disable, Reload, Export, Revoke, Clean, Unexport, At
  <2>2. ~Works(t) /\ ~At(t, "list") /\ ~At(t, "hosticon") /\ ~At(t, "scan")
    BY <2>1, HostSteps DEF At
  <2> QED
    BY <2>1, <2>2, AdvanceGoes, AbandonGoes
<1> QED
  BY <1>1, <1>2

LEMMA SetShape ==
  ASSUME Typed, Work, NEW t \in Tasks, SetIcon(t) \/ SetName(t)
  PROVE  Goes(t) \/ OpenCj(t)
<1> DEFINE key == IF SetIcon(t) THEN "icon" ELSE "name"
           step == IF SetIcon(t) THEN "cjicon" ELSE "cjname"
           value == IF SetIcon(t) THEN (IF Op(t).kind = "reexport" THEN task[t].saves ELSE Op(t).icon) ELSE Op(t).name
<1>1. At(t, step) /\ SetKey(t, step, key, value)
  BY DEF SetIcon, SetName, IconOf
<1>2. step = IF key = "icon" THEN "cjicon" ELSE "cjname"
  OBVIOUS
<1>3. At(t, "cjicon") => (IF Op(t).kind = "reexport" THEN task[t].saves ELSE Op(t).icon) \in Paths
  <2> SUFFICES ASSUME At(t, "cjicon") PROVE (IF Op(t).kind = "reexport" THEN task[t].saves ELSE Op(t).icon) \in Paths
    OBVIOUS
  <2>1. Op(t) \in Ops /\ Op(t).kind \in {"entry", "shortcut", "reexport"}
    BY BusyMeans, AspectOf DEF At, Belongs
  <2>2. Op(t).kind = "reexport" => task[t].saves \in Paths
    BY DEF Work, Slot, Serves, ServesPt, ServesReg, ServesCj
  <2>3. Op(t).kind # "reexport" => Op(t).icon \in Paths
    BY <2>1, OpsKinds DEF Paths
  <2> QED
    BY <2>2, <2>3
<1>4. At(t, "cjname") => Op(t).name \in Icons \cup {None}
  BY BusyMeans, OpsKinds DEF At, Belongs
<1>5. value \in Paths /\ (key = "name" => value \in Icons \cup {None})
  BY <1>1, <1>3, <1>4 DEF Paths
<1>6. key = "icon" => value = IF Op(t).kind = "reexport" THEN task[t].saves ELSE Op(t).icon
  OBVIOUS
<1> HIDE DEF key, step, value
<1>7. key \in {"icon", "name"}
  BY DEF key
<1>8. Busy(t) /\ ~Works(t) /\ server = "up"
  BY <1>1 DEF SetKey, Served, Works, At
<1>9. CASE file["cj"] = Torn
  <2>1. Abandon({t}) /\ UNCHANGED <<disk_, server, handler, conn, apps_, want, alone, mixed>>
    BY <1>1, <1>9 DEF SetKey, disk_
  <2> QED
    BY <1>8, <2>1, AbandonGoes
<1>10. CASE file["cj"] # Torn
  <2>1. Unmoved /\ OpenTmp(t, "cj", [Seen("cj") EXCEPT ![key] = value], key)
    BY <1>1, <1>10 DEF SetKey, Unmoved
  <2> QED
    BY <1>1, <1>2, <1>5, <1>6, <1>7, <1>8, <1>10, <2>1 DEF OpenCj, Opens
<1> QED
  BY <1>9, <1>10

LEMMA ScanShape ==
  ASSUME Typed, Work, NEW t \in Tasks, Scan(t) \/ Resolve(t)
  PROVE  Goes(t) \/ OpenReg(t)
<1>1. Busy(t) /\ ~Works(t) /\ server = "up" /\ Head(task[t].todo) \in {"scan", "resolve"}
  BY DEF Scan, Resolve, Served, Works, At
<1>2. Op(t).kind \in {"scan", "launch"}
  BY <1>1, BusyMeans DEF Belongs
<1>3. CASE OpenTmp(t, "reg", installed, "all") /\ Unmoved
  BY <1>1, <1>2, <1>3 DEF OpenReg, Opens
<1>4. CASE At(t, "resolve") /\ Advance(t) /\ UNCHANGED <<disk_, server, handler, conn, apps_, want, alone, mixed>>
  <2>1. ~At(t, "list") /\ ~At(t, "hosticon") /\ ~At(t, "scan")
    BY <1>4 DEF At
  <2> QED
    BY <1>1, <1>4, <2>1, AdvanceGoes
<1> QED
  BY <1>3, <1>4 DEF Scan, Resolve, Unmoved, disk_

LEMMA StepShapes ==
  ASSUME Typed, Work, NEW t \in Tasks, Step(t)
  PROVE  Goes(t) \/ OpenPt(t) \/ OpenCj(t) \/ OpenReg(t) \/ Fill(t) \/ RenameTmp(t)
<1>1. SetList(t) => OpenPt(t)
  BY DEF SetList, OpenPt, Opens, Unmoved, At, Served, Works
<1> QED
  BY <1>1, ReadListShape, ReadHostShape, HostShape, SetShape, ScanShape DEF Step

\* A handler fills the file it has opened, wherever that is by now.
FillOf(t, text_) ==
  /\ text_ \in {handler[t].new, Torn}
  /\ (\A u \in Writers(handler[t].store) \ {t} : handler[u].at # handler[t].at) => text_ = handler[t].new
  /\ handler[t].at = "tmp"  => tmp'[handler[t].store] = text_ /\ file' = file
  /\ handler[t].at = "file" => file'[handler[t].store] = text_ /\ tmp' = tmp
  /\ handler[t].at = "gone" => file' = file /\ tmp' = tmp

LEMMA FillMeans ==
  ASSUME Typed, NEW t \in Tasks, Fill(t)
  PROVE  /\ Works(t) /\ handler[t].pc = "opened" /\ handler[t] \in HandlerRec
         /\ handler' = [handler EXCEPT ![t] = [handler[t] EXCEPT !.pc = "filled"]]
         /\ handler'[t].pc = "filled" /\ handler'[t].store = handler[t].store /\ handler'[t].new = handler[t].new
         /\ handler'[t].key = handler[t].key /\ handler'[t].at = handler[t].at
         /\ handler'[t] \in HandlerRec /\ \A u \in Tasks \ {t} : handler'[u] = handler[u]
         /\ \A u \in Tasks : Works(u)' <=> Works(u)
         /\ \A s \in Stores : Writers(s)' = Writers(s)
         /\ \A s \in Stores \ {handler[t].store} : file'[s] = file[s] /\ tmp'[s] = tmp[s]
         /\ file' = [s \in Stores |-> file'[s]] /\ tmp' = [s \in Stores |-> tmp'[s]]
         /\ \E text_ : FillOf(t, text_)
         /\ UNCHANGED <<legacy, text, server, task, conn, host_, apps_, hist_, rest_>>
<1> DEFINE h == handler[t]
<1>1. Works(t) /\ h.pc = "opened" /\ h \in HandlerRec
  BY SlotTyped DEF Fill, Works
<1>2. handler = [u \in Tasks |-> handler[u]] /\ tmp = [r \in Stores |-> tmp[r]] /\ file = [r \in Stores |-> file[r]]
  BY DEF Typed
<1>3. handler' = [handler EXCEPT ![t] = [h EXCEPT !.pc = "filled"]]
  BY <1>2 DEF Fill
<1>4. \A u \in Tasks \ {t} : handler'[u] = handler[u]
  BY <1>2, <1>3
<1>5. handler'[t] = [h EXCEPT !.pc = "filled"]
  BY <1>2, <1>3
<1>6. [h EXCEPT !.pc = "filled"] = [pc |-> "filled", store |-> h.store, new |-> h.new, key |-> h.key, at |-> h.at]
  BY <1>1, HandlerExcept
<1>7. /\ handler'[t].pc = "filled" /\ handler'[t].store = h.store /\ handler'[t].new = h.new
      /\ handler'[t].key = h.key /\ handler'[t].at = h.at /\ handler'[t] \in HandlerRec
  <2>1. handler'[t] \in HandlerRec
    BY <1>1, <1>5, <1>6, HandlerExcept DEF HandlerRec
  <2> QED
    BY <1>5, <1>6, <2>1
<1>8. Works(t)'
  BY <1>7, HandlerExcept DEF Works
<1>9. \A u \in Tasks : Works(u)' <=> Works(u)
  BY <1>1, <1>4, <1>8 DEF Works
<1>10. \A s \in Stores : Writers(s)' = Writers(s)
  <2> SUFFICES ASSUME NEW s \in Stores PROVE Writers(s)' = Writers(s)
    OBVIOUS
  <2>1. \A u \in Tasks : handler'[u].store = handler[u].store
    BY <1>4, <1>7
  <2> QED
    BY <1>9, <2>1 DEF Writers, Works
<1>11. PICK text_ \in {h.new} \cup (IF {u \in Writers(h.store) \ {t} : handler[u].at = h.at} = {} THEN {} ELSE {Torn}) :
          /\ tmp'  = IF h.at = "tmp"  THEN [tmp EXCEPT ![h.store] = text_] ELSE tmp
          /\ file' = IF h.at = "file" THEN [file EXCEPT ![h.store] = text_] ELSE file
  BY DEF Fill
<1>12. h.store \in Stores
  BY <1>1, HandlerExcept
<1>13. /\ \A s \in Stores \ {h.store} : file'[s] = file[s] /\ tmp'[s] = tmp[s]
       /\ file' = [s \in Stores |-> file'[s]] /\ tmp' = [s \in Stores |-> tmp'[s]]
  BY <1>2, <1>11, <1>12
<1>14. FillOf(t, text_)
  BY <1>2, <1>11, <1>12 DEF FillOf
<1>15. UNCHANGED <<legacy, text, server, task, conn, host_, apps_, hist_, rest_>>
  BY DEF Fill
<1> QED
  BY <1>1, <1>3, <1>4, <1>7, <1>9, <1>10, <1>13, <1>14, <1>15

\* A handler renames the temporary file, or finds that another has renamed it.
Moves(t) == LET s == handler[t].store IN
  /\ file'[s] = tmp[s] /\ file'[s] # NoFile /\ tmp'[s] = NoFile /\ Answered(t) /\ want' = Merged(t)
Misses(t) == /\ UNCHANGED <<file, tmp, want>> /\ tmp[handler[t].store] = NoFile
             /\ IF handler[t].store = "reg" THEN Answered(t) ELSE Abandon({t})

LEMMA RenameMeans ==
  ASSUME Typed, NEW t \in Tasks, RenameTmp(t)
  PROVE  /\ Works(t) /\ handler[t].pc = "filled" /\ handler[t] \in HandlerRec /\ handler[t].store \in Stores
         /\ handler' = [u \in Tasks |-> handler'[u]] /\ ~Works(t)'
         /\ \A u \in Tasks \ {t} : /\ Works(u)' <=> Works(u)
                                   /\ Works(u) => /\ handler'[u] \in HandlerRec
                                                  /\ handler'[u].store = handler[u].store
                                                  /\ handler'[u].new = handler[u].new /\ handler'[u].key = handler[u].key
                                                  /\ handler'[u].pc = handler[u].pc
                                   /\ u \notin Writers(handler[t].store) => handler'[u] = handler[u]
         /\ \A s \in Stores : Writers(s)' = Writers(s) \ {t}
         /\ \A s \in Stores \ {handler[t].store} :
              Writers(s)' = Writers(s) /\ file'[s] = file[s] /\ tmp'[s] = tmp[s]
         /\ file' = [s \in Stores |-> file'[s]] /\ tmp' = [s \in Stores |-> tmp'[s]]
         /\ Moves(t) \/ Misses(t)
         /\ listed' = Shown(t)
         /\ UNCHANGED <<legacy, text, server, conn, host_, installed, alone, mixed, rest_>>
<1> DEFINE h == handler[t]
<1>1. Works(t) /\ h.pc = "filled" /\ h \in HandlerRec /\ h.store \in Stores
  BY SlotTyped DEF RenameTmp, Works
<1>2. handler = [u \in Tasks |-> handler[u]] /\ tmp = [r \in Stores |-> tmp[r]] /\ file = [r \in Stores |-> file[r]]
  BY DEF Typed
<1>3. /\ handler' = [u \in Tasks |-> handler'[u]] /\ ~Works(t)'
      /\ \A u \in Tasks \ {t} : \/ handler'[u] = handler[u]
                                \/ /\ u \in Writers(h.store)
                                   /\ \E a \in {"file", "gone"} : handler'[u] = [handler[u] EXCEPT !.at = a]
  <2>1. CASE tmp[h.store] # NoFile
    <3>1. Renamed(t)
      BY <2>1 DEF RenameTmp
    <3>2. handler' = [u \in Tasks |->
                       IF u = t THEN NoHandler
                       ELSE IF u \in Writers(h.store)
                            THEN [handler[u] EXCEPT !.at = IF handler[u].at = "tmp" THEN "file" ELSE "gone"]
                            ELSE handler[u]]
      BY <3>1 DEF Renamed
    <3> QED
      BY <3>2 DEF Works
  <2>2. CASE tmp[h.store] = NoFile
    <3>1. handler' = [handler EXCEPT ![t] = NoHandler]
      BY <2>2 DEF RenameTmp
    <3> QED
      BY <1>2, <3>1 DEF Works
  <2> QED
    BY <2>1, <2>2
<1>4. ASSUME NEW u \in Tasks \ {t}
      PROVE  /\ Works(u)' <=> Works(u)
             /\ Works(u) => /\ handler'[u] \in HandlerRec /\ handler'[u].store = handler[u].store
                            /\ handler'[u].new = handler[u].new /\ handler'[u].key = handler[u].key
                            /\ handler'[u].pc = handler[u].pc
             /\ u \notin Writers(h.store) => handler'[u] = handler[u]
  <2>1. CASE handler'[u] = handler[u]
    BY <2>1, SlotTyped DEF Works
  <2>2. CASE u \in Writers(h.store) /\ \E a \in {"file", "gone"} : handler'[u] = [handler[u] EXCEPT !.at = a]
    <3> DEFINE g == handler[u]
    <3>1. g \in HandlerRec /\ Works(u)
      BY <2>2, SlotTyped DEF Writers, Works
    <3>2. PICK a \in {"file", "gone"} : handler'[u] = [g EXCEPT !.at = a]
      BY <2>2
    <3>3. [g EXCEPT !.at = a] = [pc |-> g.pc, store |-> g.store, new |-> g.new, key |-> g.key, at |-> a]
      BY <3>1, HandlerExcept
    <3>4. handler'[u] = [pc |-> g.pc, store |-> g.store, new |-> g.new, key |-> g.key, at |-> a]
      BY <3>2, <3>3
    <3>5. handler'[u] \in HandlerRec
      <4>1. /\ g.pc \in {"opened", "filled"} /\ g.store \in Stores /\ g.new \in AnyContents
            /\ g.key \in {"all", "icon", "name"}
        BY <3>1, HandlerExcept
      <4>2. a \in {"tmp", "file", "gone"}
        BY <3>2
      <4> HIDE DEF g
      <4>3. [pc |-> g.pc, store |-> g.store, new |-> g.new, key |-> g.key, at |-> a] \in HandlerRec
        BY <4>1, <4>2 DEF HandlerRec
      <4> QED
        BY <3>4, <4>3
    <3>6. handler'[u] # NoHandler
      BY <3>5, HandlerExcept
    <3> QED
      BY <2>2, <3>1, <3>4, <3>5, <3>6 DEF Works
  <2> QED
    BY <1>3, <2>1, <2>2
<1>5. ASSUME NEW s \in Stores PROVE Writers(s)' = Writers(s) \ {t}
  <2>1. \A u \in Tasks \ {t} : u \in Writers(s)' <=> u \in Writers(s)
    BY <1>4 DEF Writers, Works
  <2>2. t \notin Writers(s)' /\ Writers(s)' \subseteq Tasks /\ Writers(s) \subseteq Tasks
    BY <1>3 DEF Writers, Works
  <2> QED
    BY <2>1, <2>2
<1>6. \A s \in Stores \ {h.store} : Writers(s)' = Writers(s)
  BY <1>5 DEF Writers
<1>7. UNCHANGED <<legacy, text, server, conn, host_, installed, alone, mixed, rest_>> /\ listed' = Shown(t)
  BY DEF RenameTmp
<1>8. CASE tmp[h.store] # NoFile
  <2>1. Renamed(t) /\ Answered(t) /\ want' = Merged(t)
    BY <1>8 DEF RenameTmp
  <2>2. file' = [file EXCEPT ![h.store] = tmp[h.store]] /\ tmp' = [tmp EXCEPT ![h.store] = NoFile]
    BY <2>1 DEF Renamed
  <2>3. /\ file'[h.store] = tmp[h.store] /\ tmp'[h.store] = NoFile
        /\ file' = [s \in Stores |-> file'[s]] /\ tmp' = [s \in Stores |-> tmp'[s]]
        /\ \A s \in Stores \ {h.store} : file'[s] = file[s] /\ tmp'[s] = tmp[s]
    BY <1>1, <1>2, <2>2
  <2>4. Moves(t)
    BY <1>8, <2>1, <2>3 DEF Moves
  <2> QED
    BY <1>1, <1>3, <1>4, <1>5, <1>6, <1>7, <2>3, <2>4
<1>9. CASE tmp[h.store] = NoFile
  <2>1. Misses(t) /\ UNCHANGED <<file, tmp>>
    BY <1>9 DEF RenameTmp, Misses
  <2> QED
    BY <1>1, <1>2, <1>3, <1>4, <1>5, <1>6, <1>7, <2>1
<1> QED
  BY <1>8, <1>9

-----------------------------------------------------------------------------
(* Company: whether commands run alone *)

\* No step but the beginning of a command and an edit by the manager changes who runs with whom.
Calm ==
  /\ alone' = alone
  /\ \A u \in Tasks : Op(u)' = Op(u) /\ (Busy(u)' => Busy(u)) /\ (Taken(u)' => Taken(u))
  /\ \A a \in stale \ stale' : \E w \in Tasks : Busy(w) /\ Aspect(Op(w)) = a /\ alone[w] /\ ~Taken(w)'

LEMMA GoesCalm ==
  ASSUME NEW t \in Tasks, Goes(t)
  PROVE  Calm
<1>1. /\ handler' = handler /\ alone' = alone /\ Busy(t) /\ \A u \in Tasks \ {t} : task'[u] = task[u]
      /\ task'[t].op = task[t].op /\ Orders(t) /\ ~Works(t)
  BY DEF Goes
<1>2. \A u \in Tasks : Op(u)' = Op(u) /\ (Busy(u)' => Busy(u))
  BY <1>1 DEF Op, Busy
<1>3. \A a \in stale \ stale' : Aspect(Op(t)) = a /\ alone[t] /\ ~Taken(t)'
  BY <1>1 DEF Orders, Taken, Busy, Works
<1> QED
  BY <1>1, <1>2, <1>3 DEF Calm, Taken

LEMMA OpensCalm ==
  ASSUME Typed, NEW t \in Tasks, OpenPt(t) \/ OpenCj(t) \/ OpenReg(t)
  PROVE  Calm
<1>1. Opens(t) /\ \E s \in Stores : \E new, key : OpenTmp(t, s, new, key)
  BY DEF OpenPt, OpenCj, OpenReg, Stores
<1>2. /\ task' = task /\ alone' = alone /\ stale' = stale /\ Busy(t) /\ ~Works(t)
  BY <1>1 DEF Opens, Unmoved
<1>3. \A u \in Tasks \ {t} : handler'[u] = handler[u]
  BY <1>1, <1>2, OpenMeans
<1> QED
  BY <1>2, <1>3 DEF Calm, Taken, Busy, Op

LEMMA FillCalm ==
  ASSUME Typed, NEW t \in Tasks, Fill(t)
  PROVE  Calm
<1>1. task' = task /\ alone' = alone /\ stale' = stale
  BY FillMeans DEF hist_
<1>2. \A u \in Tasks : Works(u)' <=> Works(u)
  BY FillMeans
<1> QED
  BY <1>1, <1>2 DEF Calm, Taken, Busy, Op, Works

\* How the end of a handler moves its command.
LEMMA RenameTasks ==
  ASSUME Typed, Work, NEW t \in Tasks, RenameTmp(t)
  PROVE  /\ task' \in [Tasks -> TaskRec] /\ \A u \in Tasks \ {t} : task'[u] = task[u]
         /\ task'[t].op = task[t].op /\ task'[t].saves = task[t].saves /\ task'[t].conn = task[t].conn
         /\ ~Busy(t) => task'[t] = task[t]
         /\ Busy(t) => task'[t].todo \in Left(Op(t)) \cup {<<>>}
         /\ Busy(t) => task'[t].todo \in {Tail(task[t].todo), <<>>}
         /\ stale' \subseteq stale \cup {"icon"}
         /\ \A a \in stale \ stale' : a = Aspect(Op(t)) /\ alone[t] /\ Busy(t) /\ task'[t].todo = <<>>
         /\ Moves(t) /\ Busy(t) => task'[t].todo = Tail(task[t].todo)
<1>1. Answered(t) \/ Abandon({t})
  BY RenameMeans DEF Moves, Misses
<1>2. CASE Answered(t) /\ Busy(t)
  <2>1. Advance(t)
    BY <1>2 DEF Answered
  <2> QED
    BY <1>2, <2>1, AdvanceTyped DEF Orders
<1>3. CASE Answered(t) /\ ~Busy(t)
  <2>1. task' = task /\ stale' = stale
    BY <1>3 DEF Answered
  <2>2. task \in [Tasks -> TaskRec]
    BY DEF Typed
  <2> QED
    BY <1>3, <2>1, <2>2
<1>4. CASE Abandon({t}) /\ ~Answered(t)
  <2>1. ~Moves(t)
    BY <1>4 DEF Moves
  <2>2. task' \in [Tasks -> TaskRec]
    BY <1>4, AbandonTyped
  <2>3. /\ task'[t].op = task[t].op /\ task'[t].saves = task[t].saves /\ task'[t].conn = task[t].conn
        /\ task'[t].todo = <<>> /\ task'[t] = [task[t] EXCEPT !.todo = <<>>]
        /\ \A u \in Tasks \ {t} : task'[u] = task[u]
        /\ stale \subseteq stale' /\ stale' \subseteq stale \cup {"icon"}
    BY <1>4, AbandonMeans
  <2>4. ~Busy(t) => task'[t] = task[t]
    <3>1. task[t] \in TaskRec
      BY SlotTyped
    <3> QED
      <4> DEFINE r == task[t]
      <4>1. /\ r = [todo |-> r.todo, op |-> r.op, conn |-> r.conn, saves |-> r.saves]
            /\ [r EXCEPT !.todo = <<>>] = [todo |-> <<>>, op |-> r.op, conn |-> r.conn, saves |-> r.saves]
        BY <3>1, TaskExcept
      <4>2. ~Busy(t) => r.todo = <<>>
        BY DEF Busy
      <4>3. task'[t] = [r EXCEPT !.todo = <<>>]
        BY <2>3
      <4>4. r = task[t]
        OBVIOUS
      <4> HIDE DEF r
      <4>5. ~Busy(t) => [r EXCEPT !.todo = <<>>] = r
        BY <4>1, <4>2
      <4> QED
        BY <4>3, <4>4, <4>5
  <2> QED
    BY <2>1, <2>2, <2>3, <2>4
<1> QED
  BY <1>1, <1>2, <1>3, <1>4

LEMMA RenameCalm ==
  ASSUME Typed, Work, NEW t \in Tasks, RenameTmp(t)
  PROVE  Calm
<1>1. /\ alone' = alone /\ ~Works(t)' /\ Works(t) /\ \A u \in Tasks \ {t} : Works(u)' <=> Works(u)
  BY RenameMeans
<1>2. /\ \A u \in Tasks \ {t} : task'[u] = task[u]
      /\ task'[t].op = task[t].op /\ (~Busy(t) => task'[t] = task[t])
      /\ \A a \in stale \ stale' : a = Aspect(Op(t)) /\ alone[t] /\ Busy(t) /\ task'[t].todo = <<>>
  BY RenameTasks
<1>3. \A u \in Tasks : Op(u)' = Op(u) /\ (Busy(u)' => Busy(u))
  BY <1>2 DEF Op, Busy
<1>4. \A u \in Tasks : Taken(u)' => Taken(u)
  BY <1>1, <1>3 DEF Taken, Works
<1>5. \A a \in stale \ stale' : Aspect(Op(t)) = a /\ alone[t] /\ Busy(t) /\ ~Taken(t)'
  BY <1>1, <1>2 DEF Taken, Works, Busy
<1> QED
  BY <1>1, <1>3, <1>4, <1>5 DEF Calm

LEMMA AbandonCalm ==
  ASSUME Typed, NEW T \in SUBSET Tasks, Abandon(T), alone' = alone, \A u \in Tasks : Works(u)' => Works(u)
  PROVE  Calm
<1>1. \A u \in Tasks : Op(u)' = Op(u) /\ (Busy(u)' => Busy(u))
  BY AbandonMeans DEF Op, Busy
<1>2. stale \ stale' = {}
  BY AbandonMeans
<1> QED
  BY <1>1, <1>2 DEF Calm, Taken, Works

LEMMA OtherCalm ==
  ASSUME Typed, \/ StartServer \/ RewriteBegin \/ RewriteEnd \/ ServerDies \/ WindowCloses \/ PackagesChange
                \/ UNCHANGED vars
  PROVE  Calm
<1>1. CASE StartServer \/ RewriteBegin \/ RewriteEnd \/ PackagesChange \/ UNCHANGED vars
  <2>1. UNCHANGED <<task, handler, alone, stale>>
    BY <1>1 DEF StartServer, RewriteBegin, RewriteEnd, PackagesChange, vars, hist_
  <2> QED
    BY <2>1 DEF Calm, Op, Busy, Taken
<1>2. CASE ServerDies
  <2>1. /\ Abandon({t \in Tasks : handler[t] # NoHandler}) /\ alone' = alone
        /\ handler' = [t \in Tasks |-> NoHandler]
    BY <1>2 DEF ServerDies
  <2> QED
    BY <2>1, AbandonCalm DEF Works
<1>3. CASE WindowCloses
  <2>1. /\ Abandon({t \in Tasks : Busy(t) /\ task[t].conn # 0}) /\ alone' = alone /\ handler' = handler
    BY <1>3 DEF WindowCloses
  <2> QED
    BY <2>1, AbandonCalm DEF Works
<1> QED
  BY <1>1, <1>2, <1>3

\* All the other steps are calm.
LEMMA NextCalm ==
  ASSUME Typed, Work, [Usual]_vars
  PROVE  Calm \/ ManagerEdits \/ \E t \in Tasks, op \in Ops : Begin(t, op)
<1>1. ASSUME NEW t \in Tasks, Step(t) PROVE Calm
  BY <1>1, StepShapes, GoesCalm, OpensCalm, FillCalm, RenameCalm
<1> QED
  BY <1>1, OtherCalm DEF Usual

\* What the beginning of a command changes.
LEMMA BeginMeans ==
  ASSUME Typed, NEW t \in Tasks, NEW op \in Ops, Begin(t, op)
  PROVE  /\ ~Taken(t) /\ task' \in [Tasks -> TaskRec] /\ \A u \in Tasks \ {t} : task'[u] = task[u]
         /\ task'[t].op = op /\ task'[t].todo = Steps(op) /\ task'[t].saves = None
         /\ stale \subseteq stale'
<1> DEFINE c == IF op.kind = "launch" THEN 0 ELSE conn
           r == [Idle EXCEPT !.todo = Steps(op), !.op = op, !.conn = c]
<1>1. task \in [Tasks -> TaskRec] /\ conn \in Nat
  BY DEF Typed
<1>2. r = [todo |-> Steps(op), op |-> op, conn |-> c, saves |-> None]
  <2> DEFINE r0 == [todo |-> <<>>, op |-> [kind |-> "none"], conn |-> 0, saves |-> None]
             r1 == [todo |-> Steps(op), op |-> [kind |-> "none"], conn |-> 0, saves |-> None]
             r2 == [todo |-> Steps(op), op |-> op, conn |-> 0, saves |-> None]
  <2>1. r = [[[r0 EXCEPT !.todo = Steps(op)] EXCEPT !.op = op] EXCEPT !.conn = c]
    BY DEF Idle
  <2>2. [r0 EXCEPT !.todo = Steps(op)] = r1
    OBVIOUS
  <2>3. [r1 EXCEPT !.op = op] = r2
    OBVIOUS
  <2>4. [r2 EXCEPT !.conn = c] = [todo |-> Steps(op), op |-> op, conn |-> c, saves |-> None]
    OBVIOUS
  <2> HIDE DEF r0, r1, r2
  <2> QED
    BY <2>1, <2>2, <2>3, <2>4
<1>3. c \in Nat /\ Steps(op) \in Todos /\ None \in Paths
  BY <1>1, StepsMeans DEF Paths
<1>4. task' = [task EXCEPT ![t] = r]
  BY DEF Begin
<1> HIDE DEF c, r
<1>5. r \in TaskRec
  BY <1>2, <1>3 DEF TaskRec
<1>6. task'[t] = r /\ \A u \in Tasks \ {t} : task'[u] = task[u]
  BY <1>1, <1>4
<1>7. task' \in [Tasks -> TaskRec]
  BY <1>1, <1>4, <1>5
<1>8. ~Taken(t) /\ stale \subseteq stale'
  BY DEF Begin
<1> QED
  BY <1>2, <1>6, <1>7, <1>8

\* A calm step leaves no two commands of one aspect alone.
LEMMA CalmCompany ==
  ASSUME Company, Calm
  PROVE  Company'
<1>1. ASSUME NEW t \in Tasks, NEW u \in Tasks, t # u, Taken(t)', Taken(u)', Aspect(Op(t))' = Aspect(Op(u))'
      PROVE  ~alone'[t]
  BY <1>1 DEF Calm, Company
<1>2. ASSUME NEW t \in Tasks, Taken(t)', ~alone'[t] PROVE Aspect(Op(t))' \in stale'
  <2>1. Taken(t) /\ ~alone[t] /\ Aspect(Op(t))' = Aspect(Op(t))
    BY <1>2 DEF Calm
  <2>2. Aspect(Op(t)) \in stale
    BY <2>1 DEF Company
  <2>3. SUFFICES ASSUME Aspect(Op(t)) \notin stale' PROVE FALSE
    BY <2>1
  <2>4. PICK w \in Tasks : Busy(w) /\ Aspect(Op(w)) = Aspect(Op(t)) /\ alone[w]
    BY <2>2, <2>3 DEF Calm
  <2>5. w # t /\ Taken(w)
    BY <2>1, <2>4 DEF Taken
  <2> QED
    BY <2>1, <2>4, <2>5 DEF Company
<1> QED
  BY <1>1, <1>2 DEF Company

LEMMA CompanyKept ==
  ASSUME Typed, Work, Company, [Usual]_vars
  PROVE  Company'
<1>1. CASE Calm
  BY <1>1, CalmCompany
<1>2. CASE ManagerEdits
  <2>1. /\ task' = task /\ handler' = handler /\ stale' = stale \cup {"icon"}
        /\ alone' = [t \in Tasks |-> alone[t] /\ Taken(t) /\ Aspect(Op(t)) # "icon"]
    BY <1>2 DEF ManagerEdits
  <2>2. \A t \in Tasks : (Taken(t)' <=> Taken(t)) /\ Op(t)' = Op(t)
    BY <2>1 DEF Taken, Busy, Op
  <2> QED
    BY <2>1, <2>2 DEF Company
<1>3. ASSUME NEW t \in Tasks, NEW op \in Ops, Begin(t, op) PROVE Company'
  <2> DEFINE same == {u \in Tasks \ {t} : Taken(u) /\ Aspect(Op(u)) = Aspect(op)}
  <2>1. /\ \A u \in Tasks \ {t} : task'[u] = task[u]
        /\ task'[t].op = op /\ ~Taken(t)
    BY <1>3, BeginMeans
  <2>2. /\ handler' = handler /\ alone' = [u \in Tasks |-> IF u = t THEN same = {} ELSE alone[u] /\ u \notin same]
        /\ stale' = IF same = {} THEN stale ELSE stale \cup {Aspect(op)}
    BY <1>3 DEF Begin, Same
  <2>3. \A u \in Tasks \ {t} : (Taken(u)' <=> Taken(u)) /\ Op(u)' = Op(u)
    BY <2>1, <2>2 DEF Taken, Busy, Op
  <2>4. Op(t)' = op
    BY <2>1 DEF Op
  <2>5. ASSUME NEW v \in Tasks, NEW u \in Tasks, v # u, Taken(v)', Taken(u)', Aspect(Op(v))' = Aspect(Op(u))'
        PROVE  ~alone'[v]
    <3>1. CASE v = t
      <4>1. u \in same
        BY <2>3, <2>4, <2>5, <3>1
      <4> QED
        BY <2>2, <3>1, <4>1
    <3>2. CASE u = t
      <4>1. v \in same
        BY <2>3, <2>4, <2>5, <3>2
      <4> QED
        BY <2>2, <2>5, <3>2, <4>1
    <3>3. CASE v # t /\ u # t
      <4>1. ~alone[v]
        BY <2>3, <2>5, <3>3 DEF Company
      <4> QED
        BY <2>2, <3>3, <4>1
    <3> QED
      BY <3>1, <3>2, <3>3
  <2>6. ASSUME NEW u \in Tasks, Taken(u)', ~alone'[u] PROVE Aspect(Op(u))' \in stale'
    <3>1. CASE u = t
      BY <2>2, <2>4, <2>6, <3>1
    <3>2. CASE u # t /\ u \in same
      BY <2>2, <2>3, <3>2
    <3>3. CASE u # t /\ u \notin same
      <4>1. ~alone[u] /\ Taken(u)
        BY <2>2, <2>3, <2>6, <3>3
      <4> QED
        BY <2>2, <2>3, <3>3, <4>1 DEF Company
    <3> QED
      BY <3>1, <3>2, <3>3
  <2> QED
    BY <2>5, <2>6 DEF Company
<1> QED
  BY <1>1, <1>2, <1>3, NextCalm

-----------------------------------------------------------------------------
(* Work: what a handler and a command have to do with each other *)

LEMMA WorksAt ==
  ASSUME Typed, Work, NEW t \in Tasks, Works(t), Busy(t)
  PROVE  Head(task[t].todo) \in {"set", "cjicon", "cjname", "scan", "resolve"}
<1>1. Op(t) \in Ops /\ task[t].todo \in Left(Op(t)) /\ handler[t].store \in Stores
  BY BusyMeans, SlotTyped
<1>2. CASE handler[t].store \in {"pt", "cj"}
  BY <1>2 DEF Work, Serves, ServesPt, ServesCj, At
<1>3. CASE handler[t].store = "reg"
  <2>1. Op(t).kind \in {"scan", "launch"}
    BY <1>1, <1>3, AspectOf DEF Work, Serves, ServesReg
  <2>2. task[t].todo \in {<<"scan">>, <<"resolve">>}
    BY <1>1, <2>1, LeftCases
  <2>3. Head(<<"scan">>) = "scan" /\ Head(<<"resolve">>) = "resolve"
    OBVIOUS
  <2> QED
    BY <2>2, <2>3
<1> QED
  BY <1>1, <1>2, <1>3 DEF Stores

\* A slot and a handler that no step touches.
LEMMA SlotFrame ==
  ASSUME NEW t, task'[t].todo = task[t].todo /\ task'[t].op = task[t].op /\ task'[t].saves = task[t].saves, Slot(t)
  PROVE  Slot(t)'
BY DEF Slot, Busy, At, Op

LEMMA ServesFrame ==
  ASSUME NEW t, task'[t].todo = task[t].todo /\ task'[t].op = task[t].op /\ task'[t].saves = task[t].saves,
         server' = server, Serves(t), Works(t)' => Works(t),
         Works(t) => /\ handler'[t].store = handler[t].store /\ handler'[t].new = handler[t].new
                     /\ handler'[t].key = handler[t].key
  PROVE  Serves(t)'
BY DEF Serves, ServesPt, ServesReg, ServesCj, Works, Busy, At, Op, Contents

\* A command that is given up.
LEMMA SlotEnds ==
  ASSUME NEW t, task'[t].todo = <<>>
  PROVE  Slot(t)'
BY DEF Slot, Busy, At

LEMMA ServesEnds ==
  ASSUME NEW t, task'[t].todo = <<>>, task'[t].op = task[t].op, server' = server, handler'[t] = handler[t], Serves(t)
  PROVE  Serves(t)'
BY DEF Serves, ServesPt, ServesReg, ServesCj, Works, Busy, At, Op, Contents

LEMMA GoesWork ==
  ASSUME Typed, Work, NEW t \in Tasks, Goes(t)
  PROVE  Work'
<1>1. ASSUME NEW u \in Tasks \ {t} PROVE Slot(u)' /\ Serves(u)'
  <2>1. Slot(u) /\ Serves(u) /\ task'[u] = task[u] /\ server' = server /\ handler' = handler
    BY <1>1 DEF Work, Goes
  <2> QED
    BY <2>1, SlotFrame, ServesFrame DEF Works
<1>2. Serves(t)'
  BY DEF Goes, Serves, Works
<1>3. Op(t) \in Ops /\ Busy(t)
  BY BusyMeans DEF Goes
<1>4. task'[t].op = task[t].op /\ task'[t].todo \in Left(Op(t)) \cup {<<>>} /\ Op(t)' = Op(t)
  BY DEF Goes, Op
<1>5. Busy(t)' => Op(t)' \in Ops /\ task'[t].todo \in Left(Op(t)')
  BY <1>3, <1>4 DEF Busy
<1>6. At(t, "set")' => task'[t].saves \in PtFiles
  <2> SUFFICES ASSUME At(t, "set")' PROVE task'[t].saves \in PtFiles
    OBVIOUS
  <2>1. At(t, "list") /\ Allowed(Op(t), Seen("pt")) /\ task'[t].saves = Changed(Op(t), Seen("pt"))
    BY DEF Goes
  <2>2. Op(t) \in PtOps
    BY <1>3, <2>1, BusyMeans, AspectOf DEF Belongs, At
  <2>3. Seen("pt") \in PtFiles
    BY SeenMeans, ContentsMeans DEF Stores
  <2> QED
    BY <2>1, <2>2, <2>3, ChangedTyped
<1>7. At(t, "cjicon")' /\ Op(t)'.kind = "reexport" => task'[t].saves \in Paths
  <2>1. At(t, "cjicon")' /\ Op(t).kind = "reexport" => task'[t].saves = host
    BY DEF Goes
  <2> QED
    BY <1>4, <2>1 DEF Typed
<1>8. Slot(t)'
  BY <1>4, <1>5, <1>6, <1>7 DEF Slot, Op
<1> QED
  BY <1>1, <1>2, <1>8 DEF Work

LEMMA OpensWork ==
  ASSUME Typed, Work, installed \subseteq Scanned, NEW t \in Tasks, OpenPt(t) \/ OpenCj(t) \/ OpenReg(t)
  PROVE  Work'
<1>1. task' = task /\ server' = server /\ server = "up" /\ Busy(t) /\ ~Works(t)
  BY DEF OpenPt, OpenCj, OpenReg, Opens, Unmoved
<1>2. \A u \in Tasks \ {t} : handler'[u] = handler[u]
  <2>1. \E s \in Stores : \E new, key : OpenTmp(t, s, new, key)
    BY DEF OpenPt, OpenCj, OpenReg, Stores
  <2> QED
    BY <1>1, <2>1, OpenMeans
<1>3. \A u \in Tasks : Slot(u)'
  BY <1>1, SlotFrame DEF Work
<1>4. \A u \in Tasks \ {t} : Serves(u)'
  BY <1>1, <1>2, ServesFrame DEF Work, Works
<1>5. Op(t) \in Ops /\ Belongs(Op(t), task[t].todo) /\ Op(t)' = Op(t) /\ (Busy(t)' <=> Busy(t)) /\ Slot(t)
  BY <1>1, BusyMeans DEF Op, Busy, Work
<1>6. ASSUME OpenPt(t) PROVE Serves(t)'
  <2>1. At(t, "set") /\ OpenTmp(t, "pt", task[t].saves, "all")
    BY <1>6 DEF OpenPt
  <2>2. handler'[t].store = "pt" /\ handler'[t].new = task[t].saves
    BY <1>1, <2>1, OpenFields DEF Stores
  <2>3. Aspect(Op(t)) = "pt" /\ At(t, "set")' /\ task[t].saves \in PtFiles
    BY <1>1, <1>5, <2>1 DEF Belongs, At, Busy, Slot
  <2>4. (handler[t].new \in Contents(handler[t].store))'
    BY <2>2, <2>3 DEF Contents
  <2>5. ServesPt(t)' /\ ServesCj(t)' /\ ServesReg(t)'
    BY <1>5, <2>2, <2>3 DEF ServesPt, ServesCj, ServesReg
  <2> QED
    BY <1>1, <1>5, <2>4, <2>5 DEF Serves
<1>7. ASSUME OpenReg(t) PROVE Serves(t)'
  <2>1. OpenTmp(t, "reg", installed, "all") /\ Aspect(Op(t)) = "reg"
    BY <1>5, <1>7, AspectOf DEF OpenReg
  <2>2. handler'[t].store = "reg" /\ handler'[t].new = installed
    BY <1>1, <2>1, OpenFields DEF Stores
  <2>3. (handler[t].new \in Contents(handler[t].store))'
    BY <2>2 DEF Contents
  <2>4. ServesPt(t)' /\ ServesCj(t)' /\ ServesReg(t)'
    BY <1>5, <2>1, <2>2 DEF ServesPt, ServesCj, ServesReg
  <2> QED
    BY <1>1, <1>5, <2>3, <2>4 DEF Serves
<1>8. ASSUME OpenCj(t) PROVE Serves(t)'
  <2>1. PICK key \in {"icon", "name"}, v \in Paths :
          /\ At(t, IF key = "icon" THEN "cjicon" ELSE "cjname") /\ (key = "name" => v \in Icons \cup {None})
          /\ key = "icon" => v = IF Op(t).kind = "reexport" THEN task[t].saves ELSE Op(t).icon
          /\ OpenTmp(t, "cj", [Seen("cj") EXCEPT ![key] = v], key)
    BY <1>8 DEF OpenCj
  <2> DEFINE new == [Seen("cj") EXCEPT ![key] = v]
  <2>2. Seen("cj") \in CjFiles
    BY SeenMeans, ContentsMeans DEF Stores
  <2>3. new \in CjFiles /\ new[key] = v
    BY <2>1, <2>2, KeyTyped
  <2>11. OpenTmp(t, "cj", new, key)
    BY <2>1
  <2> HIDE DEF new
  <2>12. "cj" \in Stores /\ ~Works(t)
    BY <1>1 DEF Stores
  <2>4. handler'[t].store = "cj" /\ handler'[t].new = new /\ handler'[t].key = key
    BY <2>11, <2>12, OpenFields
  <2>5. key = "icon" => new.icon = v
    BY <2>3, KeySet
  <2>6. Aspect(Op(t)) \in {"icon", "name"} /\ (key = "icon" => Aspect(Op(t)) = "icon")
    BY <1>5, <2>1, AspectOf DEF Belongs, At
  <2>7. \A step : At(t, step)' <=> At(t, step)
    BY <1>1 DEF At, Busy
  <2>8. (handler[t].new \in Contents(handler[t].store))'
    BY <2>3, <2>4 DEF Contents
  <2>9. ServesCj(t)'
    <3>1. At(t, IF key = "icon" THEN "cjicon" ELSE "cjname")'
      BY <2>1, <2>7
    <3>2. handler'[t].new.icon = v \/ key # "icon"
      BY <2>4, <2>5
    <3>3. task'[t].saves = task[t].saves
      BY <1>1
    <3> QED
      BY <1>5, <2>1, <2>4, <2>6, <3>1, <3>2, <3>3 DEF ServesCj
  <2>10. ServesPt(t)' /\ ServesReg(t)'
    BY <2>4 DEF ServesPt, ServesReg
  <2> QED
    BY <1>1, <1>5, <2>8, <2>9, <2>10 DEF Serves
<1>9. Serves(t)'
  BY <1>6, <1>7, <1>8
<1> QED
  BY <1>3, <1>4, <1>9 DEF Work

LEMMA FillWork ==
  ASSUME Typed, Work, NEW t \in Tasks, Fill(t)
  PROVE  Work'
<1>1. task' = task /\ server' = server
  BY FillMeans
<1>2. ASSUME NEW u \in Tasks
      PROVE  /\ Works(u)' => Works(u)
             /\ handler'[u].store = handler[u].store /\ handler'[u].new = handler[u].new
             /\ handler'[u].key = handler[u].key
  BY FillMeans
<1> QED
  BY <1>1, <1>2, SlotFrame, ServesFrame DEF Work

LEMMA RenameWork ==
  ASSUME Typed, Work, NEW t \in Tasks, RenameTmp(t)
  PROVE  Work'
<1>1. Works(t) /\ ~Works(t)' /\ server' = server
  BY RenameMeans
<1>2. ASSUME NEW u \in Tasks \ {t} PROVE Slot(u)' /\ Serves(u)'
  <2>1. task'[u] = task[u]
    BY RenameTasks
  <2>2. /\ Works(u)' <=> Works(u)
        /\ Works(u) => /\ handler'[u].store = handler[u].store /\ handler'[u].new = handler[u].new
                       /\ handler'[u].key = handler[u].key
    BY RenameMeans
  <2> QED
    BY <1>1, <2>1, <2>2, SlotFrame, ServesFrame DEF Work
<1>3. Serves(t)'
  BY <1>1 DEF Serves
<1>4. CASE ~Busy(t)
  <2>1. task'[t] = task[t]
    BY <1>4, RenameTasks
  <2> QED
    BY <1>2, <1>3, <2>1, SlotFrame DEF Work
<1>5. CASE Busy(t)
  <2>1. /\ task'[t].todo \in Left(Op(t)) \cup {<<>>} /\ task'[t].op = task[t].op
        /\ task'[t].todo \in {Tail(task[t].todo), <<>>}
    BY <1>5, RenameTasks
  <2>2. Op(t) \in Ops /\ Follows(Op(t), task[t].todo)
    BY <1>5, BusyMeans
  <2>3. Head(task[t].todo) \in {"set", "cjicon", "cjname", "scan", "resolve"}
    BY <1>1, <1>5, WorksAt
  <2>4. ~At(t, "set")' /\ ~At(t, "cjicon")'
    BY <2>1, <2>2, <2>3 DEF At, Busy, Follows
  <2>5. Slot(t)'
    BY <2>1, <2>2, <2>4 DEF Slot, Busy, Op
  <2> QED
    BY <1>2, <1>3, <2>5 DEF Work
<1> QED
  BY <1>4, <1>5

LEMMA BeginWork ==
  ASSUME Typed, Work, NEW t \in Tasks, NEW op \in Ops, Begin(t, op)
  PROVE  Work'
<1>1. /\ ~Taken(t) /\ \A u \in Tasks \ {t} : task'[u] = task[u]
      /\ task'[t].op = op /\ task'[t].todo = Steps(op)
  BY BeginMeans
<1>2. handler' = handler /\ server' = server /\ ~Works(t)
  BY <1>1 DEF Begin, Taken, Works
<1>3. \A u \in Tasks \ {t} : Slot(u)' /\ Serves(u)'
  BY <1>1, <1>2, SlotFrame, ServesFrame DEF Work, Works
<1>4. Serves(t)'
  BY <1>2 DEF Serves, Works
<1>5. Steps(op) \in Left(op) /\ Head(Steps(op)) \notin {"set", "cjicon"}
  BY StepsMeans
<1>6. Slot(t)'
  BY <1>1, <1>5 DEF Slot, Op, Busy, At
<1> QED
  BY <1>3, <1>4, <1>6 DEF Work

LEMMA AbandonWork ==
  ASSUME Typed, Work, NEW T \in SUBSET Tasks, Abandon(T),
         \/ handler' = handler /\ server' = server
         \/ \A u \in Tasks : ~Works(u)'
  PROVE  Work'
<1> SUFFICES ASSUME NEW u \in Tasks PROVE Slot(u)' /\ Serves(u)'
  BY DEF Work
<1>1. /\ task'[u].op = task[u].op /\ task'[u].todo = IF u \in T THEN <<>> ELSE task[u].todo
      /\ u \notin T => task'[u] = task[u]
  BY AbandonMeans
<1>2. Slot(u) /\ Serves(u)
  BY DEF Work
<1>3. Slot(u)'
  BY <1>1, <1>2, SlotFrame, SlotEnds
<1>4. CASE handler' = handler /\ server' = server
  BY <1>1, <1>2, <1>3, <1>4, ServesFrame, ServesEnds DEF Works
<1>5. CASE ~Works(u)'
  BY <1>3, <1>5 DEF Serves
<1> QED
  BY <1>4, <1>5

LEMMA OtherWork ==
  ASSUME Typed, Work, \/ StartServer \/ RewriteBegin \/ RewriteEnd \/ PackagesChange \/ ManagerEdits
                      \/ UNCHANGED vars
  PROVE  Work'
<1>1. task' = task /\ handler' = handler
  BY DEF StartServer, RewriteBegin, RewriteEnd, PackagesChange, ManagerEdits, vars
<1>2. server' = server \/ server # "up"
  BY DEF StartServer, RewriteBegin, RewriteEnd, PackagesChange, ManagerEdits, vars
<1>3. ASSUME NEW u \in Tasks PROVE Slot(u)' /\ Serves(u)'
  <2>1. Slot(u) /\ Serves(u)
    BY DEF Work
  <2>2. CASE server' = server
    BY <1>1, <2>1, <2>2, SlotFrame, ServesFrame DEF Works
  <2>3. CASE server # "up"
    BY <1>1, <2>1, <2>3, SlotFrame DEF Serves, Works
  <2> QED
    BY <1>2, <2>2, <2>3
<1> QED
  BY <1>3 DEF Work

LEMMA WorkKept ==
  ASSUME Typed, Work, installed \subseteq Scanned, [Usual]_vars
  PROVE  Work'
<1>1. CASE ServerDies
  <2>1. /\ Abandon({t \in Tasks : handler[t] # NoHandler}) /\ handler' = [t \in Tasks |-> NoHandler]
    BY <1>1 DEF ServerDies
  <2> QED
    BY <2>1, AbandonWork DEF Works
<1>2. CASE WindowCloses
  <2>1. /\ Abandon({t \in Tasks : Busy(t) /\ task[t].conn # 0}) /\ handler' = handler /\ server' = server
    BY <1>2 DEF WindowCloses
  <2> QED
    BY <2>1, AbandonWork
<1>3. ASSUME NEW t \in Tasks, Step(t) PROVE Work'
  BY <1>3, StepShapes, GoesWork, OpensWork, FillWork, RenameWork
<1> QED
  BY <1>1, <1>2, <1>3, OtherWork, BeginWork DEF Usual

-----------------------------------------------------------------------------
(* Typed: the values of the variables *)

LEMMA GoesTyped ==
  ASSUME Typed, NEW t \in Tasks, Goes(t), host' \in Paths
  PROVE  Typed'
<1>1. UNCHANGED <<file, tmp, legacy, text, handler, conn, want, alone>> /\ task' \in [Tasks -> TaskRec]
  BY DEF Goes, disk_
<1> QED
  BY <1>1 DEF Typed, Contents

\* The icon on the host is a path after any step of a command.
LEMMA HostTyped ==
  ASSUME Typed, Work, NEW t \in Tasks, Step(t)
  PROVE  host' \in Paths
<1>1. CASE SetHostIcon(t)
  <2>1. At(t, "host") /\ host' = Op(t).icon
    BY <1>1 DEF SetHostIcon
  <2>2. Op(t) \in Ops /\ Op(t).kind \in {"entry", "shortcut"}
    BY <2>1, BusyMeans DEF At, Belongs
  <2> QED
    BY <2>1, <2>2, OpsKinds DEF Paths
<1>2. CASE ~SetHostIcon(t)
  <2>1. host' = host
    BY <1>2 DEF Step, ReadList, SetList, SetIcon, SetName, SetKey, Scan, Resolve, Fill, RenameTmp, ReadHostIcon, Install,
                Unlink, Enable, Disable, Reload, Export, Revoke, Clean, Unexport, NoServer, host_
  <2> QED
    BY <2>1 DEF Typed
<1> QED
  BY <1>1, <1>2

\* A handler opens a temporary file, and what it writes fits.
LEMMA OpenTyped ==
  ASSUME Typed, Work', NEW t \in Tasks, ~Works(t), NEW s \in Stores, NEW new, NEW key \in {"all", "icon", "name"},
         OpenTmp(t, s, new, key), UNCHANGED <<file, legacy, text, conn, want, host>>,
         task' \in [Tasks -> TaskRec], alone' \in [Tasks -> BOOLEAN]
  PROVE  Typed'
<1>1. /\ \A u \in Tasks : u # t => handler'[u] = handler[u]
      /\ handler' = [u \in Tasks |-> handler'[u]] /\ Works(t)'
      /\ tmp' = [r \in Stores |-> tmp'[r]] /\ tmp'[s] = Torn /\ \A r \in Stores : r # s => tmp'[r] = tmp[r]
  BY OpenMeans
<1>2. handler'[t] = [pc |-> "opened", store |-> s, new |-> new, key |-> key, at |-> "tmp"]
  BY OpenRecord
<1>3. (handler[t].new \in Contents(handler[t].store))'
  BY <1>1 DEF Work, Serves
<1>4. new \in AnyContents
  <2>1. handler'[t].store = s /\ handler'[t].new = new
    BY OpenFields
  <2>2. new \in Contents(s)
    BY <1>1, <1>3, <2>1 DEF Contents
  <2> QED
    BY <2>2, ContentsMeans DEF AnyContents, Stores
<1>5. handler'[t] \in HandlerRec
  BY <1>2, <1>4, HandlerMade
<1>6. handler' \in [Tasks -> HandlerRec \cup {NoHandler}]
  <2>1. \A u \in Tasks : handler'[u] \in HandlerRec \cup {NoHandler}
    BY <1>1, <1>5 DEF Typed
  <2> QED
    BY <1>1, <2>1
<1>7. \A r \in Stores : tmp'[r] \in Contents(r) \cup {NoFile, Torn}
  BY <1>1 DEF Typed
<1> QED
  BY <1>1, <1>6, <1>7 DEF Typed, Contents

LEMMA OpensTyped ==
  ASSUME Typed, Work', NEW t \in Tasks, OpenPt(t) \/ OpenCj(t) \/ OpenReg(t)
  PROVE  Typed'
<1>1. PICK s \in Stores : \E new : \E key \in {"all", "icon", "name"} : OpenTmp(t, s, new, key)
  BY DEF OpenPt, OpenCj, OpenReg, Stores
<1>2. PICK new : \E key \in {"all", "icon", "name"} : OpenTmp(t, s, new, key)
  BY <1>1
<1>3. PICK key \in {"all", "icon", "name"} : OpenTmp(t, s, new, key)
  BY <1>2
<1>4. UNCHANGED <<file, legacy, text, task, conn, want, alone, host>> /\ ~Works(t)
  BY DEF OpenPt, OpenCj, OpenReg, Opens, Unmoved, host_
<1>5. task' \in [Tasks -> TaskRec] /\ alone' \in [Tasks -> BOOLEAN]
  BY <1>4 DEF Typed
<1> QED
  BY <1>3, <1>4, <1>5, OpenTyped

LEMMA FillTyped ==
  ASSUME Typed, Work, NEW t \in Tasks, Fill(t)
  PROVE  Typed'
<1>1. /\ Works(t) /\ handler[t] \in HandlerRec
      /\ handler' = [handler EXCEPT ![t] = [handler[t] EXCEPT !.pc = "filled"]] /\ handler'[t] \in HandlerRec
      /\ \A u \in Tasks \ {t} : handler'[u] = handler[u]
  BY FillMeans
<1>2. UNCHANGED <<legacy, text, task, conn, want, alone, host>>
  BY FillMeans DEF hist_, host_
<1>3. PICK text_ : FillOf(t, text_)
  BY FillMeans
<1>4. handler[t].new \in Contents(handler[t].store) /\ handler[t].store \in Stores
  BY <1>1, SlotTyped DEF Work, Serves
<1>5. text_ \in Contents(handler[t].store) \cup {Torn}
  BY <1>3, <1>4 DEF FillOf
<1>6. \A s \in Stores : file'[s] \in Contents(s) \cup {NoFile, Torn} /\ tmp'[s] \in Contents(s) \cup {NoFile, Torn}
  <2> SUFFICES ASSUME NEW s \in Stores
               PROVE  file'[s] \in Contents(s) \cup {NoFile, Torn} /\ tmp'[s] \in Contents(s) \cup {NoFile, Torn}
    OBVIOUS
  <2>1. file[s] \in Contents(s) \cup {NoFile, Torn} /\ tmp[s] \in Contents(s) \cup {NoFile, Torn}
    BY DEF Typed
  <2>2. CASE s # handler[t].store
    BY <2>1, <2>2, FillMeans
  <2>3. CASE s = handler[t].store
    <3>1. handler[t].at \in {"tmp", "file", "gone"}
      BY <1>1, HandlerExcept
    <3> QED
      BY <1>3, <1>5, <2>1, <2>3, <3>1 DEF FillOf
  <2> QED
    BY <2>2, <2>3
<1>7. file' = [s \in Stores |-> file'[s]] /\ tmp' = [s \in Stores |-> tmp'[s]]
  BY FillMeans
<1>8. handler' \in [Tasks -> HandlerRec \cup {NoHandler}]
  BY <1>1 DEF Typed
<1> QED
  BY <1>2, <1>6, <1>7, <1>8 DEF Typed, Contents

\* What a rename makes of the stores as they would be had each command been one step.
LEMMA MergedTyped ==
  ASSUME Typed, Work, NEW t \in Tasks, Works(t)
  PROVE  /\ Merged(t) = [s \in {"pt", "cj"} |-> Merged(t)[s]]
         /\ \A s \in {"pt", "cj"} : Merged(t)[s] \in Contents(s)
         /\ handler[t].store # "pt" => Merged(t)["pt"] = want["pt"]
         /\ handler[t].store # "cj" => Merged(t)["cj"] = want["cj"]
         /\ handler[t].store = "cj" => /\ handler[t].key \in {"icon", "name"}
                                       /\ Merged(t)["cj"] =
                                             [want["cj"] EXCEPT ![handler[t].key] = handler[t].new[handler[t].key]]
         /\ handler[t].store = "pt" =>
              Merged(t)["pt"] = IF ~alone[t] THEN handler[t].new
                                ELSE IF Allowed(Op(t), want["pt"]) THEN Changed(Op(t), want["pt"]) ELSE want["pt"]
<1>1. /\ want = [s \in {"pt", "cj"} |-> want[s]] /\ want["pt"] \in PtFiles /\ want["cj"] \in CjFiles
  BY ContentsMeans DEF Typed
<1>2. handler[t].store \in Stores /\ handler[t].new \in Contents(handler[t].store) /\ Op(t) \in Ops
  BY SlotTyped DEF Work, Serves
<1>3. CASE handler[t].store = "reg"
  <2>1. Merged(t) = want
    BY <1>3 DEF Merged
  <2> QED
    BY <1>1, <1>3, <2>1, ContentsMeans
<1>4. CASE handler[t].store = "cj"
  <2> DEFINE key == handler[t].key
             new == handler[t].new
             c == [want["cj"] EXCEPT ![key] = new[key]]
  <2>1. key \in {"icon", "name"} /\ new \in CjFiles
    BY <1>2, <1>4, ContentsMeans DEF Work, Serves, ServesCj
  <2>2. Merged(t) = [want EXCEPT !["cj"] = c]
    BY <1>1, <1>4 DEF Merged
  <2>3. c \in CjFiles
    <3>1. new[key] \in IF key = "icon" THEN Paths ELSE Icons \cup {None}
      BY <2>1, KeySet
    <3> HIDE DEF key, new
    <3> QED
      BY <1>1, <2>1, <3>1, KeyTyped
  <2>4. c = [want["cj"] EXCEPT ![handler[t].key] = handler[t].new[handler[t].key]] /\ handler[t].key \in {"icon", "name"}
    BY <2>1
  <2> HIDE DEF c, key, new
  <2>5. Merged(t)["cj"] = c /\ Merged(t)["pt"] = want["pt"] /\ Merged(t) = [s \in {"pt", "cj"} |-> Merged(t)[s]]
    BY <1>1, <2>2
  <2> QED
    BY <1>1, <1>4, <2>3, <2>4, <2>5, ContentsMeans
<1>5. CASE handler[t].store = "pt"
  <2> DEFINE c == IF ~alone[t] THEN handler[t].new
                  ELSE IF Allowed(Op(t), want["pt"]) THEN Changed(Op(t), want["pt"]) ELSE want["pt"]
  <2>1. Merged(t) = [want EXCEPT !["pt"] = c]
    BY <1>1, <1>5 DEF Merged
  <2>2. Op(t) \in PtOps /\ handler[t].new \in PtFiles
    BY <1>2, <1>5, AspectOf, ContentsMeans DEF Work, Serves, ServesPt
  <2>3. c \in PtFiles
    BY <1>1, <2>2, ChangedTyped
  <2>4. c = IF ~alone[t] THEN handler[t].new
            ELSE IF Allowed(Op(t), want["pt"]) THEN Changed(Op(t), want["pt"]) ELSE want["pt"]
    OBVIOUS
  <2> HIDE DEF c
  <2>5. Merged(t)["pt"] = c /\ Merged(t)["cj"] = want["cj"] /\ Merged(t) = [s \in {"pt", "cj"} |-> Merged(t)[s]]
    BY <1>1, <2>1
  <2> QED
    BY <1>1, <1>5, <2>3, <2>4, <2>5, ContentsMeans
<1> QED
  BY <1>2, <1>3, <1>4, <1>5 DEF Stores

LEMMA RenameTyped ==
  ASSUME Typed, Work, NEW t \in Tasks, RenameTmp(t)
  PROVE  Typed'
<1> DEFINE s == handler[t].store
<1>1. Works(t) /\ s \in Stores /\ ~Works(t)' /\ handler' = [u \in Tasks |-> handler'[u]]
  BY RenameMeans
<1>2. \A u \in Tasks \ {t} : /\ Works(u)' <=> Works(u)
                             /\ Works(u) => handler'[u] \in HandlerRec
  BY RenameMeans
<1>3. UNCHANGED <<legacy, text, conn, alone, host>>
  BY RenameMeans DEF RenameTmp, host_
<1>4. \A u \in Tasks : handler'[u] \in HandlerRec \cup {NoHandler}
  BY <1>1, <1>2 DEF Works
<1>5. handler' \in [Tasks -> HandlerRec \cup {NoHandler}]
  BY <1>1, <1>4
<1>6. task' \in [Tasks -> TaskRec]
  BY RenameTasks
<1>7. /\ file' = [r \in Stores |-> file'[r]] /\ tmp' = [r \in Stores |-> tmp'[r]]
      /\ \A r \in Stores \ {s} : file'[r] = file[r] /\ tmp'[r] = tmp[r]
      /\ Moves(t) \/ Misses(t)
  BY RenameMeans
<1>8. (file'[s] = file[s] /\ tmp'[s] = tmp[s]) \/ (file'[s] = tmp[s] /\ tmp'[s] = NoFile)
  BY <1>7 DEF Moves, Misses
<1>9. \A r \in Stores : file'[r] \in Contents(r) \cup {NoFile, Torn} /\ tmp'[r] \in Contents(r) \cup {NoFile, Torn}
  <2>1. \A r \in Stores : file[r] \in Contents(r) \cup {NoFile, Torn} /\ tmp[r] \in Contents(r) \cup {NoFile, Torn}
    BY DEF Typed
  <2> HIDE DEF s
  <2> QED
    BY <1>7, <1>8, <2>1
<1>10. want' = [r \in {"pt", "cj"} |-> want'[r]] /\ \A r \in {"pt", "cj"} : want'[r] \in Contents(r)
  <2>1. CASE Moves(t)
    <3>1. want' = Merged(t)
      BY <2>1 DEF Moves
    <3> QED
      BY <1>1, <3>1, MergedTyped
  <2>2. CASE Misses(t)
    BY <2>2 DEF Misses, Typed
  <2> QED
    BY <1>7, <2>1, <2>2
<1> QED
  BY <1>3, <1>5, <1>6, <1>7, <1>9, <1>10 DEF Typed, Contents

\* No file is rewritten that holds nothing.
LEMMA RewriteMeans ==
  ASSUME Typed, Seen("pt") # NewIcons(Seen("pt"))
  PROVE  file["pt"] \in PtFiles /\ Seen("pt") = file["pt"]
<1>1. file["pt"] \notin {NoFile, Torn}
  BY PtDefault, SeenMeans DEF Stores
<1> QED
  BY <1>1, SeenMeans, ContentsMeans DEF Stores, Typed

LEMMA StartTyped ==
  ASSUME Typed, StartServer \/ RewriteBegin \/ RewriteEnd
  PROVE  Typed'
<1>1. CASE StartServer
  <2>1. /\ file' = [s \in Stores |-> IF s # "reg" /\ (legacy[s] # NoFile /\ file[s] = NoFile) THEN legacy[s] ELSE file[s]]
        /\ legacy' = [s \in {"pt", "cj"} |-> IF legacy[s] # NoFile /\ file[s] = NoFile THEN NoFile ELSE legacy[s]]
        /\ UNCHANGED <<tmp, text, handler, task, conn, host, want, alone>>
    BY <1>1 DEF StartServer, host_, hist_
  <2>2. file' = [s \in Stores |-> file'[s]] /\ legacy' = [s \in {"pt", "cj"} |-> legacy'[s]]
    BY <2>1
  <2>3. \A s \in Stores : file[s] \in Contents(s) \cup {NoFile, Torn}
    BY DEF Typed
  <2>4. \A s \in {"pt", "cj"} : legacy[s] \in Contents(s) \cup {NoFile}
    BY DEF Typed
  <2>5. \A s \in Stores : file'[s] \in Contents(s) \cup {NoFile, Torn}
    BY <2>1, <2>3, <2>4 DEF Stores
  <2>6. \A s \in {"pt", "cj"} : legacy'[s] \in Contents(s) \cup {NoFile}
    BY <2>1, <2>4
  <2> QED
    BY <2>1, <2>2, <2>5, <2>6 DEF Typed, Contents
<1>2. CASE RewriteBegin
  <2>1. UNCHANGED <<tmp, legacy, handler, task, conn, host, want, alone>>
    BY <1>2 DEF RewriteBegin, host_, hist_
  <2>2. CASE Seen("pt") # NewIcons(Seen("pt"))
    <3>1. text' = NewIcons(file["pt"]) /\ file' = [file EXCEPT !["pt"] = Torn]
      BY <1>2, <2>2 DEF RewriteBegin
    <3>2. text' \in PtFiles
      BY <2>2, <3>1, RewriteMeans, NewIconsTyped
    <3>3. file' = [s \in Stores |-> file'[s]] /\ \A s \in Stores : file'[s] \in Contents(s) \cup {NoFile, Torn}
      BY <3>1 DEF Typed, Stores
    <3> QED
      BY <2>1, <3>2, <3>3 DEF Typed, Contents
  <2>3. CASE Seen("pt") = NewIcons(Seen("pt"))
    <3>1. UNCHANGED <<file, text>>
      BY <1>2, <2>3 DEF RewriteBegin
    <3> QED
      BY <2>1, <3>1 DEF Typed, Contents
  <2> QED
    BY <2>2, <2>3
<1>3. CASE RewriteEnd
  <2>1. /\ UNCHANGED <<tmp, legacy, handler, task, conn, host, alone>>
        /\ text' = NoFile /\ file' = [file EXCEPT !["pt"] = text] /\ want' = [want EXCEPT !["pt"] = NewIcons(want["pt"])]
    BY <1>3 DEF RewriteEnd, host_, Typed
  <2>2. text \in Contents("pt") \cup {NoFile} /\ want["pt"] \in PtFiles
    BY ContentsMeans DEF Typed
  <2>3. NewIcons(want["pt"]) \in Contents("pt")
    BY <2>2, NewIconsTyped, ContentsMeans
  <2>4. file' = [s \in Stores |-> file'[s]] /\ \A s \in Stores : file'[s] \in Contents(s) \cup {NoFile, Torn}
    BY <2>1, <2>2 DEF Typed, Stores
  <2>5. want' = [s \in {"pt", "cj"} |-> want'[s]] /\ \A s \in {"pt", "cj"} : want'[s] \in Contents(s)
    <3> DEFINE w == NewIcons(want["pt"])
    <3>1. want' = [want EXCEPT !["pt"] = w] /\ w \in Contents("pt")
      BY <2>1, <2>3
    <3> HIDE DEF w
    <3> QED
      BY <3>1 DEF Typed
  <2> QED
    BY <2>1, <2>4, <2>5 DEF Typed, Contents
<1> QED
  BY <1>1, <1>2, <1>3

LEMMA OtherTyped ==
  ASSUME Typed, \/ \E t \in Tasks, op \in Ops : Begin(t, op)
                \/ ServerDies \/ WindowCloses \/ PackagesChange \/ ManagerEdits \/ UNCHANGED vars
  PROVE  Typed'
<1>1. UNCHANGED <<file, tmp, legacy, want>>
  BY DEF Begin, ServerDies, WindowCloses, PackagesChange, ManagerEdits, vars, disk_, hist_
<1>2. text' = text \/ text' = NoFile
  BY DEF Begin, ServerDies, WindowCloses, PackagesChange, ManagerEdits, vars, disk_, hist_
<1>3. handler' = handler \/ handler' = [t \in Tasks |-> NoHandler]
  BY DEF Begin, ServerDies, WindowCloses, PackagesChange, ManagerEdits, vars
<1>4. conn' = conn \/ conn' = conn + 1
  BY DEF Begin, ServerDies, WindowCloses, PackagesChange, ManagerEdits, vars
<1>5. host' \in Paths
  <2>1. CASE ManagerEdits
    BY <2>1 DEF ManagerEdits, Paths
  <2>2. CASE ~ManagerEdits
    <3>1. host' = host
      BY <2>2 DEF Begin, ServerDies, WindowCloses, PackagesChange, vars, host_
    <3> QED
      BY <3>1 DEF Typed
  <2> QED
    BY <2>1, <2>2
<1>6. alone' \in [Tasks -> BOOLEAN]
  <2>1. CASE ManagerEdits
    BY <2>1 DEF ManagerEdits
  <2>2. ASSUME NEW t \in Tasks, NEW op \in Ops, Begin(t, op) PROVE alone' \in [Tasks -> BOOLEAN]
    <3> DEFINE same == {u \in Tasks \ {t} : Taken(u) /\ Aspect(Op(u)) = Aspect(op)}
    <3>1. alone' = [u \in Tasks |-> IF u = t THEN same = {} ELSE alone[u] /\ u \notin same]
      BY <2>2 DEF Begin, Same
    <3> HIDE DEF same
    <3>2. \A u \in Tasks : (IF u = t THEN same = {} ELSE alone[u] /\ u \notin same) \in BOOLEAN
      BY DEF Typed
    <3> QED
      BY <3>1, <3>2
  <2>3. CASE ServerDies \/ WindowCloses \/ PackagesChange \/ UNCHANGED vars
    BY <2>3 DEF ServerDies, WindowCloses, PackagesChange, vars, hist_, Typed
  <2> QED
    BY <2>1, <2>2, <2>3
<1>7. task' \in [Tasks -> TaskRec]
  <2>1. CASE ServerDies \/ WindowCloses
    <3>1. \E T \in SUBSET Tasks : Abandon(T)
      BY <2>1 DEF ServerDies, WindowCloses
    <3> QED
      BY <3>1, AbandonTyped
  <2>2. CASE PackagesChange \/ ManagerEdits \/ UNCHANGED vars
    BY <2>2 DEF PackagesChange, ManagerEdits, vars, Typed
  <2> QED
    BY <2>1, <2>2, BeginMeans
<1>8. handler' \in [Tasks -> HandlerRec \cup {NoHandler}] /\ conn' \in Nat /\ text' \in PtFiles \cup {NoFile}
  BY <1>2, <1>3, <1>4 DEF Typed
<1> QED
  BY <1>1, <1>5, <1>6, <1>7, <1>8 DEF Typed, Contents

LEMMA TypedKept ==
  ASSUME Typed, Work, installed \subseteq Scanned, [Usual]_vars
  PROVE  Typed'
<1>1. Work'
  BY WorkKept
<1>2. ASSUME NEW t \in Tasks, Step(t) PROVE Typed'
  BY <1>1, <1>2, StepShapes, HostTyped, GoesTyped, OpensTyped, FillTyped, RenameTyped
<1> QED
  BY <1>2, StartTyped, OtherTyped DEF Usual

-----------------------------------------------------------------------------
(* Lists: what the window lists and what the registry holds *)

ListedSeen == Seen("reg") = {} \/ listed \subseteq Seen("reg")
ListedNew(t) == Works(t) /\ handler[t].store = "reg" /\ alone[t] => listed \subseteq handler[t].new

LEMMA ListsMeans ==
  Lists <=> /\ listed \subseteq installed /\ installed \subseteq Scanned
            /\ "reg" \notin stale => ListedSeen
            /\ \A t \in Tasks : ListedNew(t)
BY DEF Lists, ListedSeen, ListedNew

\* The registry's handler runs alone if the registry is in order.
LEMMA RegAlone ==
  ASSUME Typed, Work, Company, Writes, NEW t \in Tasks, Works(t), handler[t].store = "reg"
  PROVE  /\ Aspect(Op(t)) = "reg" /\ Taken(t)
         /\ "reg" \notin stale => alone[t]
         /\ alone[t] => /\ handler[t].at = "tmp" /\ (handler[t].pc = "filled" => tmp["reg"] = handler[t].new)
                        /\ \A u \in Tasks \ {t} : Works(u) => handler[u].store # "reg"
<1>1. Aspect(Op(t)) = "reg" /\ Taken(t)
  BY DEF Work, Serves, ServesReg, Taken, Works
<1>2. "reg" \notin stale => alone[t]
  BY <1>1 DEF Company
<1>3. alone[t] => Sole(t)
  BY DEF Writes
<1>4. Sole(t) => /\ handler[t].at = "tmp" /\ (handler[t].pc = "filled" => tmp["reg"] = handler[t].new)
                 /\ \A u \in Tasks \ {t} : Works(u) => handler[u].store # "reg"
  BY DEF Sole, Writers, Works
<1> QED
  BY <1>1, <1>2, <1>3, <1>4

LEMMA SeenFrame == ASSUME NEW s, file'[s] = file[s] PROVE Seen(s)' = Seen(s)
BY DEF Seen, Default

LEMMA GoesLists ==
  ASSUME Lists, NEW t \in Tasks, Goes(t)
  PROVE  Lists'
<1>1. UNCHANGED <<file, handler, listed, installed, alone>> /\ ("reg" \in stale => "reg" \in stale')
  BY DEF Goes, disk_, apps_
<1>2. Seen("reg")' = Seen("reg")
  BY <1>1, SeenFrame
<1> QED
  BY <1>1, <1>2 DEF Lists, Works

LEMMA OpensLists ==
  ASSUME Typed, Lists, NEW t \in Tasks, OpenPt(t) \/ OpenCj(t) \/ OpenReg(t)
  PROVE  Lists'
<1>1. UNCHANGED <<file, listed, installed, alone, stale>> /\ ~Works(t)
  BY DEF OpenPt, OpenCj, OpenReg, Opens, Unmoved, apps_
<1>2. Seen("reg")' = Seen("reg")
  BY <1>1, SeenFrame
<1>3. \A u \in Tasks \ {t} : handler'[u] = handler[u]
  <2>1. \E s \in Stores : \E new, key : OpenTmp(t, s, new, key)
    BY DEF OpenPt, OpenCj, OpenReg, Stores
  <2> QED
    BY <1>1, <2>1, OpenMeans
<1>4. \A u \in Tasks \ {t} : ListedNew(u)'
  BY <1>1, <1>3, ListsMeans DEF ListedNew, Works
<1>5. handler'[t].store = "reg" => handler'[t].new = installed
  <2>1. CASE OpenPt(t)
    <3>1. OpenTmp(t, "pt", task[t].saves, "all")
      BY <2>1 DEF OpenPt
    <3>2. handler'[t].store = "pt"
      BY <1>1, <3>1, OpenFields DEF Stores
    <3> QED
      BY <3>2
  <2>2. CASE OpenCj(t)
    <3>1. PICK key, v : OpenTmp(t, "cj", [Seen("cj") EXCEPT ![key] = v], key)
      BY <2>2 DEF OpenCj
    <3> DEFINE new == [Seen("cj") EXCEPT ![key] = v]
    <3>2. OpenTmp(t, "cj", new, key) /\ "cj" \in Stores
      BY <3>1 DEF Stores
    <3> HIDE DEF new
    <3>3. handler'[t].store = "cj"
      BY <1>1, <3>2, OpenFields
    <3> QED
      BY <3>3
  <2>3. CASE OpenReg(t)
    <3>1. OpenTmp(t, "reg", installed, "all")
      BY <2>3 DEF OpenReg
    <3>2. handler'[t].new = installed
      BY <1>1, <3>1, OpenFields DEF Stores
    <3> QED
      BY <3>2
  <2> QED
    BY <2>1, <2>2, <2>3
<1>6. ListedNew(t)'
  BY <1>1, <1>5 DEF ListedNew, Lists
<1>7. Lists <=> /\ listed \subseteq installed /\ installed \subseteq Scanned
                /\ "reg" \notin stale => ListedSeen
                /\ \A u \in Tasks : ListedNew(u)
  BY ListsMeans
<1>8. ListedSeen' <=> ListedSeen
  BY <1>1, <1>2 DEF ListedSeen
<1>9. \A u \in Tasks : ListedNew(u)'
  BY <1>4, <1>6
<1> QED
  BY <1>1, <1>7, <1>8, <1>9 DEF Lists, ListedSeen, ListedNew

LEMMA FillLists ==
  ASSUME Typed, Work, Company, Writes, Lists, NEW t \in Tasks, Fill(t)
  PROVE  Lists'
<1>1. UNCHANGED <<listed, installed, alone, stale>> /\ Works(t)
  BY FillMeans DEF apps_, hist_
<1>2. \A u \in Tasks : /\ Works(u)' <=> Works(u)
                       /\ handler'[u].store = handler[u].store /\ handler'[u].new = handler[u].new
  BY FillMeans
<1>3. "reg" \notin stale => file'["reg"] = file["reg"]
  <2> SUFFICES ASSUME "reg" \notin stale PROVE file'["reg"] = file["reg"]
    OBVIOUS
  <2>1. CASE handler[t].store # "reg"
    BY <2>1, FillMeans DEF Stores
  <2>2. CASE handler[t].store = "reg"
    <3>1. handler[t].at = "tmp"
      BY <1>1, <2>2, RegAlone
    <3>2. PICK text_ : FillOf(t, text_)
      BY FillMeans
    <3> QED
      BY <3>1, <3>2 DEF FillOf
  <2> QED
    BY <2>1, <2>2
<1>4. "reg" \notin stale => Seen("reg")' = Seen("reg")
  BY <1>3, SeenFrame
<1> QED
  BY <1>1, <1>2, <1>4 DEF Lists

LEMMA RenameLists ==
  ASSUME Typed, Work, Company, Writes, Lists, NEW t \in Tasks, RenameTmp(t)
  PROVE  Lists'
<1>1. /\ Works(t) /\ ~Works(t)' /\ handler[t].pc = "filled" /\ handler[t].store \in Stores
      /\ UNCHANGED <<installed, alone>> /\ listed' = Shown(t)
  BY RenameMeans
<1>2. \A u \in Tasks \ {t} : /\ Works(u)' <=> Works(u)
                             /\ Works(u) => /\ handler'[u].store = handler[u].store /\ handler'[u].new = handler[u].new
  BY RenameMeans
<1>3. \A a \in stale \ stale' : a = Aspect(Op(t)) /\ alone[t]
  BY RenameTasks
<1>4. listed' \subseteq installed'
  BY <1>1 DEF Shown, Lists
<1>5. CASE handler[t].store # "reg"
  <2>1. Aspect(Op(t)) # "reg" /\ Op(t) \in Ops
    BY <1>1, <1>5 DEF Work, Serves, ServesPt, ServesCj, Stores
  <2>2. listed' = listed
    BY <1>1, <2>1, AspectOf DEF Shown
  <2>3. file'["reg"] = file["reg"]
    BY <1>1, <1>5, RenameMeans DEF Stores
  <2>4. Seen("reg")' = Seen("reg")
    BY <2>3, SeenFrame
  <2>5. "reg" \in stale => "reg" \in stale'
    BY <1>3, <2>1
  <2>6. \A u \in Tasks : ListedNew(u)'
    BY <1>1, <1>2, <2>2 DEF ListedNew, Lists
  <2> QED
    BY <1>1, <1>4, <2>2, <2>4, <2>5, <2>6 DEF Lists, ListedNew
<1>6. CASE handler[t].store = "reg" /\ ~alone[t]
  <2>1. "reg" \in stale'
    BY <1>1, <1>3, <1>6, RegAlone
  <2>2. \A u \in Tasks : ListedNew(u)'
    <3> SUFFICES ASSUME NEW u \in Tasks, Works(u)', handler'[u].store = "reg", alone'[u] PROVE FALSE
      BY DEF ListedNew
    <3>1. u # t
      BY <1>1
    <3>2. Works(u) /\ handler[u].store = "reg" /\ alone[u]
      BY <1>1, <1>2, <3>1
    <3> QED
      BY <1>1, <1>6, <3>1, <3>2, RegAlone
  <2> QED
    BY <1>1, <1>4, <2>1, <2>2 DEF Lists, ListedNew
<1>7. CASE handler[t].store = "reg" /\ alone[t]
  <2>1. /\ tmp["reg"] = handler[t].new
        /\ \A u \in Tasks \ {t} : Works(u) => handler[u].store # "reg"
    BY <1>1, <1>7, RegAlone
  <2>2. handler[t].new \in SUBSET Scanned /\ listed \subseteq handler[t].new
    BY <1>1, <1>7, ContentsMeans DEF Work, Serves, Lists
  <2>3. tmp["reg"] # NoFile /\ tmp["reg"] # Torn
    BY <2>1, <2>2, Absent
  <2>4. file'["reg"] = handler[t].new
    BY <1>7, <2>1, <2>3, RenameMeans DEF Moves, Misses
  <2>5. Seen("reg")' = handler[t].new
    BY <2>1, <2>3, <2>4 DEF Seen
  <2>6. listed' \subseteq handler[t].new
    BY <1>1, <2>2 DEF Shown
  <2>7. \A u \in Tasks : ListedNew(u)'
    BY <1>1, <1>2, <2>1 DEF ListedNew
  <2> QED
    BY <1>1, <1>4, <2>5, <2>6, <2>7 DEF Lists, ListedNew
<1> QED
  BY <1>5, <1>6, <1>7

LEMMA OtherLists ==
  ASSUME Typed, Work, Lists,
         \/ StartServer \/ RewriteBegin \/ RewriteEnd \/ ServerDies \/ WindowCloses \/ PackagesChange \/ ManagerEdits
         \/ UNCHANGED vars \/ \E t \in Tasks, op \in Ops : Begin(t, op)
  PROVE  Lists'
<1>1. file'["reg"] = file["reg"]
  <2>1. CASE StartServer \/ RewriteBegin \/ RewriteEnd
    BY <2>1 DEF StartServer, RewriteBegin, RewriteEnd, Typed, Stores
  <2>2. CASE \/ ServerDies \/ WindowCloses \/ PackagesChange \/ ManagerEdits
             \/ UNCHANGED vars \/ \E t \in Tasks, op \in Ops : Begin(t, op)
    BY <2>2 DEF ServerDies, WindowCloses, PackagesChange, ManagerEdits, vars, disk_, Begin
  <2> QED
    BY <2>1, <2>2
<1>2. Seen("reg")' = Seen("reg")
  BY <1>1, SeenFrame
<1>3. stale \subseteq stale'
  <2>1. CASE ServerDies \/ WindowCloses
    <3>1. \E T \in SUBSET Tasks : Abandon(T)
      BY <2>1 DEF ServerDies, WindowCloses
    <3> QED
      BY <3>1, AbandonMeans
  <2>2. CASE \/ StartServer \/ RewriteBegin \/ RewriteEnd \/ PackagesChange \/ ManagerEdits
             \/ UNCHANGED vars \/ \E t \in Tasks, op \in Ops : Begin(t, op)
    BY <2>2 DEF StartServer, RewriteBegin, RewriteEnd, PackagesChange, ManagerEdits, vars, hist_, Begin
  <2> QED
    BY <2>1, <2>2
<1>4. \A t \in Tasks : /\ Works(t)' => Works(t) /\ handler'[t] = handler[t]
                       /\ Works(t) /\ alone'[t] => alone[t]
  <2>1. CASE ServerDies
    BY <2>1 DEF ServerDies, Works
  <2>2. ASSUME NEW t \in Tasks, NEW op \in Ops, Begin(t, op)
        PROVE  \A u \in Tasks : /\ Works(u)' => Works(u) /\ handler'[u] = handler[u]
                                /\ Works(u) /\ alone'[u] => alone[u]
    <3>1. handler' = handler /\ ~Works(t) /\ \A u \in Tasks : u # t => (alone'[u] => alone[u])
      BY <2>2 DEF Begin, Works, Taken
    <3> QED
      BY <3>1 DEF Works
  <2>3. CASE \/ StartServer \/ RewriteBegin \/ RewriteEnd \/ WindowCloses \/ PackagesChange \/ ManagerEdits \/ UNCHANGED vars
    BY <2>3 DEF StartServer, RewriteBegin, RewriteEnd, WindowCloses, PackagesChange, ManagerEdits, vars, hist_, Works
  <2> QED
    BY <2>1, <2>2, <2>3
<1>5. listed' \subseteq listed /\ listed' \subseteq installed' /\ installed' \subseteq Scanned
  BY DEF StartServer, RewriteBegin, RewriteEnd, WindowCloses, PackagesChange, ManagerEdits, vars, apps_,
         ServerDies, Begin, Lists
<1> QED
  BY <1>2, <1>3, <1>4, <1>5 DEF Lists

LEMMA ListsKept ==
  ASSUME Typed, Work, Company, Writes, Lists, [Usual]_vars
  PROVE  Lists'
<1>1. ASSUME NEW t \in Tasks, Step(t) PROVE Lists'
  BY <1>1, StepShapes, GoesLists, OpensLists, FillLists, RenameLists
<1> QED
  BY <1>1, OtherLists DEF Usual

-----------------------------------------------------------------------------
(* Writes: who shares a temporary file with whom *)

Apart(t) == handler[t].store \notin mixed \/ (handler[t].store = "reg" /\ alone[t])
WritesOf(t) == Works(t) /\ Apart(t) => Sole(t)

LEMMA WritesMeans == Writes <=> \A t \in Tasks : WritesOf(t)
BY DEF Writes, WritesOf, Apart

LEMMA SoleMeans ==
  \A t : Sole(t) <=> /\ handler[t].at = "tmp" /\ Writers(handler[t].store) = {t}
                     /\ handler[t].pc = "filled" => tmp[handler[t].store] = handler[t].new
BY DEF Sole

\* A handler that a step does not touch, nor the others in its store.
LEMMA SoleFrame ==
  ASSUME NEW t, handler'[t] = handler[t], NEW s, s = handler[t].store, tmp'[s] = tmp[s], Writers(s)' = Writers(s), Sole(t)
  PROVE  Sole(t)'
<1>1. handler'[t].store = s
  OBVIOUS
<1>2. {u \in Tasks : handler'[u] # NoHandler /\ handler'[u].store = s} = {t}
  BY DEF Writers, Sole
<1> QED
  BY <1>1, <1>2 DEF Sole, Writers

LEMMA StillWrites ==
  ASSUME Writes, handler' = handler, tmp' = tmp, mixed \subseteq mixed',
         \A t \in Tasks : Works(t) /\ alone'[t] => alone[t]
  PROVE  Writes'
<1> SUFFICES ASSUME NEW t \in Tasks, Works(t)', Apart(t)' PROVE Sole(t)'
  BY WritesMeans DEF Writes, Apart
<1>1. Works(t) /\ Apart(t)
  BY DEF Works, Apart
<1>2. Sole(t)
  BY <1>1 DEF Writes, Apart
<1> QED
  BY <1>2 DEF Sole, Writers

\* A handler opens a temporary file; those that scan at once are not alone.
LEMMA OpenWrites ==
  ASSUME Typed, Writes, NEW t \in Tasks, ~Works(t), NEW s \in Stores, NEW new, NEW key, OpenTmp(t, s, new, key),
         \A u \in Tasks \ {t} : alone'[u] => alone[u],
         s = "reg" => \A u \in Writers(s) : ~alone'[t] /\ ~alone'[u]
  PROVE  Writes'
<1>1. /\ Works(t)' /\ \A u \in Tasks : u # t => handler'[u] = handler[u]
  BY OpenMeans
<1>2. /\ Writers(s)' = Writers(s) \cup {t} /\ mixed' = IF Writers(s) = {} THEN mixed ELSE mixed \cup {s}
      /\ \A r \in Stores : r # s => Writers(r)' = Writers(r) /\ tmp'[r] = tmp[r]
  BY OpenMeans
<1>3. handler'[t].store = s /\ handler'[t].pc = "opened" /\ handler'[t].at = "tmp"
  BY OpenFields
<1> SUFFICES ASSUME NEW u \in Tasks, Works(u)', handler'[u].store \notin mixed' \/ (handler'[u].store = "reg" /\ alone'[u])
             PROVE Sole(u)'
  BY DEF Writes
<1>4. CASE u = t
  <2>1. Writers(s) = {}
    BY <1>2, <1>3, <1>4
  <2>2. {v \in Tasks : handler'[v] # NoHandler /\ handler'[v].store = s} = {t}
    BY <1>2, <2>1 DEF Writers
  <2> QED
    BY <1>3, <1>4, <2>2 DEF Sole, Writers
<1>5. CASE u # t
  <2>0. handler'[u] = handler[u] /\ Works(u) /\ handler[u].store \in Stores
    BY <1>1, <1>5, SlotTyped DEF Works
  <2> PICK r \in Stores : r = handler[u].store
    BY <2>0
  <2>1. handler'[u] = handler[u] /\ Works(u) /\ r \in Stores /\ r = handler[u].store
    BY <2>0
  <2>2. r # s
    <3> SUFFICES ASSUME r = s PROVE FALSE
      OBVIOUS
    <3>1. u \in Writers(s)
      BY <2>1 DEF Writers, Works
    <3>2. s \in mixed'
      BY <1>2, <3>1
    <3> QED
      BY <2>1, <3>1, <3>2
  <2>3. r \notin mixed \/ (r = "reg" /\ alone[u])
    BY <1>2, <1>5, <2>1
  <2>4. Sole(u)
    BY <2>1, <2>3 DEF Writes
  <2>5. tmp'[r] = tmp[r] /\ Writers(r)' = Writers(r)
    BY <1>2, <2>1, <2>2
  <2> QED
    BY <2>1, <2>4, <2>5, SoleFrame
<1> QED
  BY <1>4, <1>5

LEMMA OpensWrites ==
  ASSUME Typed, Work, Work', Company, Writes, NEW t \in Tasks, Opens(t), NEW s \in Stores, NEW new, NEW key,
         OpenTmp(t, s, new, key)
  PROVE  Writes'
<1>1. /\ Busy(t) /\ ~Works(t) /\ task' = task /\ alone' = alone
  BY DEF Opens, Unmoved
<1>2. Works(t)' /\ handler'[t].store = s
  BY <1>1, OpenMeans, OpenFields
<1>3. s = "reg" => Aspect(Op(t)) = "reg"
  <2>1. handler'[t].store = "reg" => Aspect(Op(t))' = "reg"
    BY <1>2 DEF Work, Serves, ServesReg
  <2>2. Op(t)' = Op(t)
    BY <1>1 DEF Op
  <2> QED
    BY <1>2, <2>1, <2>2
<1>4. s = "reg" => \A u \in Writers(s) : ~alone[t] /\ ~alone[u]
  <2> SUFFICES ASSUME s = "reg", NEW u \in Writers(s) PROVE ~alone[t] /\ ~alone[u]
    OBVIOUS
  <2>1. u \in Tasks /\ Works(u) /\ handler[u].store = "reg"
    BY DEF Writers, Works
  <2>2. Aspect(Op(u)) = "reg" /\ Taken(u) /\ Taken(t) /\ u # t
    BY <1>1, <2>1 DEF Work, Serves, ServesReg, Taken, Works
  <2> QED
    BY <1>3, <2>1, <2>2 DEF Company
<1> QED
  BY <1>1, <1>4, OpenWrites

LEMMA FillWrites ==
  ASSUME Typed, Writes, NEW t \in Tasks, Fill(t)
  PROVE  Writes'
<1>1. Works(t) /\ handler[t].store \in Stores /\ mixed' = mixed /\ alone' = alone
  BY FillMeans, SlotTyped DEF hist_
<1>2. /\ handler'[t].store = handler[t].store /\ handler'[t].new = handler[t].new /\ handler'[t].at = handler[t].at
      /\ \A u \in Tasks \ {t} : handler'[u] = handler[u]
      /\ \A u \in Tasks : Works(u)' <=> Works(u)
  BY FillMeans
<1>3. /\ \A s \in Stores : Writers(s)' = Writers(s)
      /\ \A s \in Stores \ {handler[t].store} : tmp'[s] = tmp[s]
  BY FillMeans
<1>4. PICK text_ : FillOf(t, text_)
  BY FillMeans
<1> SUFFICES ASSUME NEW u \in Tasks, Works(u)', handler'[u].store \notin mixed' \/ (handler'[u].store = "reg" /\ alone'[u])
             PROVE Sole(u)'
  BY DEF Writes
<1>5. Works(u) /\ handler[u].store \in Stores /\ handler'[u].store = handler[u].store
  BY <1>2, SlotTyped
<1>6. Sole(u)
  BY <1>1, <1>2, <1>5 DEF Writes
<1>7. CASE u = t
  <2> DEFINE s == handler[t].store
  <2>1. handler[t].at = "tmp" /\ Writers(s) = {t}
    BY <1>6, <1>7 DEF Sole
  <2>2. text_ = handler[t].new
    BY <1>4, <2>1 DEF FillOf
  <2>3. tmp'[s] = handler[t].new
    BY <1>4, <2>1, <2>2 DEF FillOf
  <2>5. {v \in Tasks : handler'[v] # NoHandler /\ handler'[v].store = handler'[t].store} = {t}
    <3>1. {v \in Tasks : handler'[v] # NoHandler /\ handler'[v].store = handler[t].store} = Writers(handler[t].store)
      <4>1. \A v \in Tasks : handler'[v] # NoHandler <=> handler[v] # NoHandler
        BY <1>2 DEF Works
      <4>2. \A v \in Tasks : handler'[v].store = handler[v].store
        BY <1>2
      <4> QED
        BY <4>1, <4>2 DEF Writers
    <3> QED
      BY <1>2, <2>1, <3>1
  <2> QED
    BY <1>2, <1>7, <2>1, <2>3, <2>5 DEF Sole, Writers
<1>8. CASE u # t
  <2>1. handler[u].store # handler[t].store
    BY <1>1, <1>6, <1>8 DEF Sole, Writers, Works
  <2>2. handler'[u] = handler[u]
    BY <1>2, <1>8
  <2> PICK r \in Stores : r = handler[u].store
    BY <1>5
  <2>3. tmp'[r] = tmp[r] /\ r \in Stores /\ r = handler[u].store /\ r # handler[t].store
    BY <1>3, <1>5, <2>1
  <2>4. Writers(r)' = Writers(r)
    BY <1>3, <2>3
  <2> QED
    BY <1>6, <2>2, <2>3, <2>4, SoleFrame
<1> QED
  BY <1>7, <1>8

LEMMA RenameWrites ==
  ASSUME Typed, Writes, NEW t \in Tasks, RenameTmp(t)
  PROVE  Writes'
<1>1. Works(t) /\ handler[t].store \in Stores /\ mixed' = mixed /\ alone' = alone /\ ~Works(t)'
  BY RenameMeans
<1>2. \A u \in Tasks \ {t} : /\ Works(u)' <=> Works(u)
                             /\ u \notin Writers(handler[t].store) => handler'[u] = handler[u]
                             /\ Works(u) => handler'[u].store = handler[u].store
  BY RenameMeans
<1>3. \A s \in Stores \ {handler[t].store} : Writers(s)' = Writers(s) /\ tmp'[s] = tmp[s]
  BY RenameMeans
<1> SUFFICES ASSUME NEW u \in Tasks, Works(u)', handler'[u].store \notin mixed' \/ (handler'[u].store = "reg" /\ alone'[u])
             PROVE Sole(u)'
  BY DEF Writes
<1>4. u # t /\ Works(u) /\ handler'[u].store = handler[u].store
  BY <1>1, <1>2
<1>5. Sole(u) /\ handler[u].store \in Stores
  BY <1>1, <1>4, SlotTyped DEF Writes
<1>6. handler[u].store # handler[t].store
  BY <1>1, <1>4, <1>5 DEF Sole, Writers, Works
<1>7. u \notin Writers(handler[t].store)
  BY <1>6 DEF Writers
<1>8. handler'[u] = handler[u]
  BY <1>2, <1>4, <1>7
<1> PICK r \in Stores : r = handler[u].store
  BY <1>5
<1>9. tmp'[r] = tmp[r] /\ r \in Stores /\ r = handler[u].store /\ r # handler[t].store
  BY <1>3, <1>5, <1>6
<1>10. Writers(r)' = Writers(r)
  BY <1>3, <1>9
<1> QED
  BY <1>5, <1>8, <1>9, <1>10, SoleFrame

LEMMA WritesKept ==
  ASSUME Typed, Work, installed \subseteq Scanned, Company, Writes, [Usual]_vars
  PROVE  Writes'
<1>0. Work'
  BY WorkKept
<1>1. ASSUME NEW t \in Tasks, Step(t) PROVE Writes'
  <2>1. CASE Goes(t)
    <3>1. handler' = handler /\ tmp' = tmp /\ mixed' = mixed /\ alone' = alone
      BY <2>1 DEF Goes, disk_
    <3> QED
      BY <3>1, StillWrites
  <2>2. CASE OpenPt(t) \/ OpenCj(t) \/ OpenReg(t)
    <3>1. Opens(t) /\ \E s \in Stores : \E new, key : OpenTmp(t, s, new, key)
      BY <2>2 DEF OpenPt, OpenCj, OpenReg, Stores
    <3> QED
      BY <1>0, <3>1, OpensWrites
  <2> QED
    BY <1>1, <2>1, <2>2, StepShapes, FillWrites, RenameWrites
<1>2. CASE ServerDies
  <2>1. \A t \in Tasks : ~Works(t)'
    BY <1>2 DEF ServerDies, Works
  <2> QED
    BY <2>1 DEF Writes
<1>3. ASSUME NEW t \in Tasks, NEW op \in Ops, Begin(t, op) PROVE Writes'
  <2>1. handler' = handler /\ tmp' = tmp /\ mixed' = mixed /\ ~Works(t)
    BY <1>3 DEF Begin, disk_, Works, Taken
  <2>2. \A u \in Tasks : u # t => (alone'[u] => alone[u])
    BY <1>3 DEF Begin
  <2> QED
    BY <2>1, <2>2, StillWrites
<1>4. CASE StartServer \/ RewriteBegin \/ RewriteEnd \/ WindowCloses \/ PackagesChange \/ ManagerEdits \/ UNCHANGED vars
  <2>1. handler' = handler /\ tmp' = tmp /\ mixed' = mixed /\ \A t \in Tasks : alone'[t] => alone[t]
    BY <1>4 DEF StartServer, RewriteBegin, RewriteEnd, WindowCloses, PackagesChange, ManagerEdits, vars, disk_, hist_
  <2> QED
    BY <2>1, StillWrites
<1> QED
  BY <1>1, <1>2, <1>3, <1>4 DEF Usual

-----------------------------------------------------------------------------
(* Boots: the unit and its enablement *)

BootOf(t) ==
  Busy(t) /\ Op(t).kind = "boot" /\ alone[t] =>
    IF Op(t).mode = "off" THEN ~At(t, "disable") => ~enabled ELSE ~At(t, "install") => unit # None

LEMMA BootsMeans == Boots <=> NoDeadUnit /\ \A t \in Tasks : BootOf(t)
BY DEF Boots, BootOf

LEMMA BootFrame ==
  ASSUME NEW t, BootOf(t), unit' = unit, enabled' = enabled,
         Busy(t)' => task'[t].todo = task[t].todo /\ task'[t].op = task[t].op /\ task'[t].saves = task[t].saves
                     /\ (alone'[t] => alone[t])
  PROVE  BootOf(t)'
BY DEF BootOf, Busy, Op, At

\* No step but those of the mode's commands touches the unit.
LEMMA BootsFrame ==
  ASSUME Boots, unit' = unit, enabled' = enabled, "boot" \in stale => "boot" \in stale',
         \A t \in Tasks : Busy(t)' => \/ task'[t].todo = task[t].todo /\ task'[t].op = task[t].op /\ task'[t].saves = task[t].saves
                                         /\ (alone'[t] => alone[t])
                                      \/ Op(t)'.kind # "boot" \/ ~alone'[t]
  PROVE  Boots'
<1>1. NoDeadUnit'
  BY DEF Boots, NoDeadUnit
<1>2. \A t \in Tasks : BootOf(t)'
  <2> SUFFICES ASSUME NEW t \in Tasks PROVE BootOf(t)'
    OBVIOUS
  <2>1. BootOf(t)
    BY BootsMeans
  <2> QED
    BY <2>1, BootFrame DEF BootOf
<1> QED
  BY <1>1, <1>2 DEF Boots, BootOf

\* A step of the mode's command.
LEMMA ModeSteps ==
  ASSUME Typed, Work, NEW t \in Tasks, Step(t), Busy(t), Op(t).kind = "boot"
  PROVE  Install(t) \/ Unlink(t) \/ Enable(t) \/ Disable(t) \/ Reload(t)
<1>1. Head(task[t].todo) \in {"disable", "unlink", "reload", "install", "enable"}
  BY BusyMeans DEF Belongs
<1>2. ~Works(t)
  BY <1>1, WorksAt
<1> QED
  BY <1>1, <1>2 DEF Step, ReadList, SetList, SetIcon, SetName, SetKey, Scan, Resolve, Fill, RenameTmp, SetHostIcon,
                    ReadHostIcon, Export, Revoke, Clean, NoServer, At, Works

\* A step of another command.
LEMMA OtherMode ==
  ASSUME Typed, Work, Boots, NEW t \in Tasks, Step(t), Busy(t) => Op(t).kind # "boot"
  PROVE  Boots'
<1>1. ~Install(t) /\ ~Unlink(t) /\ ~Enable(t) /\ ~Disable(t)
  BY BusyMeans DEF Install, Unlink, Enable, Disable, At, Belongs
<1>2. unit' = unit /\ enabled' = enabled
  BY <1>1 DEF Step, ReadList, SetList, SetIcon, SetName, SetKey, Scan, Resolve, Fill, RenameTmp, SetHostIcon,
              ReadHostIcon, Reload, Export, Revoke, Clean, Unexport, NoServer, host_
<1>3. Calm
  BY StepShapes, GoesCalm, OpensCalm, FillCalm, RenameCalm
<1>4. \A u \in Tasks \ {t} : task'[u] = task[u]
  <2>1. CASE Goes(t)
    BY <2>1 DEF Goes
  <2>2. CASE OpenPt(t) \/ OpenCj(t) \/ OpenReg(t)
    BY <2>2 DEF OpenPt, OpenCj, OpenReg, Opens, Unmoved
  <2>3. CASE Fill(t)
    BY <2>3, FillMeans
  <2>4. CASE RenameTmp(t)
    BY <2>4, RenameTasks
  <2> QED
    BY <2>1, <2>2, <2>3, <2>4, StepShapes
<1>5. "boot" \in stale => "boot" \in stale'
  <2>1. CASE Goes(t)
    <3>1. Op(t) \in Ops /\ Op(t).kind # "boot"
      BY <2>1, BusyMeans DEF Goes
    <3> QED
      BY <2>1, <3>1, AspectOf DEF Goes, Orders
  <2>2. CASE OpenPt(t) \/ OpenCj(t) \/ OpenReg(t)
    BY <2>2 DEF OpenPt, OpenCj, OpenReg, Opens, Unmoved
  <2>3. CASE Fill(t)
    BY <2>3, FillMeans DEF hist_
  <2>4. CASE RenameTmp(t)
    <3>1. \A a \in stale \ stale' : a = Aspect(Op(t)) /\ Busy(t)
      BY <2>4, RenameTasks
    <3>2. Busy(t) => Op(t) \in Ops /\ Op(t).kind # "boot"
      BY BusyMeans
    <3> QED
      BY <3>1, <3>2, AspectOf
  <2> QED
    BY <2>1, <2>2, <2>3, <2>4, StepShapes
<1>6. Busy(t)' => Op(t)'.kind # "boot"
  BY <1>3 DEF Calm
<1>7. alone' = alone
  BY <1>3 DEF Calm
<1> QED
  BY <1>2, <1>4, <1>5, <1>6, <1>7, BootsFrame

LEMMA ModeBoots ==
  ASSUME Typed, Work, Company, Boots, NEW t \in Tasks, Busy(t), Op(t).kind = "boot",
         Install(t) \/ Unlink(t) \/ Enable(t) \/ Disable(t) \/ Reload(t)
  PROVE  Boots'
<1>1. /\ Op(t) \in Ops /\ Belongs(Op(t), task[t].todo) /\ Follows(Op(t), task[t].todo)
      /\ Op(t).mode \in {"off", "silent", "gui"}
      /\ Aspect(Op(t)) = "boot" /\ Taken(t)
  BY BusyMeans, OpsKinds, AspectOf DEF Taken
<1>2. alone' = alone /\ (Advance(t) \/ Abandon({t}))
  BY DEF Install, Unlink, Enable, Disable, Reload, hostOnly_
<1>3. /\ \A u \in Tasks \ {t} : task'[u] = task[u]
      /\ task'[t].op = task[t].op
  BY <1>2, AdvanceTyped, AbandonMeans
<1>4. "boot" \notin stale => alone[t]
  BY <1>1 DEF Company
<1>5. \A u \in Tasks \ {t} : BootOf(u)'
  <2> SUFFICES ASSUME NEW u \in Tasks \ {t}, Busy(u)', Op(u)'.kind = "boot", alone'[u] PROVE FALSE
    BY DEF BootOf
  <2>1. Busy(u) /\ Op(u).kind = "boot" /\ alone[u]
    BY <1>2, <1>3 DEF Busy, Op
  <2>2. Taken(u) /\ Aspect(Op(u)) = "boot"
    BY <2>1, BusyMeans, AspectOf DEF Taken
  <2> QED
    BY <1>1, <2>1, <2>2 DEF Company
<1>6. BootOf(t) /\ NoDeadUnit
  BY BootsMeans
<1>7. Advance(t) => (\A a \in stale \ stale' : alone[t] /\ Len(task[t].todo) = 1) /\ task'[t].todo = Tail(task[t].todo)
  BY AdvanceTyped DEF Advance
<1>8. ~Advance(t) => stale \subseteq stale' /\ task'[t].todo = <<>>
  <2> SUFFICES ASSUME ~Advance(t) PROVE stale \subseteq stale' /\ task'[t].todo = <<>>
    OBVIOUS
  <2>1. {t} \in SUBSET Tasks /\ Abandon({t}) /\ t \in {t}
    BY <1>2
  <2> QED
    BY <2>1, AbandonMeans
<1>9. Op(t)' = Op(t)
  BY <1>3 DEF Op
<1>10. CASE Install(t)
  <2>1. At(t, "install") /\ unit' = Op(t).mode /\ enabled' = enabled /\ Op(t).mode # "off"
    BY <1>1, <1>10 DEF Install, At, Belongs
  <2>2. unit' # None
    BY <1>1, <2>1, Absent
  <2> QED
    BY <1>5, <1>9, <2>1, <2>2 DEF Boots, BootOf, NoDeadUnit
<1>11. CASE Unlink(t)
  <2>1. At(t, "unlink") /\ unit' = None /\ enabled' = enabled /\ Op(t).mode = "off" /\ ~At(t, "disable") /\ Advance(t)
    BY <1>1, <1>11 DEF Unlink, At, Belongs
  <2>2. alone[t] => ~enabled
    BY <1>6, <2>1 DEF BootOf
  <2>3. "boot" \in stale => "boot" \in stale'
    BY <1>1, <1>7, <2>1 DEF Follows, At
  <2> QED
    BY <1>2, <1>4, <1>5, <1>9, <2>1, <2>2, <2>3 DEF Boots, BootOf, NoDeadUnit
<1>12. CASE Enable(t)
  <2>1. At(t, "enable") /\ unit' = unit /\ Op(t).mode # "off" /\ ~At(t, "install")
    BY <1>1, <1>12 DEF Enable, At, Belongs
  <2>2. (unit # None /\ enabled' = TRUE /\ Advance(t)) \/ (enabled' = enabled /\ Abandon({t}))
    BY <1>12 DEF Enable
  <2>3. NoDeadUnit'
    <3>1. CASE unit # None
      BY <2>1, <3>1 DEF NoDeadUnit
    <3>2. CASE enabled' = enabled /\ Abandon({t})
      BY <1>6, <2>1, <3>2, AbandonMeans DEF NoDeadUnit
    <3> QED
      BY <2>2, <3>1, <3>2
  <2>4. BootOf(t)'
    BY <1>2, <1>6, <1>9, <2>1 DEF BootOf
  <2> QED
    BY <1>5, <2>3, <2>4 DEF Boots, BootOf
<1>13. CASE Disable(t)
  <2>1. At(t, "disable") /\ unit' = unit /\ Op(t).mode = "off"
    BY <1>1, <1>13 DEF Disable, At, Belongs
  <2>2. (enabled' = FALSE /\ Advance(t)) \/ (enabled' = enabled /\ Abandon({t}))
    BY <1>13 DEF Disable
  <2>3. CASE enabled' = FALSE
    BY <1>5, <1>9, <2>1, <2>3 DEF Boots, BootOf, NoDeadUnit
  <2>4. CASE enabled' = enabled /\ Abandon({t})
    <3>1. ~Busy(t)' /\ stale \subseteq stale'
      BY <2>4, AbandonMeans DEF Busy
    <3> QED
      BY <1>5, <1>6, <2>1, <2>4, <3>1 DEF Boots, BootOf, NoDeadUnit
  <2> QED
    BY <2>2, <2>3, <2>4
<1>14. CASE Reload(t)
  <2>1. At(t, "reload") /\ unit' = unit /\ enabled' = enabled /\ ~At(t, "install") /\ ~At(t, "disable")
    BY <1>14 DEF Reload, At, host_
  <2>2. alone[t] => IF Op(t).mode = "off" THEN ~enabled ELSE unit # None
    BY <1>6, <2>1 DEF BootOf
  <2>3. BootOf(t)'
    BY <1>2, <1>9, <2>1, <2>2 DEF BootOf
  <2>4. NoDeadUnit'
    BY <1>2, <1>6, <1>7, <1>8, <2>1, <2>2 DEF NoDeadUnit
  <2> QED
    BY <1>5, <2>3, <2>4 DEF Boots, BootOf
<1> QED
  BY <1>10, <1>11, <1>12, <1>13, <1>14

LEMMA AbandonBoots ==
  ASSUME Typed, Boots, NEW T \in SUBSET Tasks, Abandon(T), unit' = unit, enabled' = enabled, alone' = alone
  PROVE  Boots'
<1>1. \A u \in Tasks : Busy(u)' => task'[u] = task[u]
  BY AbandonMeans DEF Busy
<1>2. stale \subseteq stale'
  BY AbandonMeans
<1> QED
  BY <1>1, <1>2, BootsFrame

LEMMA BootsKept ==
  ASSUME Typed, Work, Company, Boots, [Usual]_vars
  PROVE  Boots'
<1>1. ASSUME NEW t \in Tasks, Step(t) PROVE Boots'
  BY <1>1, OtherMode, ModeSteps, ModeBoots
<1>2. CASE ServerDies \/ WindowCloses
  <2>1. unit' = unit /\ enabled' = enabled /\ alone' = alone /\ \E T \in SUBSET Tasks : Abandon(T)
    BY <1>2 DEF ServerDies, WindowCloses, host_
  <2> QED
    BY <2>1, AbandonBoots
<1>3. ASSUME NEW t \in Tasks, NEW op \in Ops, Begin(t, op) PROVE Boots'
  <2>1. /\ \A u \in Tasks \ {t} : task'[u] = task[u]
        /\ task'[t].op = op /\ task'[t].todo = Steps(op) /\ stale \subseteq stale'
    BY <1>3, BeginMeans
  <2>2. unit' = unit /\ enabled' = enabled /\ \A u \in Tasks : u # t => (alone'[u] => alone[u])
    BY <1>3 DEF Begin, host_
  <2>3. \A u \in Tasks \ {t} : BootOf(u)'
    BY <2>1, <2>2, BootsMeans, BootFrame
  <2>4. BootOf(t)'
    BY <2>1, StepsMeans DEF BootOf, Op, Busy, At
  <2>5. NoDeadUnit'
    BY <2>1, <2>2 DEF NoDeadUnit, Boots
  <2> QED
    BY <2>3, <2>4, <2>5 DEF Boots, BootOf
<1>4. CASE StartServer \/ RewriteBegin \/ RewriteEnd \/ PackagesChange \/ ManagerEdits \/ UNCHANGED vars
  <2>1. /\ unit' = unit /\ enabled' = enabled /\ stale \subseteq stale' /\ task' = task
        /\ \A u \in Tasks : alone'[u] => alone[u]
    BY <1>4 DEF StartServer, RewriteBegin, RewriteEnd, PackagesChange, ManagerEdits, vars, host_, hist_
  <2> QED
    BY <2>1, BootsFrame
<1> QED
  BY <1>1, <1>2, <1>3, <1>4 DEF Usual

-----------------------------------------------------------------------------
(* Kept: what the files hold and what they should hold *)

LEMMA UpMeans ==
  ASSUME Kept, server # "down"
  PROVE  legacy["pt"] = NoFile /\ legacy["cj"] = NoFile
BY DEF Kept, Old

\* The parts of Kept that concern the disk, for a step that leaves a store as it is.
LEMMA DiskFrame ==
  ASSUME NEW s, legacy' = legacy, server' = server, file'[s] = file[s], want'[s] = want[s], Old(s), Held(s)
  PROVE  Old(s)' /\ Held(s)'
BY SeenFrame DEF Old, Held

LEMMA OldFrame ==
  ASSUME NEW s, legacy' = legacy, server' = server, file'[s] = file[s], want'[s] = want[s], Old(s)
  PROVE  Old(s)'
BY DEF Old

\* The parts that concern a command.
LEMMA ReadFrame ==
  ASSUME NEW t, legacy' = legacy, server' # "cut" \/ server' = server, Seen("pt")' = Seen("pt"), Read(t),
         Busy(t)' => task'[t].todo = task[t].todo /\ task'[t].op = task[t].op /\ task'[t].saves = task[t].saves
                     /\ (alone'[t] => alone[t])
  PROVE  Read(t)'
<1> SUFFICES ASSUME Pending(t)' PROVE Read(t)'
  BY DEF Read
<1>1. /\ task'[t].todo = task[t].todo /\ task'[t].op = task[t].op /\ task'[t].saves = task[t].saves
      /\ (alone'[t] => alone[t]) /\ Pending(t) /\ Op(t)' = Op(t)
  BY DEF Pending, At, Busy, Op
<1>2. Fresh(Seen("pt")) /\ Fresh(task[t].saves) /\ legacy["pt"] = NoFile /\ server # "cut"
  BY <1>1 DEF Read, Current
<1>3. alone'[t] => Allowed(Op(t), Seen("pt")) /\ task[t].saves = Changed(Op(t), Seen("pt"))
  BY <1>1 DEF Read, Current
<1>4. Fresh(Seen("pt"))' /\ Fresh(task[t].saves)'
  BY <1>1, <1>2 DEF Fresh
<1>5. alone'[t] => Allowed(Op(t), Seen("pt"))' /\ task'[t].saves = Changed(Op(t), Seen("pt"))'
  BY <1>1, <1>3 DEF Allowed, Changed, SetPinned, SetAutoStart, AddCustom, UpdateCustom, RemoveApp, SetCustomIcon, App,
                    With, Without, Restrict
<1> QED
  BY <1>1, <1>2, <1>4, <1>5 DEF Read, Current

LEMMA CurrentFrame ==
  ASSUME NEW t, NEW new, Seen("pt")' = Seen("pt"), task'[t].op = task[t].op, alone'[t] => alone[t], Current(t, new)
  PROVE  Current(t, new)'
<1>1. Op(t)' = Op(t)
  BY DEF Op
<1>2. Fresh(new) /\ (alone'[t] => Allowed(Op(t), Seen("pt")) /\ new = Changed(Op(t), Seen("pt")))
  BY DEF Current
<1>3. alone'[t] => Allowed(Op(t), Seen("pt"))' /\ new = Changed(Op(t), Seen("pt"))'
  BY <1>1, <1>2 DEF Allowed, Changed, SetPinned, SetAutoStart, AddCustom, UpdateCustom, RemoveApp, SetCustomIcon, App,
                    With, Without, Restrict
<1>4. Fresh(new)'
  BY <1>2 DEF Fresh
<1> QED
  BY <1>3, <1>4 DEF Current

LEMMA CurrentIs ==
  ASSUME NEW t, NEW x, handler[t].new = x
  PROVE  Current(t, handler[t].new) <=> Current(t, x)
OBVIOUS

LEMMA SentFrame ==
  ASSUME NEW t, Seen("pt")' = Seen("pt"), task'[t].op = task[t].op, Works(t) => (alone'[t] => alone[t]), Sent(t),
         Works(t)' => Works(t) /\ handler'[t].store = handler[t].store /\ handler'[t].new = handler[t].new
  PROVE  Sent(t)'
<1> SUFFICES ASSUME Works(t)', handler'[t].store = "pt" PROVE Current(t, handler[t].new)'
  BY DEF Sent
<1>1. PICK x : x = handler[t].new
  OBVIOUS
<1>2. handler'[t].new = x /\ Current(t, x) /\ (alone'[t] => alone[t])
  BY <1>1 DEF Sent
<1>3. Current(t, x)'
  BY <1>2, CurrentFrame
<1> QED
  BY <1>2, <1>3 DEF Current, Fresh

LEMMA MergesFrame ==
  ASSUME NEW t, Seen("cj")' = Seen("cj"), Merges(t),
         Works(t)' => /\ Works(t) /\ handler'[t].store = handler[t].store /\ handler'[t].new = handler[t].new
                      /\ handler'[t].key = handler[t].key
  PROVE  Merges(t)'
BY DEF Merges

\* A step that leaves the disk and the handlers as they are.
LEMMA StillKept ==
  ASSUME Kept, UNCHANGED <<file, legacy, text, server, want>>, mixed \subseteq mixed',
         \A t \in Tasks : /\ task'[t].op = task[t].op \/ ~Works(t)'
                          /\ Busy(t)' => \/ /\ task'[t].todo = task[t].todo /\ task'[t].op = task[t].op /\ task'[t].saves = task[t].saves
                                            /\ alone'[t] => alone[t]
                                         \/ ~Pending(t)'
                                         \/ ~alone'[t] /\ \E v \in Tasks : Pending(v) /\ task'[t].saves = task[v].saves
                          /\ Works(t) => (alone'[t] => alone[t])
                          /\ Works(t)' => handler'[t] = handler[t]
  PROVE  Kept'
<1>1. Seen("pt")' = Seen("pt") /\ Seen("cj")' = Seen("cj")
  BY SeenFrame
<1>2. \A s \in {"pt", "cj"} : Old(s)' /\ (s \notin mixed' => Held(s)')
  BY OldFrame, DiskFrame DEF Kept
<1>3. Renewed'
  BY DEF Kept, Renewed, NewIcons
<1>4. "pt" \notin mixed' => (server' = "up" => Fresh(Seen("pt")))
  BY DEF Kept
<1>5. (Fresh(Seen("pt")))' <=> Fresh(Seen("pt"))
  BY <1>1 DEF Fresh
<1>6. ASSUME NEW t \in Tasks, "pt" \notin mixed' PROVE Read(t)' /\ Sent(t)'
  <2>1. Read(t) /\ Sent(t)
    BY <1>6 DEF Kept
  <2>2. Read(t)'
    <3>1. CASE ~Pending(t)'
      BY <3>1 DEF Read
    <3>2. ASSUME NEW v \in Tasks, Pending(v), task'[t].saves = task[v].saves, ~alone'[t] PROVE Read(t)'
      <4>1. legacy["pt"] = NoFile /\ server # "cut" /\ Fresh(Seen("pt")) /\ Fresh(task[v].saves)
        BY <1>6, <3>2 DEF Kept, Read, Current
      <4>2. Fresh(Seen("pt"))' /\ Fresh(task'[t].saves)
        BY <1>1, <3>2, <4>1 DEF Fresh
      <4> QED
        BY <3>2, <4>1, <4>2 DEF Read, Current, Fresh
    <3>3. CASE /\ Busy(t)'
               /\ task'[t].todo = task[t].todo /\ task'[t].op = task[t].op /\ task'[t].saves = task[t].saves
               /\ alone'[t] => alone[t]
      BY <1>1, <2>1, <3>3, ReadFrame
    <3> QED
      BY <3>1, <3>2, <3>3 DEF Pending, At
  <2>3. Sent(t)'
    <3>1. CASE ~Works(t)'
      BY <3>1 DEF Sent
    <3>2. CASE Works(t)'
      <4>1. handler'[t] = handler[t] /\ task'[t].op = task[t].op /\ Works(t)
        BY <3>2 DEF Works
      <4> QED
        BY <1>1, <2>1, <4>1, SentFrame
    <3> QED
      BY <3>1, <3>2
  <2> QED
    BY <2>2, <2>3
<1>7. ASSUME NEW t \in Tasks, "cj" \notin mixed' PROVE Merges(t)'
  <2>1. Merges(t)
    BY <1>7 DEF Kept
  <2>2. Works(t)' => Works(t) /\ handler'[t] = handler[t]
    BY DEF Works
  <2> QED
    BY <1>1, <2>1, <2>2, MergesFrame
<1> QED
  BY <1>2, <1>3, <1>4, <1>5, <1>6, <1>7 DEF Kept

LEMMA GoesKept ==
  ASSUME Typed, Work, Kept, NEW t \in Tasks, Goes(t)
  PROVE  Kept'
<1>1. /\ UNCHANGED <<file, legacy, text, server, want, handler, mixed, alone>> /\ ~Works(t) /\ Busy(t)
      /\ \A u \in Tasks \ {t} : task'[u] = task[u]
      /\ task'[t].op = task[t].op
  BY DEF Goes, disk_
<1>2. CASE ~Pending(t)'
  BY <1>1, <1>2, StillKept DEF Works
<1>3. CASE Pending(t)' /\ "pt" \in mixed
  <2>1. Seen("pt")' = Seen("pt") /\ Seen("cj")' = Seen("cj")
    BY <1>1, SeenFrame
  <2>2. \A s \in {"pt", "cj"} : Old(s)' /\ (s \notin mixed' => Held(s)')
    BY <1>1, OldFrame, DiskFrame DEF Kept
  <2>3. Renewed'
    BY <1>1 DEF Kept, Renewed, NewIcons
  <2>4. "cj" \notin mixed' => \A u \in Tasks : Merges(u)'
    BY <1>1, <2>1, MergesFrame DEF Kept, Works
  <2> QED
    BY <1>1, <1>3, <2>2, <2>3, <2>4 DEF Kept
<1>4. CASE Pending(t)' /\ "pt" \notin mixed
  <2>1. At(t, "list") /\ Allowed(Op(t), Seen("pt")) /\ task'[t].saves = Changed(Op(t), Seen("pt")) /\ server = "up"
    BY <1>4 DEF Goes, Pending
  <2>2. legacy["pt"] = NoFile /\ Fresh(Seen("pt"))
    BY <1>4, <2>1, UpMeans DEF Kept
  <2>3. Op(t) \in PtOps /\ Seen("pt") \in PtFiles
    BY <1>1, <2>1, BusyMeans, AspectOf, SeenMeans, ContentsMeans DEF Belongs, At, Stores
  <2>4. PICK x : x = Changed(Op(t), Seen("pt"))
    OBVIOUS
  <2>5. Current(t, x)
    BY <2>1, <2>2, <2>3, <2>4, ChangedTyped DEF Current
  <2>6. Seen("pt")' = Seen("pt") /\ Seen("cj")' = Seen("cj")
    BY <1>1, SeenFrame
  <2>7. Current(t, x)'
    BY <1>1, <2>5, <2>6, CurrentFrame
  <2>8. Fresh(Seen("pt"))'
    BY <2>2, <2>6 DEF Fresh
  <2>9. task'[t].saves = x
    BY <2>1, <2>4
  <2>10. Read(t)'
    BY <1>1, <2>1, <2>2, <2>7, <2>8, <2>9 DEF Read, Current, Fresh
  <2>11. ASSUME NEW u \in Tasks PROVE Read(u)' /\ Sent(u)'
    <3>1. Read(u) /\ Sent(u)
      BY <1>4 DEF Kept
    <3>2. Sent(u)'
      BY <1>1, <2>6, <3>1, SentFrame DEF Works
    <3>3. CASE u = t
      BY <2>10, <3>2, <3>3
    <3>4. CASE u # t
      <4>1. Read(u)'
        BY <1>1, <2>6, <3>1, <3>4, ReadFrame
      <4> QED
        BY <3>2, <4>1
    <3> QED
      BY <3>3, <3>4
  <2>12. \A s \in {"pt", "cj"} : Old(s)' /\ (s \notin mixed' => Held(s)')
    BY <1>1, OldFrame, DiskFrame DEF Kept
  <2>13. Renewed'
    BY <1>1 DEF Kept, Renewed, NewIcons
  <2>14. "cj" \notin mixed' => \A u \in Tasks : Merges(u)'
    BY <1>1, <2>6, MergesFrame DEF Kept, Works
  <2> QED
    BY <2>8, <2>11, <2>12, <2>13, <2>14 DEF Kept
<1> QED
  BY <1>2, <1>3, <1>4

\* No file an older version left is read once the server has started, and none is in the way before.
LEMMA OldMeans ==
  ASSUME Kept, NEW s \in {"pt", "cj"}, legacy[s] # NoFile
  PROVE  server = "down" /\ file[s] = NoFile /\ want[s] = legacy[s]
BY DEF Kept, Old

LEMMA NoneWorks ==
  ASSUME Work, server # "up", NEW t \in Tasks
  PROVE  ~Works(t)
BY DEF Work, Serves

\* Starting moves what an older version left to where it is read.
LEMMA StartKept ==
  ASSUME Typed, Work, Kept, StartServer
  PROVE  Kept'
<1> DEFINE moves(s) == legacy[s] # NoFile /\ file[s] = NoFile
<1>1. /\ server = "down" /\ server' = "rewrite" /\ UNCHANGED <<text, handler, task, want, alone, mixed>>
      /\ file' = [s \in Stores |-> IF s # "reg" /\ moves(s) THEN legacy[s] ELSE file[s]]
      /\ legacy' = [s \in {"pt", "cj"} |-> IF moves(s) THEN NoFile ELSE legacy[s]]
  BY DEF StartServer, hist_
<1>2. \A s \in {"pt", "cj"} : /\ legacy'[s] = NoFile
                              /\ legacy[s] = NoFile => file'[s] = file[s]
                              /\ legacy[s] # NoFile => file'[s] = legacy[s] /\ want[s] = legacy[s]
  <2> SUFFICES ASSUME NEW s \in {"pt", "cj"}
               PROVE  /\ legacy'[s] = NoFile
                      /\ legacy[s] = NoFile => file'[s] = file[s]
                      /\ legacy[s] # NoFile => file'[s] = legacy[s] /\ want[s] = legacy[s]
    OBVIOUS
  <2>1. legacy[s] # NoFile => file[s] = NoFile /\ want[s] = legacy[s]
    BY OldMeans
  <2>2. s \in Stores /\ s # "reg"
    BY DEF Stores
  <2> QED
    BY <1>1, <2>1, <2>2
<1>3. \A s \in {"pt", "cj"} : Old(s)'
  BY <1>2 DEF Old
<1>4. ASSUME NEW s \in {"pt", "cj"} \ mixed' PROVE Held(s)'
  <2>1. CASE legacy[s] = NoFile
    <3>1. file[s] # Torn /\ Seen(s) = want[s]
      BY <1>1, <2>1 DEF Kept, Held
    <3>2. Seen(s)' = Seen(s) /\ file'[s] = file[s]
      BY <1>2, <2>1, SeenFrame
    <3> QED
      BY <1>1, <3>1, <3>2 DEF Held
  <2>2. CASE legacy[s] # NoFile
    <3>1. legacy[s] \in Contents(s) /\ file'[s] = legacy[s] /\ want'[s] = legacy[s]
      BY <1>1, <1>2, <2>2 DEF Typed
    <3>2. legacy[s] \notin {NoFile, Torn}
      BY <3>1, ContentsMeans DEF Stores
    <3> QED
      BY <3>1, <3>2 DEF Held, Seen
  <2> QED
    BY <2>1, <2>2
<1>5. \A t \in Tasks : ~Works(t)'
  BY <1>1, NoneWorks DEF Works
<1>6. ASSUME NEW t \in Tasks, "pt" \notin mixed' PROVE Read(t)'
  <2>1. Read(t)
    BY <1>1, <1>6 DEF Kept
  <2>2. CASE Pending(t)
    <3>1. legacy["pt"] = NoFile
      BY <2>1, <2>2 DEF Read
    <3>2. legacy' ["pt"] = legacy["pt"] /\ Seen("pt")' = Seen("pt")
      BY <1>2, <3>1, SeenFrame
    <3>3. legacy["pt"] = NoFile /\ Fresh(Seen("pt")) /\ Fresh(task[t].saves)
          /\ (alone[t] => Allowed(Op(t), Seen("pt")) /\ task[t].saves = Changed(Op(t), Seen("pt")))
      BY <2>1, <2>2 DEF Read, Current
    <3>4. PICK x : x = task[t].saves
      OBVIOUS
    <3>5. Current(t, x)
      BY <3>3, <3>4 DEF Current
    <3>6. Current(t, x)'
      BY <1>1, <3>2, <3>5, CurrentFrame
    <3>7. task'[t].saves = x
      BY <1>1, <3>4
    <3> QED
      BY <1>1, <3>2, <3>3, <3>6, <3>7 DEF Read, Current, Fresh
  <2>3. CASE ~Pending(t)
    BY <1>1, <2>3 DEF Read, Pending, At, Busy
  <2> QED
    BY <2>2, <2>3
<1>7. Renewed'
  BY <1>1 DEF Renewed
<1>8. \A t \in Tasks : Sent(t)' /\ Merges(t)'
  BY <1>5 DEF Sent, Merges
<1> QED
  BY <1>1, <1>3, <1>4, <1>6, <1>7, <1>8 DEF Kept

\* The rewriting of icon paths begins, or there is none to rewrite.
LEMMA RewriteBeginKept ==
  ASSUME Typed, Work, Kept, RewriteBegin
  PROVE  Kept'
<1>1. server = "rewrite" /\ UNCHANGED <<tmp, legacy, handler, task, want, alone, mixed>>
  BY DEF RewriteBegin, hist_
<1>2. legacy["pt"] = NoFile /\ legacy["cj"] = NoFile
  BY <1>1, UpMeans
<1>3. \A t \in Tasks : ~Works(t)'
  BY <1>1, NoneWorks DEF Works
<1>4. \A t \in Tasks : Sent(t)' /\ Merges(t)'
  BY <1>3 DEF Sent, Merges
<1>5. \A s \in {"pt", "cj"} : Old(s)'
  BY <1>1, <1>2 DEF Old
<1>6. Seen("pt") \in PtFiles
  BY SeenMeans, ContentsMeans DEF Stores
<1>7. CASE Seen("pt") # NewIcons(Seen("pt"))
  <2>1. /\ server' = "cut" /\ text' = NewIcons(file["pt"]) /\ file' = [file EXCEPT !["pt"] = Torn]
    BY <1>7 DEF RewriteBegin
  <2>2. file["pt"] \in PtFiles /\ Seen("pt") = file["pt"] /\ file'["cj"] = file["cj"]
    BY <1>7, <2>1, RewriteMeans DEF Typed, Stores
  <2>3. "pt" \notin mixed => Seen("pt") = want["pt"]
    BY <1>1, <1>2 DEF Kept, Held
  <2>4. text' \in PtFiles /\ ("pt" \notin mixed' => text' = NewIcons(want'["pt"]))
    BY <1>1, <2>1, <2>2, <2>3, NewIconsTyped
  <2>5. Renewed'
    BY <2>4 DEF Renewed, NewIcons
  <2>6. "cj" \notin mixed' => Held("cj")'
    <3> SUFFICES ASSUME "cj" \notin mixed PROVE Held("cj")'
      BY <1>1
    <3>1. Held("cj")
      BY DEF Kept
    <3>2. file["cj"] # Torn /\ Seen("cj") = want["cj"]
      BY <1>2, <3>1 DEF Held
    <3>3. Seen("cj")' = Seen("cj")
      BY <2>2, SeenFrame
    <3> QED
      BY <1>1, <2>2, <3>2, <3>3 DEF Held
  <2>7. Held("pt")'
    BY <2>1 DEF Held
  <2>8. ASSUME NEW t \in Tasks, "pt" \notin mixed' PROVE ~Pending(t)'
    <3>1. Pending(t) => Fresh(Seen("pt"))
      BY <1>1, <2>8 DEF Kept, Read
    <3>2. ~Pending(t)
      BY <1>6, <1>7, <3>1, NewIconsTyped
    <3> QED
      BY <1>1, <3>2 DEF Pending, At, Busy
  <2>9. "pt" \notin mixed' => \A t \in Tasks : Read(t)'
    BY <2>8 DEF Read
  <2> QED
    BY <1>4, <1>5, <2>1, <2>5, <2>6, <2>7, <2>9 DEF Kept
<1>8. CASE Seen("pt") = NewIcons(Seen("pt"))
  <2>1. server' = "up" /\ UNCHANGED <<file, text>>
    BY <1>8 DEF RewriteBegin
  <2>2. Seen("pt")' = Seen("pt") /\ Seen("cj")' = Seen("cj")
    BY <2>1, SeenFrame
  <2>3. Fresh(Seen("pt"))
    BY <1>6, <1>8, NewIconsTyped
  <2>4. Fresh(Seen("pt"))'
    BY <2>2, <2>3 DEF Fresh
  <2>5. ASSUME NEW s \in {"pt", "cj"} \ mixed PROVE Held(s)'
    <3>1. Held(s)
      BY <2>5 DEF Kept
    <3>2. file[s] # Torn /\ Seen(s) = want[s]
      BY <1>1, <1>2, <2>5, <3>1 DEF Held
    <3> QED
      BY <1>1, <2>1, <2>2, <2>5, <3>2 DEF Held
  <2>6. "pt" \notin mixed => \A t \in Tasks : Read(t)'
    <3> SUFFICES ASSUME "pt" \notin mixed, NEW t \in Tasks PROVE Read(t)'
      OBVIOUS
    <3>1. Read(t)
      BY DEF Kept
    <3> QED
      BY <1>1, <2>1, <2>2, <3>1, ReadFrame
  <2>7. Renewed'
    BY <2>1 DEF Renewed
  <2> QED
    BY <1>1, <1>4, <1>5, <2>4, <2>5, <2>6, <2>7 DEF Kept
<1> QED
  BY <1>7, <1>8

\* The rewriting ends: the file holds what it held with the new icon paths.
LEMMA RewriteEndKept ==
  ASSUME Typed, Work, Kept, RewriteEnd
  PROVE  Kept'
<1>1. /\ server = "cut" /\ server' = "up" /\ UNCHANGED <<tmp, legacy, handler, task, alone, mixed>>
      /\ file' = [file EXCEPT !["pt"] = text] /\ want' = [want EXCEPT !["pt"] = NewIcons(want["pt"])]
  BY DEF RewriteEnd
<1>2. legacy["pt"] = NoFile /\ legacy["cj"] = NoFile /\ text \in PtFiles
  BY <1>1, UpMeans DEF Kept, Renewed
<1>3. \A t \in Tasks : ~Works(t)'
  BY <1>1, NoneWorks DEF Works
<1>4. \A t \in Tasks : Sent(t)' /\ Merges(t)'
  BY <1>3 DEF Sent, Merges
<1>5. \A s \in {"pt", "cj"} : Old(s)'
  BY <1>1, <1>2 DEF Old
<1>6. want'["pt"] = NewIcons(want["pt"]) /\ want'["cj"] = want["cj"] /\ file'["pt"] = text /\ file'["cj"] = file["cj"]
      /\ want["pt"] \in PtFiles
  BY <1>1, ContentsMeans DEF Typed, Stores
<1>7. text \notin {NoFile, Torn}
  BY <1>2, ContentsMeans DEF Stores
<1>8. Seen("pt")' = text
  BY <1>6, <1>7 DEF Seen
<1>9. "pt" \notin mixed => text = want'["pt"] /\ Fresh(text)
  BY <1>1, <1>6, NewIconsTyped DEF Kept, Renewed
<1>10. "pt" \notin mixed => Held("pt")' /\ Fresh(Seen("pt"))'
  BY <1>6, <1>7, <1>8, <1>9 DEF Held, Fresh
<1>11. "cj" \notin mixed => Held("cj")'
  <2> SUFFICES ASSUME "cj" \notin mixed PROVE Held("cj")'
    OBVIOUS
  <2>1. Held("cj")
    BY DEF Kept
  <2>2. file["cj"] # Torn /\ Seen("cj") = want["cj"]
    BY <1>2, <2>1 DEF Held
  <2>3. Seen("cj")' = Seen("cj")
    BY <1>6, SeenFrame
  <2> QED
    BY <1>6, <2>2, <2>3 DEF Held
<1>12. ASSUME NEW t \in Tasks, "pt" \notin mixed PROVE Read(t)'
  <2>1. ~Pending(t)
    BY <1>1, <1>12 DEF Kept, Read
  <2> QED
    BY <1>1, <2>1 DEF Read, Pending, At, Busy
<1>13. Renewed'
  BY <1>1 DEF Renewed
<1> QED
  BY <1>1, <1>4, <1>5, <1>10, <1>11, <1>12, <1>13 DEF Kept

\* A handler that opens a temporary file: nothing a reader sees changes.
LEMMA OpenFrame ==
  ASSUME Typed, Kept, NEW t \in Tasks, ~Works(t), NEW s \in Stores, NEW new, NEW key, OpenTmp(t, s, new, key),
         UNCHANGED <<file, legacy, text, server, want>>,
         \A u \in Tasks : Busy(u)' => /\ task'[u].todo = task[u].todo /\ task'[u].op = task[u].op /\ task'[u].saves = task[u].saves
                                      /\ alone'[u] => alone[u],
         \A u \in Tasks \ {t} : task'[u].op = task[u].op /\ (alone'[u] => alone[u]),
         "pt" \notin mixed' => Sent(t)', "cj" \notin mixed' => Merges(t)'
  PROVE  Kept'
<1>2. mixed \subseteq mixed' /\ \A u \in Tasks \ {t} : handler'[u] = handler[u]
  BY OpenMeans
<1>3. Seen("pt")' = Seen("pt") /\ Seen("cj")' = Seen("cj")
  BY SeenFrame
<1>4. \A r \in {"pt", "cj"} : Old(r)' /\ (r \notin mixed' => Held(r)')
  BY <1>2, OldFrame, DiskFrame DEF Kept
<1>5. Renewed'
  BY <1>2 DEF Kept, Renewed, NewIcons
<1>6. "pt" \notin mixed' => (server' = "up" => Fresh(Seen("pt"))')
  <2>1. (Fresh(Seen("pt")))' <=> Fresh(Seen("pt"))
    BY <1>3 DEF Fresh
  <2> QED
    BY <1>2, <2>1 DEF Kept
<1>7. ASSUME NEW u \in Tasks, "pt" \notin mixed' PROVE Read(u)' /\ Sent(u)'
  <2>1. Read(u) /\ Sent(u)
    BY <1>2, <1>7 DEF Kept
  <2>0. Busy(u)' => /\ task'[u].todo = task[u].todo /\ task'[u].op = task[u].op /\ task'[u].saves = task[u].saves
                    /\ alone'[u] => alone[u]
    BY <1>7
  <2>2. Read(u)'
    BY <1>3, <2>0, <2>1, ReadFrame
  <2>3. u # t => Sent(u)'
    BY <1>2, <1>3, <2>1, SentFrame DEF Works
  <2> QED
    BY <1>7, <2>2, <2>3
<1>8. ASSUME NEW u \in Tasks, "cj" \notin mixed' PROVE Merges(u)'
  <2>1. Merges(u)
    BY <1>2, <1>8 DEF Kept
  <2>2. u # t => Merges(u)'
    BY <1>2, <1>3, <2>1, MergesFrame DEF Works
  <2> QED
    BY <1>8, <2>2
<1> QED
  BY <1>4, <1>5, <1>6, <1>7, <1>8 DEF Kept

LEMMA OpensFrame ==
  ASSUME Typed, Kept, NEW t \in Tasks, Opens(t), NEW s \in Stores, NEW new, NEW key, OpenTmp(t, s, new, key),
         "pt" \notin mixed' => Sent(t)', "cj" \notin mixed' => Merges(t)'
  PROVE  Kept'
<1>1. UNCHANGED <<file, legacy, text, server, task, want, alone>> /\ ~Works(t)
  BY DEF Opens, Unmoved
<1> QED
  BY <1>1, OpenFrame

\* A handler for passthrough.toml writes what its command computed, one for config.json what it merged.
LEMMA OpensKept ==
  ASSUME Typed, Work, Kept, NEW t \in Tasks, OpenPt(t) \/ OpenCj(t) \/ OpenReg(t)
  PROVE  Kept'
<1>1. UNCHANGED <<file, legacy, text, server, task, want, alone>> /\ ~Works(t) /\ Opens(t)
  BY DEF Opens, Unmoved, OpenPt, OpenCj, OpenReg
<1>2. Seen("pt")' = Seen("pt") /\ Seen("cj")' = Seen("cj")
  BY <1>1, SeenFrame
<1>3. CASE OpenPt(t)
  <2>1. At(t, "set") /\ OpenTmp(t, "pt", task[t].saves, "all") /\ "pt" \in Stores
    BY <1>3 DEF OpenPt, Stores
  <2>2. PICK x : x = task[t].saves
    OBVIOUS
  <2>3. OpenTmp(t, "pt", x, "all")
    BY <2>1, <2>2
  <2>4. handler'[t].store = "pt" /\ handler'[t].new = x
    BY <1>1, <2>1, <2>3, OpenFields
  <2>5. mixed \subseteq mixed'
    BY <1>1, <2>1, <2>3, OpenMeans
  <2>6. ASSUME "pt" \notin mixed' PROVE Sent(t)'
    <3>1. Read(t)
      BY <2>5, <2>6 DEF Kept
    <3>2. Current(t, x)
      BY <2>1, <2>2, <3>1 DEF Read, Pending, Current
    <3>3. Current(t, x)'
      BY <1>1, <1>2, <3>2, CurrentFrame
    <3> QED
      BY <2>4, <3>3 DEF Sent, Current, Fresh
  <2>7. Merges(t)'
    BY <2>4 DEF Merges
  <2> QED
    BY <1>1, <2>1, <2>3, <2>6, <2>7, OpensFrame
<1>4. CASE OpenCj(t)
  <2>1. PICK key \in {"icon", "name"} : \E v \in Paths :
          /\ key = "name" => v \in Icons \cup {None}
          /\ OpenTmp(t, "cj", [Seen("cj") EXCEPT ![key] = v], key)
    BY <1>4 DEF OpenCj
  <2>2. PICK v \in Paths : (key = "name" => v \in Icons \cup {None}) /\ OpenTmp(t, "cj", [Seen("cj") EXCEPT ![key] = v], key)
    BY <2>1
  <2>3. PICK x : x = [Seen("cj") EXCEPT ![key] = v]
    OBVIOUS
  <2>4. Seen("cj") \in CjFiles /\ "cj" \in Stores
    BY SeenMeans, ContentsMeans DEF Stores
  <2>5. x[key] = v
    BY <2>2, <2>3, <2>4, KeyTyped
  <2>6. OpenTmp(t, "cj", x, key)
    BY <2>2, <2>3
  <2>7. handler'[t].store = "cj" /\ handler'[t].new = x /\ handler'[t].key = key
    BY <1>1, <2>4, <2>6, OpenFields
  <2>8. Merges(t)'
    BY <1>2, <2>3, <2>5, <2>7 DEF Merges
  <2>9. Sent(t)'
    BY <2>7 DEF Sent
  <2> QED
    BY <1>1, <2>4, <2>6, <2>8, <2>9, OpensFrame
<1>5. CASE OpenReg(t)
  <2>1. OpenTmp(t, "reg", installed, "all") /\ "reg" \in Stores
    BY <1>5 DEF OpenReg, Stores
  <2>2. handler'[t].store = "reg"
    BY <1>1, <2>1, OpenFields
  <2>3. Sent(t)' /\ Merges(t)'
    BY <2>2 DEF Sent, Merges
  <2> QED
    BY <1>1, <2>1, <2>3, OpensFrame
<1> QED
  BY <1>3, <1>4, <1>5

\* A handler that fills its temporary file: one that shares it with nobody fills what nobody reads.
LEMMA FillKept ==
  ASSUME Typed, Work, Writes, Kept, NEW t \in Tasks, Fill(t)
  PROVE  Kept'
<1> DEFINE h == handler[t]
<1>1. /\ Works(t) /\ h.store \in Stores /\ handler' = [handler EXCEPT ![t] = [handler[t] EXCEPT !.pc = "filled"]]
      /\ \A u \in Tasks : /\ Works(u)' <=> Works(u)
                          /\ Works(u) => /\ handler'[u].store = handler[u].store /\ handler'[u].new = handler[u].new
                                         /\ handler'[u].key = handler[u].key
      /\ \A s \in Stores \ {h.store} : file'[s] = file[s]
      /\ UNCHANGED <<legacy, text, server, task, want, alone, mixed>>
  BY FillMeans, SlotTyped DEF hist_
<1>2. server = "up" /\ legacy["pt"] = NoFile /\ legacy["cj"] = NoFile
  BY <1>1, UpMeans DEF Work, Serves
<1>3. h.store \notin mixed => h.at = "tmp"
  BY <1>1 DEF Writes, Sole
<1>4. h.at = "tmp" => file' = file
  BY FillMeans DEF FillOf
<1>5. ASSUME NEW s \in {"pt", "cj"} \ mixed PROVE file'[s] = file[s]
  BY <1>1, <1>3, <1>4, <1>5 DEF Stores
<1>6. \A s \in {"pt", "cj"} : Old(s)'
  BY <1>1, <1>2 DEF Old
<1>7. ASSUME NEW s \in {"pt", "cj"} \ mixed PROVE Held(s)'
  <2>1. Held(s)
    BY <1>7 DEF Kept
  <2>2. Old(s)
    BY <1>7 DEF Kept
  <2> QED
    BY <1>1, <1>5, <1>7, <2>1, <2>2, DiskFrame
<1>8. Renewed'
  BY <1>1 DEF Kept, Renewed, NewIcons
<1>9. ASSUME "pt" \notin mixed PROVE (server' = "up" => Fresh(Seen("pt"))') /\ \A u \in Tasks : Read(u)' /\ Sent(u)'
  <2>1. Seen("pt")' = Seen("pt")
    BY <1>5, <1>9, SeenFrame
  <2>2. Fresh(Seen("pt")) /\ \A u \in Tasks : Read(u) /\ Sent(u)
    BY <1>2, <1>9 DEF Kept
  <2>3. \A u \in Tasks : Read(u)'
    BY <1>1, <2>1, <2>2, ReadFrame
  <2>4. \A u \in Tasks : Sent(u)'
    BY <1>1, <2>1, <2>2, SentFrame
  <2>5. Fresh(Seen("pt"))'
    BY <2>1, <2>2 DEF Fresh
  <2> QED
    BY <2>3, <2>4, <2>5
<1>10. ASSUME "cj" \notin mixed, NEW u \in Tasks PROVE Merges(u)'
  <2>1. Seen("cj")' = Seen("cj")
    BY <1>5, <1>10, SeenFrame
  <2>2. Merges(u)
    BY <1>10 DEF Kept
  <2> QED
    BY <1>1, <2>1, <2>2, MergesFrame
<1> QED
  BY <1>1, <1>6, <1>7, <1>8, <1>9, <1>10 DEF Kept

\* The command a rename answers does not go on to send a list, and the others go on as they were.
LEMMA RenameUnsent ==
  ASSUME Typed, Work, NEW t \in Tasks, RenameTmp(t)
  PROVE  ~Pending(t)'
<1>1. CASE ~Busy(t)
  BY <1>1, RenameTasks DEF Pending, At, Busy
<1>2. CASE Busy(t)
  <2>1. Works(t)
    BY RenameMeans
  <2>2. Head(task[t].todo) \in {"set", "cjicon", "cjname", "scan", "resolve"} /\ Follows(Op(t), task[t].todo)
    BY <1>2, <2>1, WorksAt, BusyMeans
  <2>3. task'[t].todo \in {Tail(task[t].todo), <<>>}
    BY <1>2, RenameTasks
  <2>4. Tail(task[t].todo) # <<>> => Head(Tail(task[t].todo)) # "set"
    BY <2>2 DEF Follows
  <2> QED
    BY <2>3, <2>4 DEF Pending, At, Busy
<1> QED
  BY <1>1, <1>2

\* A store the rename does not touch keeps what it should hold.
LEMMA RenameOther ==
  ASSUME Typed, Work, NEW t \in Tasks, RenameTmp(t), NEW s \in {"pt", "cj"}, s # handler[t].store \/ Misses(t)
  PROVE  file'[s] = file[s] /\ want'[s] = want[s] /\ Seen(s)' = Seen(s)
<1>1. Works(t) /\ (Moves(t) \/ Misses(t)) /\ \A r \in Stores \ {handler[t].store} : file'[r] = file[r]
  BY RenameMeans
<1>2. s \in Stores
  BY DEF Stores
<1>3. CASE Misses(t)
  BY <1>3, SeenFrame DEF Misses
<1>4. CASE Moves(t) /\ s # handler[t].store
  <2>1. want' = Merged(t) /\ file'[s] = file[s]
    BY <1>1, <1>2, <1>4 DEF Moves
  <2>2. Merged(t)[s] = want[s]
    BY <1>1, <1>4, MergedTyped
  <2> QED
    BY <2>1, <2>2, SeenFrame
<1> QED
  BY <1>1, <1>3, <1>4

\* A command's file becomes passthrough.toml: what the user asked for, if nothing was mixed.
LEMMA PtRenamed ==
  ASSUME Typed, Work, Company, Writes, Kept, NEW t \in Tasks, RenameTmp(t),
         handler[t].store = "pt", Moves(t), "pt" \notin mixed
  PROVE  /\ file'["pt"] # Torn /\ Seen("pt")' = want'["pt"] /\ Fresh(Seen("pt"))'
         /\ \A u \in Tasks : Read(u)' /\ Sent(u)'
<1>1. PICK x : x = handler[t].new
  OBVIOUS
<1>2. Works(t) /\ handler[t].pc = "filled" /\ server = "up" /\ x \in PtFiles /\ Aspect(Op(t)) = "pt"
  BY <1>1, RenameMeans, ContentsMeans DEF Work, Serves, ServesPt
<1>3. tmp["pt"] = x /\ Writers("pt") = {t}
  BY <1>1, <1>2 DEF Writes, Sole
<1>4. file'["pt"] = x /\ x \notin {NoFile, Torn}
  BY <1>2, <1>3, ContentsMeans DEF Moves, Stores
<1>5. Seen("pt")' = x
  BY <1>4 DEF Seen
<1>6. Fresh(x) /\ (alone[t] => Allowed(Op(t), Seen("pt")) /\ x = Changed(Op(t), Seen("pt")))
  <2>1. Current(t, handler[t].new)
    BY <1>2 DEF Kept, Sent
  <2>2. Current(t, x)
    BY <1>1, <2>1, CurrentIs
  <2> QED
    BY <2>2 DEF Current
<1>7. Seen("pt") = want["pt"] /\ legacy["pt"] = NoFile
  BY <1>2, UpMeans DEF Kept, Held
<1>8. want'["pt"] = IF ~alone[t] THEN x ELSE IF Allowed(Op(t), want["pt"]) THEN Changed(Op(t), want["pt"]) ELSE want["pt"]
  BY <1>1, <1>2, MergedTyped DEF Moves
<1>9. want'["pt"] = x
  <2>1. PICK w : w = want["pt"]
    OBVIOUS
  <2>2. alone[t] => Allowed(Op(t), w) /\ x = Changed(Op(t), w)
    BY <1>6, <1>7, <2>1
  <2> QED
    BY <1>8, <2>1, <2>2
<1>10. Fresh(Seen("pt"))'
  BY <1>5, <1>6 DEF Fresh
<1>11. UNCHANGED <<legacy, server, alone>> /\ \A u \in Tasks \ {t} : task'[u] = task[u]
  BY RenameMeans, RenameTasks
<1>12. ASSUME NEW u \in Tasks PROVE Read(u)'
  <2>1. CASE u = t
    BY <2>1, RenameUnsent DEF Read
  <2>2. CASE u # t
    <3> SUFFICES ASSUME Pending(u)' PROVE Read(u)'
      BY DEF Read
    <3>1. task'[u] = task[u] /\ Pending(u) /\ Busy(u) /\ Op(u)' = Op(u)
      BY <1>11, <2>2 DEF Pending, At, Busy, Op
    <3>2. Aspect(Op(u)) = "pt"
      BY <3>1, BusyMeans DEF Belongs, Pending, At
    <3>3. ~alone[u]
      BY <1>2, <2>2, <3>1, <3>2 DEF Company, Taken, Works
    <3>4. Fresh(task[u].saves)
      BY <3>1 DEF Kept, Read, Current
    <3>5. Fresh(task[u].saves)'
      BY <3>1, <3>4 DEF Fresh
    <3>6. legacy'["pt"] = NoFile /\ server' # "cut" /\ ~alone'[u]
      BY <1>2, <1>7, <1>11, <3>3
    <3> QED
      BY <1>10, <3>5, <3>6 DEF Read, Current
  <2> QED
    BY <2>1, <2>2
<1>13. ASSUME NEW u \in Tasks PROVE Sent(u)'
  <2> SUFFICES ASSUME Works(u)', handler'[u].store = "pt" PROVE FALSE
    BY DEF Sent
  <2>1. u # t
    BY RenameMeans
  <2>2. Works(u) /\ handler[u].store = "pt"
    BY <2>1, RenameMeans
  <2> QED
    BY <1>3, <2>1, <2>2 DEF Writers, Works
<1> QED
  BY <1>4, <1>5, <1>9, <1>10, <1>12, <1>13

\* The merged file becomes config.json.
LEMMA CjRenamed ==
  ASSUME Typed, Work, Writes, Kept, NEW t \in Tasks, RenameTmp(t),
         handler[t].store = "cj", Moves(t), "cj" \notin mixed
  PROVE  /\ file'["cj"] # Torn /\ Seen("cj")' = want'["cj"]
         /\ \A u \in Tasks : Merges(u)'
<1>1. PICK x : x = handler[t].new
  OBVIOUS
<1>2. PICK k : k = handler[t].key
  OBVIOUS
<1>3. Works(t) /\ handler[t].pc = "filled" /\ server = "up" /\ x \in CjFiles
  BY <1>1, RenameMeans, ContentsMeans DEF Work, Serves
<1>4. tmp["cj"] = x /\ Writers("cj") = {t}
  BY <1>1, <1>3 DEF Writes, Sole
<1>5. file'["cj"] = x /\ x \notin {NoFile, Torn}
  BY <1>3, <1>4, ContentsMeans DEF Moves, Stores
<1>6. Seen("cj")' = x
  BY <1>5 DEF Seen
<1>7. Seen("cj") = want["cj"]
  BY <1>3, UpMeans DEF Kept, Held
<1>8. x = [Seen("cj") EXCEPT ![k] = x[k]]
  BY <1>1, <1>2, <1>3 DEF Kept, Merges
<1>9. want'["cj"] = [want["cj"] EXCEPT ![k] = x[k]]
  BY <1>1, <1>2, <1>3, MergedTyped DEF Moves
<1>10. want'["cj"] = x
  BY <1>7, <1>8, <1>9
<1>11. ASSUME NEW u \in Tasks PROVE Merges(u)'
  <2> SUFFICES ASSUME Works(u)', handler'[u].store = "cj" PROVE FALSE
    BY DEF Merges
  <2>1. u # t
    BY RenameMeans
  <2>2. Works(u) /\ handler[u].store = "cj"
    BY <2>1, RenameMeans
  <2> QED
    BY <1>4, <2>1, <2>2 DEF Writers, Works
<1> QED
  BY <1>5, <1>6, <1>10, <1>11

LEMMA RenameKept ==
  ASSUME Typed, Work, Company, Writes, Kept, NEW t \in Tasks, RenameTmp(t)
  PROVE  Kept'
<1>1. /\ Works(t) /\ (Moves(t) \/ Misses(t)) /\ UNCHANGED <<legacy, server, alone, mixed>>
      /\ \A u \in Tasks \ {t} : task'[u] = task[u]
      /\ task'[t].op = task[t].op /\ ~Works(t)'
      /\ \A u \in Tasks \ {t} : Works(u)' => /\ Works(u) /\ handler'[u].store = handler[u].store
                                             /\ handler'[u].new = handler[u].new /\ handler'[u].key = handler[u].key
  BY RenameMeans, RenameTasks
<1>2. server = "up" /\ legacy["pt"] = NoFile /\ legacy["cj"] = NoFile
  BY <1>1, UpMeans DEF Work, Serves
<1>3. \A s \in {"pt", "cj"} : Old(s)'
  BY <1>1, <1>2 DEF Old
<1>4. Renewed'
  BY <1>1, <1>2 DEF Renewed
<1>5. ASSUME "pt" \notin mixed
      PROVE  /\ file'["pt"] # Torn /\ Seen("pt")' = want'["pt"] /\ Fresh(Seen("pt"))'
             /\ \A u \in Tasks : Read(u)' /\ Sent(u)'
  <2>1. CASE handler[t].store = "pt" /\ Moves(t)
    BY <1>5, <2>1, PtRenamed
  <2>2. CASE handler[t].store # "pt" \/ Misses(t)
    <3>1. file'["pt"] = file["pt"] /\ want'["pt"] = want["pt"] /\ Seen("pt")' = Seen("pt")
      BY <2>2, RenameOther
    <3>2. Held("pt") /\ Fresh(Seen("pt")) /\ \A u \in Tasks : Read(u) /\ Sent(u)
      BY <1>2, <1>5 DEF Kept
    <3>3. file["pt"] # Torn /\ Seen("pt") = want["pt"]
      BY <1>2, <3>2 DEF Held
    <3>4. Fresh(Seen("pt"))'
      BY <3>1, <3>2 DEF Fresh
    <3>5. ASSUME NEW u \in Tasks PROVE Read(u)' /\ Sent(u)'
      <4>1. CASE u = t
        BY <1>1, <4>1, RenameUnsent DEF Read, Sent
      <4>2. CASE u # t
        <5>1. Read(u) /\ Sent(u) /\ task'[u] = task[u]
          BY <1>1, <3>2, <4>2
        <5>2. Read(u)'
          BY <1>1, <3>1, <5>1, ReadFrame
        <5>3. Sent(u)'
          BY <1>1, <3>1, <4>2, <5>1, SentFrame
        <5> QED
          BY <5>2, <5>3
      <4> QED
        BY <4>1, <4>2
    <3> QED
      BY <3>1, <3>3, <3>4, <3>5
  <2> QED
    BY <1>1, <2>1, <2>2
<1>6. ASSUME "cj" \notin mixed
      PROVE  file'["cj"] # Torn /\ Seen("cj")' = want'["cj"] /\ \A u \in Tasks : Merges(u)'
  <2>1. CASE handler[t].store = "cj" /\ Moves(t)
    BY <1>6, <2>1, CjRenamed
  <2>2. CASE handler[t].store # "cj" \/ Misses(t)
    <3>1. file'["cj"] = file["cj"] /\ want'["cj"] = want["cj"] /\ Seen("cj")' = Seen("cj")
      BY <2>2, RenameOther
    <3>2. Held("cj") /\ \A u \in Tasks : Merges(u)
      BY <1>6 DEF Kept
    <3>3. file["cj"] # Torn /\ Seen("cj") = want["cj"]
      BY <1>2, <3>2 DEF Held
    <3>4. ASSUME NEW u \in Tasks PROVE Merges(u)'
      <4>1. CASE u = t
        BY <1>1, <4>1 DEF Merges
      <4>2. CASE u # t
        BY <1>1, <3>1, <3>2, <4>2, MergesFrame
      <4> QED
        BY <4>1, <4>2
    <3> QED
      BY <3>1, <3>3, <3>4
  <2> QED
    BY <1>1, <2>1, <2>2
<1>7. \A s \in {"pt", "cj"} \ mixed' : Held(s)'
  BY <1>1, <1>5, <1>6 DEF Held
<1> QED
  BY <1>1, <1>3, <1>4, <1>5, <1>6, <1>7 DEF Kept

\* A command that begins has read nothing yet.
LEMMA BeginKept ==
  ASSUME Typed, Kept, NEW t \in Tasks, NEW op \in Ops, Begin(t, op)
  PROVE  Kept'
<1>1. /\ UNCHANGED <<file, legacy, text, server, want, handler, mixed>>
      /\ \A u \in Tasks : u # t => (alone'[u] => alone[u])
  BY DEF Begin, disk_
<1>2. ~Taken(t) /\ task'[t].todo = Steps(op) /\ \A u \in Tasks \ {t} : task'[u] = task[u]
  BY BeginMeans
<1>3. ~Pending(t)'
  BY <1>2, StepsMeans DEF Pending, At
<1>4. ~Works(t) /\ ~Works(t)'
  BY <1>1, <1>2 DEF Taken, Works
<1> QED
  BY <1>1, <1>2, <1>3, <1>4, StillKept

LEMMA WindowKept ==
  ASSUME Typed, Kept, WindowCloses
  PROVE  Kept'
<1>1. UNCHANGED <<file, legacy, text, server, want, handler, mixed, alone>>
  BY DEF WindowCloses, disk_
<1>2. PICK T \in SUBSET Tasks : Abandon(T)
  BY DEF WindowCloses
<1>3. \A u \in Tasks : task'[u].op = task[u].op /\ (Busy(u)' => task'[u] = task[u])
  BY <1>2, AbandonMeans DEF Busy
<1> QED
  BY <1>1, <1>3, StillKept

LEMMA DiesKept ==
  ASSUME Typed, Kept, ServerDies
  PROVE  Kept'
<1>1. /\ server # "down" /\ server' = "down" /\ UNCHANGED <<file, legacy, want, alone>>
      /\ mixed' = (IF server = "cut" THEN mixed \cup {"pt"} ELSE mixed) /\ \A u \in Tasks : handler'[u] = NoHandler
  BY DEF ServerDies
<1>2. PICK T \in SUBSET Tasks : Abandon(T)
  BY DEF ServerDies
<1>3. \A u \in Tasks : Busy(u)' => task'[u] = task[u]
  BY <1>2, AbandonMeans DEF Busy
<1>4. legacy["pt"] = NoFile /\ legacy["cj"] = NoFile
  BY <1>1, UpMeans
<1>5. \A s \in {"pt", "cj"} : Old(s)'
  BY <1>1, <1>4 DEF Old
<1>6. ASSUME NEW s \in {"pt", "cj"} \ mixed' PROVE Held(s)'
  <2>1. Held(s) /\ (s = "pt" => server # "cut")
    BY <1>1, <1>6 DEF Kept
  <2>2. file[s] # Torn /\ Seen(s) = want[s]
    BY <1>4, <1>6, <2>1 DEF Held
  <2>3. Seen(s)' = Seen(s)
    BY <1>1, SeenFrame
  <2> QED
    BY <1>1, <2>2, <2>3 DEF Held
<1>7. \A u \in Tasks : Sent(u)' /\ Merges(u)'
  BY <1>1 DEF Sent, Merges, Works
<1>8. ASSUME NEW u \in Tasks, "pt" \notin mixed' PROVE Read(u)'
  <2>1. Read(u)
    BY <1>1, <1>8 DEF Kept
  <2>2. Seen("pt")' = Seen("pt")
    BY <1>1, SeenFrame
  <2> QED
    BY <1>1, <1>3, <2>1, <2>2, ReadFrame
<1>9. Renewed'
  BY <1>1 DEF Renewed
<1> QED
  BY <1>1, <1>5, <1>6, <1>7, <1>8, <1>9 DEF Kept

LEMMA OtherKept ==
  ASSUME Typed, Kept, PackagesChange \/ ManagerEdits \/ UNCHANGED vars
  PROVE  Kept'
<1>1. /\ UNCHANGED <<file, legacy, text, server, want, handler, mixed, task>>
      /\ \A u \in Tasks : alone'[u] => alone[u]
  BY DEF PackagesChange, ManagerEdits, vars, disk_, hist_
<1> QED
  BY <1>1, StillKept

\* What the files hold stays what they should hold.
LEMMA KeptKept ==
  ASSUME Typed, Work, Company, Writes, Kept, [Usual]_vars
  PROVE  Kept'
<1>1. CASE StartServer \/ RewriteBegin \/ RewriteEnd
  BY <1>1, StartKept, RewriteBeginKept, RewriteEndKept
<1>2. ASSUME NEW t \in Tasks, Step(t) PROVE Kept'
  BY <1>2, StepShapes, GoesKept, OpensKept, FillKept, RenameKept
<1>3. ASSUME NEW t \in Tasks, NEW op \in Ops, Begin(t, op) PROVE Kept'
  BY <1>3, BeginKept
<1>4. CASE ServerDies \/ WindowCloses \/ PackagesChange \/ ManagerEdits \/ UNCHANGED vars
  BY <1>4, DiesKept, WindowKept, OtherKept
<1> QED
  BY <1>1, <1>2, <1>3, <1>4 DEF Usual

-----------------------------------------------------------------------------
(* Mirrors: the icon on the host and the one in the container *)

LEMMA MirrorFrame ==
  ASSUME NEW u, task'[u].todo = task[u].todo /\ task'[u].op = task[u].op /\ task'[u].saves = task[u].saves,
         Taken(u)' => Taken(u), host' = host, want'["cj"] = want["cj"],
         alone'[u] => alone[u], "icon" \in stale => "icon" \in stale', MirrorOf(u)
  PROVE  MirrorOf(u)'
<1> SUFFICES ASSUME Holds(u, "icon")'
             PROVE  /\ ~Busy(u)' => "icon" \in stale'
                    /\ Busy(u)' /\ alone'[u] => IF Op(u)'.kind = "reexport" THEN Exported(u)' ELSE Entered(u)'
  BY DEF MirrorOf
<1>1. Op(u)' = Op(u) /\ (Busy(u)' <=> Busy(u)) /\ \A step : At(u, step)' <=> At(u, step)
  BY DEF Op, Busy, At
<1>2. Holds(u, "icon")
  BY <1>1 DEF Holds, Aspect
<1>3. Agree' <=> Agree
  BY DEF Agree
<1>4. Exported(u) => Exported(u)'
  BY <1>1, <1>3 DEF Exported
<1>5. Entered(u) => Entered(u)'
  BY <1>1, <1>3 DEF Entered
<1> QED
  BY <1>1, <1>2, <1>4, <1>5 DEF MirrorOf

\* Of two commands about the icon neither runs alone: for one, it is only asked whether it was given up.
LEMMA MirrorOther ==
  ASSUME Company, NEW t \in Tasks, NEW u \in Tasks \ {t}, Holds(t, "icon"), task'[u] = task[u], Taken(u)' => Taken(u),
         alone'[u] => alone[u], "icon" \in stale => "icon" \in stale', MirrorOf(u)
  PROVE  MirrorOf(u)'
<1> SUFFICES ASSUME Holds(u, "icon")'
             PROVE  (~Busy(u)' => "icon" \in stale') /\ ~alone'[u]
  BY DEF MirrorOf
<1>1. Op(u)' = Op(u) /\ (Busy(u)' <=> Busy(u))
  BY DEF Op, Busy
<1>2. Holds(u, "icon")
  BY <1>1 DEF Holds, Aspect
<1>3. ~alone[u]
  BY <1>2 DEF Company, Holds
<1> QED
  BY <1>1, <1>2, <1>3 DEF MirrorOf

LEMMA StillMirrors ==
  ASSUME Mirrors, host' = host, want'["cj"] = want["cj"], mixed \subseteq mixed', UNCHANGED <<task, stale, alone>>,
         \A u \in Tasks : Taken(u)' <=> Taken(u)
  PROVE  Mirrors'
<1> SUFFICES ASSUME mixed' = {}
             PROVE  /\ "icon" \in stale' \/ Agree' \/ \E t \in Tasks : Holds(t, "icon")'
                    /\ \A t \in Tasks : MirrorOf(t)'
  BY DEF Mirrors
<1>1. mixed = {}
  OBVIOUS
<1>2. \A t \in Tasks : MirrorOf(t)'
  BY <1>1, MirrorFrame DEF Mirrors
<1>3. \A t \in Tasks : Holds(t, "icon")' <=> Holds(t, "icon")
  BY DEF Holds, Op, Aspect
<1>4. Agree' <=> Agree
  BY DEF Agree
<1> QED
  BY <1>1, <1>2, <1>3, <1>4 DEF Mirrors

\* Commands are given up: one about the icon leaves the two in disorder.
LEMMA AbandonMirrors ==
  ASSUME Typed, Mirrors, NEW T \in SUBSET Tasks, Abandon(T), host' = host, want' = want, alone' = alone,
         mixed \subseteq mixed', \A u \in Tasks : Works(u)' => Works(u), \A u \in Tasks \ T : Works(u)' <=> Works(u)
  PROVE  Mirrors'
<1> SUFFICES ASSUME mixed' = {}
             PROVE  /\ "icon" \in stale' \/ Agree' \/ \E t \in Tasks : Holds(t, "icon")'
                    /\ \A t \in Tasks : MirrorOf(t)'
  BY DEF Mirrors
<1>1. mixed = {}
  OBVIOUS
<1>2. /\ \A u \in Tasks : /\ task'[u].op = task[u].op /\ task'[u].todo = IF u \in T THEN <<>> ELSE task[u].todo
                          /\ u \notin T => task'[u] = task[u]
      /\ stale \subseteq stale'
  BY AbandonMeans
<1>3. ASSUME NEW u \in T, Busy(u), Aspect(Op(u)) = "icon" PROVE "icon" \in stale'
  BY <1>3 DEF Abandon
<1>4. ASSUME NEW u \in Tasks PROVE MirrorOf(u)'
  <2>1. CASE u \in T
    <3> SUFFICES ASSUME Holds(u, "icon")' PROVE "icon" \in stale'
      BY <1>2, <2>1 DEF MirrorOf, Busy
    <3>1. Works(u)' /\ Aspect(Op(u)) = "icon"
      BY <1>2, <2>1 DEF Holds, Taken, Busy, Op, Works, Aspect
    <3>2. Holds(u, "icon") /\ MirrorOf(u)
      BY <1>1, <3>1 DEF Holds, Taken, Works, Mirrors
    <3> QED
      BY <1>2, <1>3, <2>1, <3>1, <3>2 DEF MirrorOf
  <2>2. CASE u \notin T
    <3>1. task'[u] = task[u] /\ (Taken(u)' => Taken(u)) /\ MirrorOf(u)
      BY <1>1, <1>2, <2>2 DEF Mirrors, Taken, Busy, Works
    <3> QED
      BY <1>2, <3>1, MirrorFrame
  <2> QED
    BY <2>1, <2>2
<1>5. ASSUME "icon" \notin stale', ~Agree' PROVE \E t \in Tasks : Holds(t, "icon")'
  <2>1. "icon" \notin stale /\ ~Agree
    BY <1>2, <1>5 DEF Agree
  <2>2. PICK t \in Tasks : Holds(t, "icon")
    BY <1>1, <2>1 DEF Mirrors
  <2>3. Busy(t) /\ Aspect(Op(t)) = "icon"
    BY <1>1, <2>1, <2>2 DEF Mirrors, MirrorOf, Holds
  <2>4. t \notin T
    BY <1>3, <1>5, <2>3
  <2> QED
    BY <1>2, <2>2, <2>3, <2>4 DEF Holds, Taken, Busy, Op
<1> QED
  BY <1>4, <1>5

\* A command begins: it has set nothing yet, and if it is about the icon it is alone or leaves a disorder.
LEMMA BeginMirrors ==
  ASSUME Typed, Mirrors, NEW t \in Tasks, NEW op \in Ops, Begin(t, op)
  PROVE  Mirrors'
<1> DEFINE same == {u \in Tasks \ {t} : Taken(u) /\ Aspect(Op(u)) = Aspect(op)}
<1>1. /\ UNCHANGED <<host, want, handler, mixed>>
      /\ alone' = [u \in Tasks |-> IF u = t THEN same = {} ELSE alone[u] /\ u \notin same]
      /\ stale' = IF same = {} THEN stale ELSE stale \cup {Aspect(op)}
  BY DEF Begin, Same, host_
<1>2. /\ ~Taken(t) /\ \A u \in Tasks \ {t} : task'[u] = task[u]
      /\ task'[t].op = op /\ task'[t].todo = Steps(op) /\ stale \subseteq stale'
  BY BeginMeans
<1>3. Busy(t)' /\ Op(t)' = op /\ Taken(t)'
  BY <1>2, StepsMeans, LeftMeans DEF Busy, Op, Taken
<1> SUFFICES ASSUME mixed = {}
             PROVE  /\ "icon" \in stale' \/ Agree' \/ \E u \in Tasks : Holds(u, "icon")'
                    /\ \A u \in Tasks : MirrorOf(u)'
  BY <1>1 DEF Mirrors
<1>4. ASSUME NEW u \in Tasks, u # t PROVE MirrorOf(u)' /\ (Holds(u, "icon") => Holds(u, "icon")')
  <2>1. task'[u] = task[u] /\ (Taken(u)' <=> Taken(u)) /\ (alone'[u] => alone[u]) /\ MirrorOf(u)
    BY <1>1, <1>2, <1>4 DEF Mirrors, Taken, Busy
  <2>2. MirrorOf(u)'
    BY <1>1, <1>2, <2>1, MirrorFrame
  <2> QED
    BY <2>1, <2>2 DEF Holds, Op, Aspect
<1>5. Agree' <=> Agree
  BY <1>1 DEF Agree
<1>6. ASSUME Aspect(op) = "icon", "icon" \notin stale' PROVE Agree
  <2>1. same = {}
    BY <1>1, <1>6
  <2>2. \A u \in Tasks : ~Holds(u, "icon")
    BY <1>2, <1>6, <2>1 DEF Holds
  <2>3. "icon" \notin stale
    BY <1>2, <1>6
  <2> QED
    BY <2>2, <2>3 DEF Mirrors
<1>7. MirrorOf(t)'
  <2> SUFFICES ASSUME Aspect(op) = "icon" PROVE Exported(t)' /\ Entered(t)'
    BY <1>3 DEF MirrorOf, Holds
  <2>1. ~At(t, "cjicon")' /\ ~At(t, "cjname")'
    BY <1>2, StepsMeans DEF At
  <2> QED
    BY <1>5, <1>6, <2>1 DEF Exported, Entered
<1>8. "icon" \in stale' \/ Agree' \/ \E u \in Tasks : Holds(u, "icon")'
  <2>1. CASE Aspect(op) = "icon"
    BY <1>3, <2>1 DEF Holds
  <2>2. CASE Aspect(op) # "icon"
    <3>1. \A u \in Tasks : Holds(u, "icon") => u # t
      BY <1>2 DEF Holds
    <3> QED
      BY <1>2, <1>4, <1>5, <3>1 DEF Mirrors
  <2> QED
    BY <2>1, <2>2
<1> QED
  BY <1>4, <1>7, <1>8

LEMMA ManagerMirrors ==
  ASSUME Typed, ManagerEdits
  PROVE  Mirrors'
<1>1. /\ "icon" \in stale' /\ UNCHANGED <<task, handler>>
      /\ \A u \in Tasks : alone'[u] => Aspect(Op(u)) # "icon"
  BY DEF ManagerEdits
<1>2. \A u \in Tasks : Op(u)' = Op(u)
  BY <1>1 DEF Op
<1>3. \A u \in Tasks : MirrorOf(u)'
  BY <1>1, <1>2 DEF MirrorOf, Holds, Aspect
<1> QED
  BY <1>1, <1>3 DEF Mirrors

\* A command about something else takes a step.
LEMMA ElseMirrors ==
  ASSUME Mirrors, NEW t \in Tasks, Aspect(Op(t)) # "icon", task'[t].op = task[t].op,
         \A u \in Tasks \ {t} : task'[u] = task[u] /\ (Works(u)' <=> Works(u)),
         host' = host, want'["cj"].icon = want["cj"].icon, UNCHANGED <<alone, mixed>>, "icon" \in stale => "icon" \in stale'
  PROVE  Mirrors'
<1> SUFFICES ASSUME mixed = {}
             PROVE  /\ "icon" \in stale' \/ Agree' \/ \E u \in Tasks : Holds(u, "icon")'
                    /\ \A u \in Tasks : MirrorOf(u)'
  BY DEF Mirrors
<1>1. Op(t)' = Op(t) /\ Agree' = Agree
  BY DEF Op, Agree
<1>2. ~Holds(t, "icon") /\ ~Holds(t, "icon")'
  BY <1>1 DEF Holds, Aspect
<1>3. ASSUME NEW u \in Tasks, u # t PROVE MirrorOf(u)' /\ (Holds(u, "icon") => Holds(u, "icon")')
  <2>1. Op(u)' = Op(u) /\ (Busy(u)' <=> Busy(u)) /\ (Taken(u)' <=> Taken(u)) /\ \A step : At(u, step)' <=> At(u, step)
    BY <1>3 DEF Op, Busy, Taken, Works, At
  <2>2. Holds(u, "icon")' <=> Holds(u, "icon")
    BY <2>1 DEF Holds, Aspect
  <2>3. Exported(u) => Exported(u)'
    BY <1>1, <1>3, <2>1 DEF Exported
  <2>4. Entered(u) => Entered(u)'
    BY <1>1, <2>1 DEF Entered
  <2>5. MirrorOf(u)
    BY DEF Mirrors
  <2> QED
    BY <2>1, <2>2, <2>3, <2>4, <2>5 DEF MirrorOf
<1>4. MirrorOf(t)'
  BY <1>2 DEF MirrorOf
<1>5. "icon" \in stale' \/ Agree' \/ \E u \in Tasks : Holds(u, "icon")'
  BY <1>1, <1>2, <1>3 DEF Mirrors
<1> QED
  BY <1>3, <1>4, <1>5

\* Only one step of a command sets the icon on the host; what else one about it does without a handler.
LEMMA IconSteps ==
  ASSUME Typed, Work, NEW t \in Tasks, Step(t), ~SetHostIcon(t)
  PROVE  host' = host
<1> USE DEF host_, hostOnly_
<1>1. CASE ReadList(t) \/ SetList(t) \/ SetIcon(t) \/ SetName(t) \/ Scan(t) \/ Resolve(t) \/ NoServer(t)
  BY <1>1 DEF ReadList, SetList, SetIcon, SetName, SetKey, Scan, Resolve, NoServer
<1>2. CASE Fill(t)
  BY <1>2, FillMeans
<1>3. CASE RenameTmp(t)
  BY <1>3, RenameMeans
<1>4. CASE \/ ReadHostIcon(t) \/ Install(t) \/ Unlink(t) \/ Enable(t) \/ Disable(t)
           \/ Reload(t) \/ Export(t) \/ Revoke(t) \/ Clean(t)
  BY <1>4 DEF ReadHostIcon, Install, Unlink, Enable, Disable, Reload, Export, Revoke, Clean, Unexport
<1> QED
  BY <1>1, <1>2, <1>3, <1>4 DEF Step

LEMMA IconGoes ==
  ASSUME Typed, Work, NEW t \in Tasks, Step(t), Goes(t), Aspect(Op(t)) = "icon"
  PROVE  SetHostIcon(t) \/ ReadHostIcon(t) \/ Abandon({t})
<1>1. Busy(t) /\ ~Works(t) /\ handler' = handler
  BY DEF Goes
<1>2. Head(task[t].todo) \in {"host", "hosticon", "cjicon", "cjname"}
  BY <1>1, BusyMeans DEF Belongs
<1>3. CASE SetIcon(t) \/ SetName(t)
  <2>1. PICK key \in {"icon", "name"} : \E v, step : SetKey(t, step, key, v)
    BY <1>3 DEF SetIcon, SetName
  <2>2. PICK v : \E step : SetKey(t, step, key, v)
    BY <2>1
  <2>3. Abandon({t}) \/ OpenTmp(t, "cj", [Seen("cj") EXCEPT ![key] = v], key)
    BY <2>2 DEF SetKey
  <2>4. OpenTmp(t, "cj", [Seen("cj") EXCEPT ![key] = v], key) => Works(t)'
    BY <1>1, OpenMeans DEF Stores
  <2> QED
    BY <1>1, <2>3, <2>4 DEF Works
<1>4. CASE Fill(t) \/ RenameTmp(t)
  BY <1>1, <1>4, FillMeans, RenameMeans
<1> QED
  BY <1>2, <1>3, <1>4 DEF Step, ReadList, SetList, Scan, Resolve, Install, Unlink, Enable, Disable, Reload,
                          Export, Revoke, Clean, NoServer, At

\* A command about the icon takes a step without a handler.
LEMMA GoesMirrors ==
  ASSUME Typed, Work, Company, Mirrors, NEW t \in Tasks, Step(t), Goes(t)
  PROVE  Mirrors'
<1>1. /\ UNCHANGED <<handler, want, alone, mixed>> /\ Busy(t) /\ ~Works(t)
      /\ \A u \in Tasks \ {t} : task'[u] = task[u]
      /\ task'[t].op = task[t].op /\ Orders(t)
  BY DEF Goes
<1>2. \A u \in Tasks \ {t} : (Taken(u)' => Taken(u)) /\ (Works(u)' <=> Works(u))
  BY <1>1 DEF Taken, Busy, Works
<1>3. CASE Aspect(Op(t)) # "icon"
  <2>1. ~SetHostIcon(t)
    BY <1>1, <1>3, BusyMeans, AspectOf DEF SetHostIcon, At, Belongs
  <2>2. host' = host
    BY <2>1, IconSteps
  <2>3. "icon" \in stale => "icon" \in stale'
    BY <1>1, <1>3 DEF Orders
  <2> QED
    BY <1>1, <1>2, <1>3, <2>2, <2>3, ElseMirrors
<1>4. CASE Aspect(Op(t)) = "icon"
  <2>1. Holds(t, "icon") /\ Op(t) \in Ops /\ Follows(Op(t), task[t].todo) /\ Belongs(Op(t), task[t].todo)
    BY <1>1, <1>4, BusyMeans DEF Holds, Taken
  <2>2. CASE Abandon({t})
    <3>2. ~SetHostIcon(t)
      <4> SUFFICES ASSUME SetHostIcon(t) PROVE FALSE
        OBVIOUS
      <4>1. Advance(t) /\ Head(task[t].todo) = "host"
        BY DEF SetHostIcon, At
      <4>2. task'[t].todo = Tail(task[t].todo) /\ task'[t].todo = <<>>
        BY <2>2, <4>1, AdvanceMeans, AbandonMeans
      <4> QED
        BY <2>1, <4>1, <4>2 DEF Follows
    <3>3. host' = host
      BY <3>2, IconSteps
    <3> QED
      BY <1>1, <2>2, <3>3, AbandonMirrors DEF Works
  <2>3. CASE SetHostIcon(t)
    <3>1. At(t, "host") /\ Advance(t) /\ host' = Op(t).icon /\ Head(task[t].todo) = "host"
      BY <2>3 DEF SetHostIcon, At
    <3>2. task'[t].todo = Tail(task[t].todo) /\ Tail(task[t].todo) # <<>> /\ Op(t).kind # "reexport"
          /\ Head(Tail(task[t].todo)) = "cjicon"
      BY <2>1, <3>1, AdvanceMeans DEF Follows, Belongs
    <3>3. Busy(t)' /\ Op(t)' = Op(t) /\ ~At(t, "cjname")'
      BY <1>1, <3>2 DEF Busy, Op, At
    <3>4. "icon" \in stale => "icon" \in stale'
      BY <1>1, <3>2 DEF Orders
    <3>5. Entered(t)'
      BY <3>1, <3>3 DEF Entered
    <3>6. MirrorOf(t)' /\ Holds(t, "icon")'
      BY <1>4, <3>2, <3>3, <3>5 DEF MirrorOf, Holds, Taken, Aspect
    <3>7. mixed = {} => \A u \in Tasks \ {t} : MirrorOf(u)'
      BY <1>1, <1>2, <2>1, <3>4, MirrorOther DEF Mirrors
    <3> QED
      BY <1>1, <3>6, <3>7 DEF Mirrors
  <2>4. CASE ReadHostIcon(t)
    <3>1. /\ Op(t).kind = "reexport" /\ host' = host /\ stale' = stale
          /\ task'[t].saves = host /\ task'[t].todo # <<>> /\ (At(t, "cjname")' => host = None)
      BY <2>4, ReadHostShape
    <3>2. At(t, "cjicon")' => host # None
      BY <3>1 DEF Goes
    <3>3. Busy(t)' /\ Op(t)' = Op(t) /\ (Agree' <=> Agree)
      BY <1>1, <3>1 DEF Busy, Op, Agree
    <3>4. mixed = {} => MirrorOf(t)'
      <4> SUFFICES ASSUME mixed = {}, alone[t] PROVE Exported(t)'
        BY <1>1, <3>1, <3>3 DEF MirrorOf
      <4>1. "icon" \notin stale => Agree
        BY <1>1, <2>1, <3>1 DEF Mirrors, MirrorOf, Exported
      <4> QED
        BY <3>1, <3>2, <3>3, <4>1 DEF Exported
    <3>5. Holds(t, "icon")'
      BY <1>4, <3>3 DEF Holds, Taken
    <3>6. mixed = {} => \A u \in Tasks \ {t} : MirrorOf(u)'
      BY <1>1, <1>2, <2>1, <3>1, MirrorOther DEF Mirrors
    <3> QED
      BY <1>1, <3>4, <3>5, <3>6 DEF Mirrors
  <2> QED
    BY <1>4, <2>2, <2>3, <2>4, IconGoes
<1> QED
  BY <1>3, <1>4

\* A handler that works for a command about the icon, or about the name.
LEMMA CjServes ==
  ASSUME Typed, Work, NEW t \in Tasks, RenameTmp(t), Aspect(Op(t)) = "icon"
  PROVE  /\ handler[t].store = "cj" /\ handler[t].key \in {"icon", "name"}
         /\ Busy(t) => At(t, IF handler[t].key = "icon" THEN "cjicon" ELSE "cjname")
         /\ Busy(t) /\ handler[t].key = "icon" =>
              handler[t].new.icon = IF Op(t).kind = "reexport" THEN task[t].saves ELSE Op(t).icon
<1>1. Works(t) /\ handler[t].store \in Stores
  BY RenameMeans
<1>2. ServesPt(t) /\ ServesReg(t) /\ ServesCj(t)
  BY <1>1 DEF Work, Serves
<1>3. handler[t].store = "cj"
  BY <1>1, <1>2 DEF Stores, ServesPt, ServesReg
<1> QED
  BY <1>2, <1>3 DEF ServesCj

\* What a merge of config.json does to the icon that should be there.
LEMMA IconMerged ==
  ASSUME Typed, Work, NEW t \in Tasks, Works(t)
  PROVE  /\ handler[t].store # "cj" \/ handler[t].key = "name" => Merged(t)["cj"].icon = want["cj"].icon
         /\ handler[t].store = "cj" /\ handler[t].key = "icon" => Merged(t)["cj"].icon = handler[t].new.icon
<1>1. want["cj"] \in CjFiles
  BY ContentsMeans DEF Typed
<1>2. CASE handler[t].store # "cj"
  BY <1>2, MergedTyped
<1>3. CASE handler[t].store = "cj"
  <2>1. PICK x : x = handler[t].new
    OBVIOUS
  <2>2. PICK k : k = handler[t].key
    OBVIOUS
  <2>3. k \in {"icon", "name"} /\ Merged(t)["cj"] = [want["cj"] EXCEPT ![k] = x[k]]
    BY <1>3, <2>1, <2>2, MergedTyped
  <2>4. x \in CjFiles
    BY <1>3, <2>1, ContentsMeans DEF Work, Serves
  <2>5. k = "icon" => [want["cj"] EXCEPT ![k] = x[k]].icon = x.icon
    BY <1>1, <2>4, KeySet
  <2>6. k = "name" => [want["cj"] EXCEPT ![k] = x[k]].icon = want["cj"].icon
    BY <1>1, KeySet
  <2> QED
    BY <1>3, <2>1, <2>2, <2>3, <2>5, <2>6
<1> QED
  BY <1>2, <1>3

\* A command about the icon gets the answer of its write: if it ran alone, the two agree again.
LEMMA IconRenamed ==
  ASSUME Typed, Work, Company, Writes, Mirrors, NEW t \in Tasks, RenameTmp(t), Aspect(Op(t)) = "icon", mixed = {}
  PROVE  /\ "icon" \in stale' \/ Agree' \/ Holds(t, "icon")'
         /\ MirrorOf(t)' /\ ("icon" \in stale /\ ~alone[t] => "icon" \in stale')
<1>1. /\ Works(t) /\ handler[t].pc = "filled" /\ ~Works(t)' /\ UNCHANGED <<host, alone, mixed>>
      /\ task'[t].op = task[t].op /\ task'[t].saves = task[t].saves
      /\ \A a \in stale \ stale' : alone[t] /\ Busy(t)
      /\ ~Busy(t) => task'[t] = task[t]
  BY RenameMeans, RenameTasks DEF host_
<1>2. /\ handler[t].store = "cj" /\ handler[t].key \in {"icon", "name"}
      /\ Busy(t) => At(t, IF handler[t].key = "icon" THEN "cjicon" ELSE "cjname")
      /\ Busy(t) /\ handler[t].key = "icon" =>
           handler[t].new.icon = IF Op(t).kind = "reexport" THEN task[t].saves ELSE Op(t).icon
  BY CjServes
<1>3. Moves(t)
  <2>1. tmp["cj"] = handler[t].new
    BY <1>1, <1>2 DEF Writes, Sole
  <2>2. handler[t].new \in Contents("cj")
    BY <1>1, <1>2 DEF Work, Serves
  <2>3. tmp["cj"] # NoFile
    BY <2>1, <2>2, ContentsMeans DEF Stores
  <2> QED
    BY <1>2, <2>3, RenameMeans DEF Misses
<1>4. want' = Merged(t) /\ Answered(t)
  BY <1>3 DEF Moves
<1>5. /\ handler[t].key = "name" => want'["cj"].icon = want["cj"].icon
      /\ handler[t].key = "icon" => want'["cj"].icon = handler[t].new.icon
  BY <1>1, <1>2, <1>4, IconMerged
<1>6. Holds(t, "icon") /\ Taken(t) /\ MirrorOf(t) /\ Op(t)' = Op(t)
  BY <1>1 DEF Holds, Taken, Works, Mirrors, Op
<1>7. ~alone[t] => "icon" \in stale /\ "icon" \in stale'
  BY <1>1, <1>6 DEF Company
<1>8. CASE ~Busy(t)
  <2>1. "icon" \in stale' /\ ~Taken(t)'
    BY <1>1, <1>6, <1>8 DEF MirrorOf, Taken, Busy, Works
  <2> QED
    BY <2>1 DEF MirrorOf, Holds
<1>9. CASE Busy(t)
  <2>1. /\ Op(t) \in Ops /\ Belongs(Op(t), task[t].todo) /\ Follows(Op(t), task[t].todo)
        /\ task[t].todo \in Left(Op(t)) /\ task'[t].todo = Tail(task[t].todo)
    BY <1>3, <1>9, BusyMeans, RenameTasks
  <2>2. Op(t).kind \in {"entry", "shortcut", "reexport"}
    BY <2>1, AspectOf
  <2>3. ASSUME alone[t], handler[t].key = "icon" PROVE Agree' /\ MirrorOf(t)'
    <3>1. At(t, "cjicon")
      BY <1>2, <1>9, <2>3
    <3>2. host = IF Op(t).kind = "reexport" THEN task[t].saves ELSE Op(t).icon
      BY <1>6, <1>9, <2>3, <3>1 DEF MirrorOf, Exported, Entered
    <3>3. Agree'
      BY <1>1, <1>2, <1>5, <1>9, <2>3, <3>2 DEF Agree
    <3>4. ~At(t, "cjicon")'
      BY <2>1, <3>1 DEF At, Busy, Follows
    <3>5. Exported(t)' /\ Entered(t)'
      BY <3>3, <3>4 DEF Exported, Entered
    <3>6. ~Busy(t)' => ~Holds(t, "icon")'
      BY <1>1 DEF Holds, Taken, Works
    <3> QED
      BY <3>3, <3>5, <3>6 DEF MirrorOf
  <2>4. ASSUME alone[t], handler[t].key = "name" PROVE ~Busy(t)' /\ ("icon" \in stale' \/ Agree')
    <3>1. At(t, "cjname") /\ Head(task[t].todo) = "cjname"
      BY <1>2, <1>9, <2>4 DEF At
    <3>2. task[t].todo = <<"cjname">> /\ Len(task[t].todo) = 1
      BY <2>1, <2>2, <3>1, LeftCases, Lists3
    <3>3. Tail(task[t].todo) = <<>>
      BY <3>2, Lists3
    <3>4. Agree' <=> Agree
      BY <1>1, <1>5, <2>4 DEF Agree
    <3>5. CASE Op(t).kind # "reexport"
      BY <1>6, <1>9, <2>1, <2>4, <3>1, <3>3, <3>4, <3>5 DEF MirrorOf, Entered, Busy
    <3>6. CASE Op(t).kind = "reexport"
      <4>1. Exported(t)
        BY <1>6, <1>9, <2>4, <3>6 DEF MirrorOf
      <4>2. task[t].saves = None => stale' = stale
        BY <1>4, <1>9, <3>6 DEF Answered, Advance, Wrote
      <4>3. "icon" \in stale' \/ Agree
        BY <3>1, <4>1, <4>2 DEF Exported
      <4> QED
        BY <2>1, <3>3, <3>4, <4>3 DEF Busy
    <3> QED
      BY <3>5, <3>6
  <2>5. CASE alone[t]
    <3>1. CASE handler[t].key = "icon"
      BY <2>3, <2>5, <3>1
    <3>2. CASE handler[t].key = "name"
      <4>1. ~Busy(t)' /\ ("icon" \in stale' \/ Agree')
        BY <2>4, <2>5, <3>2
      <4>2. ~Holds(t, "icon")'
        BY <1>1, <4>1 DEF Holds, Taken, Works
      <4> QED
        BY <2>5, <4>1, <4>2 DEF MirrorOf
    <3> QED
      BY <1>2, <3>1, <3>2
  <2>6. CASE ~alone[t]
    BY <1>1, <1>7, <2>6 DEF MirrorOf
  <2> QED
    BY <2>5, <2>6
<1> QED
  BY <1>8, <1>9

LEMMA RenameMirrors ==
  ASSUME Typed, Work, Company, Writes, Mirrors, NEW t \in Tasks, RenameTmp(t)
  PROVE  Mirrors'
<1>1. /\ Works(t) /\ UNCHANGED <<host, alone, mixed>> /\ (Moves(t) \/ Misses(t))
      /\ task'[t].op = task[t].op /\ \A a \in stale \ stale' : a = Aspect(Op(t)) /\ alone[t]
      /\ \A u \in Tasks \ {t} : task'[u] = task[u] /\ (Works(u)' <=> Works(u))
  BY RenameMeans, RenameTasks DEF host_
<1>2. CASE Aspect(Op(t)) # "icon"
  <2>1. handler[t].store # "cj" \/ handler[t].key = "name"
    BY <1>1, <1>2 DEF Work, Serves, ServesCj
  <2>2. want'["cj"].icon = want["cj"].icon
    BY <1>1, <2>1, IconMerged DEF Moves, Misses
  <2> QED
    BY <1>1, <1>2, <2>2, ElseMirrors
<1>3. CASE Aspect(Op(t)) = "icon"
  <2> SUFFICES ASSUME mixed = {}
               PROVE  /\ "icon" \in stale' \/ Agree' \/ \E u \in Tasks : Holds(u, "icon")'
                      /\ \A u \in Tasks : MirrorOf(u)'
    BY <1>1 DEF Mirrors
  <2>1. /\ "icon" \in stale' \/ Agree' \/ Holds(t, "icon")'
        /\ MirrorOf(t)' /\ ("icon" \in stale /\ ~alone[t] => "icon" \in stale')
    BY <1>3, IconRenamed
  <2>2. Holds(t, "icon")
    BY <1>1, <1>3 DEF Holds, Taken, Works
  <2>3. ASSUME NEW u \in Tasks, u # t PROVE MirrorOf(u)'
    <3>1. MirrorOf(u) /\ (Taken(u)' <=> Taken(u)) /\ task'[u] = task[u]
      BY <1>1, <2>3 DEF Mirrors, Taken, Busy, Works
    <3>2. CASE Holds(u, "icon")
      <4>1. ~alone[t]
        BY <2>2, <2>3, <3>2 DEF Company, Holds
      <4> QED
        BY <1>1, <2>1, <2>2, <2>3, <3>1, <4>1, MirrorOther
    <3>3. CASE ~Holds(u, "icon")
      BY <3>1, <3>3 DEF MirrorOf, Holds, Op, Aspect
    <3> QED
      BY <3>2, <3>3
  <2> QED
    BY <2>1, <2>3
<1> QED
  BY <1>2, <1>3

LEMMA MirrorsKept ==
  ASSUME Typed, Work, Company, Writes, Mirrors, [Usual]_vars
  PROVE  Mirrors'
<1>1. CASE StartServer \/ RewriteBegin \/ RewriteEnd \/ PackagesChange \/ UNCHANGED vars
  <2>1. UNCHANGED <<task, stale, alone, host, handler, mixed>> /\ want'["cj"] = want["cj"]
    <3>1. CASE RewriteEnd
      BY <3>1 DEF RewriteEnd, Typed, host_
    <3> QED
      BY <1>1, <3>1 DEF StartServer, RewriteBegin, PackagesChange, vars, host_, hist_
  <2>2. \A u \in Tasks : Taken(u)' <=> Taken(u)
    BY <2>1 DEF Taken, Busy
  <2> QED
    BY <2>1, <2>2, StillMirrors
<1>2. ASSUME NEW t \in Tasks, Step(t) PROVE Mirrors'
  <2>1. CASE Goes(t)
    BY <1>2, <2>1, GoesMirrors
  <2>2. CASE OpenPt(t) \/ OpenCj(t) \/ OpenReg(t)
    <3>1. Opens(t) /\ \E s \in Stores : \E new, key : OpenTmp(t, s, new, key)
      <4>1. CASE OpenCj(t)
        <5>1. PICK key : \E v : OpenTmp(t, "cj", [Seen("cj") EXCEPT ![key] = v], key)
          BY <4>1 DEF OpenCj
        <5> QED
          BY <4>1, <5>1 DEF OpenCj, Stores
      <4> QED
        BY <2>2, <4>1 DEF OpenPt, OpenReg, Stores
    <3>2. PICK s \in Stores : \E new, key : OpenTmp(t, s, new, key)
      BY <3>1
    <3>3. PICK new : \E key : OpenTmp(t, s, new, key)
      BY <3>2
    <3>4. PICK key : OpenTmp(t, s, new, key)
      BY <3>3
    <3>5. UNCHANGED <<host, want, task, stale, alone>> /\ Busy(t) /\ ~Works(t)
      BY <3>1 DEF Opens, Unmoved, host_
    <3>6. mixed \subseteq mixed' /\ \A u \in Tasks \ {t} : handler'[u] = handler[u]
      BY <3>4, <3>5, OpenMeans
    <3>7. \A u \in Tasks : Taken(u)' <=> Taken(u)
      BY <3>5, <3>6 DEF Taken, Busy
    <3> QED
      BY <3>5, <3>6, <3>7, StillMirrors
  <2>3. CASE Fill(t)
    <3>1. /\ UNCHANGED <<host, want, task, stale, alone, mixed>>
          /\ \A u \in Tasks : Works(u)' <=> Works(u)
      BY <2>3, FillMeans DEF host_, hist_
    <3>2. \A u \in Tasks : Taken(u)' <=> Taken(u)
      BY <3>1 DEF Taken, Busy, Works
    <3> QED
      BY <3>1, <3>2, StillMirrors
  <2>4. CASE RenameTmp(t)
    BY <2>4, RenameMirrors
  <2> QED
    BY <1>2, <2>1, <2>2, <2>3, <2>4, StepShapes
<1>3. ASSUME NEW t \in Tasks, NEW op \in Ops, Begin(t, op) PROVE Mirrors'
  BY <1>3, BeginMirrors
<1>4. CASE ServerDies
  <2> DEFINE T == {u \in Tasks : handler[u] # NoHandler}
  <2>1. /\ UNCHANGED <<host, want, alone>> /\ \A u \in Tasks : handler'[u] = NoHandler
        /\ Abandon(T) /\ mixed \subseteq mixed'
    BY <1>4 DEF ServerDies, host_
  <2>2. \A u \in Tasks : (Works(u)' => Works(u)) /\ (u \notin T => (Works(u)' <=> Works(u)))
    BY <2>1 DEF Works
  <2> QED
    BY <2>1, <2>2, AbandonMirrors
<1>5. CASE WindowCloses
  <2>1. PICK T \in SUBSET Tasks : Abandon(T)
    BY <1>5 DEF WindowCloses
  <2>2. UNCHANGED <<host, want, alone, mixed, handler>>
    BY <1>5 DEF WindowCloses, host_
  <2> QED
    BY <2>1, <2>2, AbandonMirrors DEF Works
<1>6. CASE ManagerEdits
  BY <1>6, ManagerMirrors
<1> QED
  BY <1>1, <1>2, <1>3, <1>4, <1>5, <1>6 DEF Usual

-----------------------------------------------------------------------------
(* The rest of the variables, and the start *)

Rest ==
  /\ server \in {"down", "rewrite", "cut", "up"} /\ mixed \subseteq Stores /\ stale \subseteq Aspects
  /\ DOMAIN exports \subseteq Ids /\ unit \in {None, "silent", "gui"} /\ enabled \in BOOLEAN

\* A step of a command disturbs only the aspects it is about and the store it writes.
LEMMA StepRest ==
  ASSUME Typed, Work, Rest, NEW t \in Tasks, Step(t)
  PROVE  server' = server /\ mixed' \subseteq Stores /\ stale' \subseteq Aspects
<1>1. CASE Goes(t)
  BY <1>1 DEF Goes, Orders, Rest, Aspects
<1>2. CASE OpenPt(t) \/ OpenCj(t) \/ OpenReg(t)
  <2>1. Opens(t) /\ \E s \in Stores : \E new, key : OpenTmp(t, s, new, key)
    <3>1. CASE OpenCj(t)
      <4>1. PICK key : \E v : OpenTmp(t, "cj", [Seen("cj") EXCEPT ![key] = v], key)
        BY <3>1 DEF OpenCj
      <4> QED
        BY <3>1, <4>1 DEF OpenCj, Stores
    <3> QED
      BY <1>2, <3>1 DEF OpenPt, OpenReg, Stores
  <2>2. PICK s \in Stores : \E new, key : mixed' = IF Writers(s) = {} THEN mixed ELSE mixed \cup {s}
    BY <2>1 DEF OpenTmp
  <2> QED
    BY <2>1, <2>2 DEF Opens, Unmoved, Rest
<1>3. CASE Fill(t)
  BY <1>3, FillMeans DEF hist_, Rest
<1>4. CASE RenameTmp(t)
  BY <1>4, RenameMeans, RenameTasks DEF Rest, Aspects
<1> QED
  BY <1>1, <1>2, <1>3, <1>4, StepShapes

LEMMA StepHost ==
  ASSUME Typed, Work, Rest, NEW t \in Tasks, Step(t)
  PROVE  DOMAIN exports' \subseteq Ids /\ unit' \in {None, "silent", "gui"} /\ enabled' \in BOOLEAN
<1> USE DEF host_, hostOnly_
<1>1. ASSUME Busy(t) PROVE Op(t) \in Ops /\ Belongs(Op(t), task[t].todo)
  BY <1>1, BusyMeans
<1>2. CASE Install(t)
  <2>1. Busy(t) /\ Head(task[t].todo) = "install" /\ UNCHANGED <<exports, enabled>> /\ unit' = Op(t).mode
    BY <1>2 DEF Install, At
  <2>2. Op(t).mode \in {"silent", "gui"}
    BY <1>1, <2>1, OpsKinds DEF Belongs
  <2> QED
    BY <2>1, <2>2 DEF Rest
<1>3. CASE Unlink(t) \/ Enable(t) \/ Disable(t) \/ Reload(t)
  BY <1>3 DEF Unlink, Enable, Disable, Reload, Rest
<1>4. CASE Export(t)
  <2>1. Busy(t) /\ Head(task[t].todo) = "export" /\ UNCHANGED <<unit, enabled>>
        /\ \E v : exports' = With(exports, Op(t).id, v)
    BY <1>4 DEF Export, At
  <2>2. Op(t).id \in Ids
    BY <1>1, <2>1, OpsKinds DEF Belongs
  <2> QED
    BY <2>1, <2>2 DEF Rest, With
<1>5. CASE Revoke(t) \/ Clean(t)
  <2>1. UNCHANGED <<unit, enabled>> /\ \E id : exports' = Without(exports, id)
    BY <1>5 DEF Revoke, Clean, Unexport
  <2> QED
    BY <2>1 DEF Rest, Without, Restrict
<1>6. CASE ReadList(t) \/ SetList(t) \/ SetIcon(t) \/ SetName(t) \/ Scan(t) \/ Resolve(t) \/ NoServer(t)
           \/ SetHostIcon(t) \/ ReadHostIcon(t)
  BY <1>6 DEF ReadList, SetList, SetIcon, SetName, SetKey, Scan, Resolve, NoServer, SetHostIcon, ReadHostIcon, Rest
<1>7. CASE Fill(t) \/ RenameTmp(t)
  BY <1>7, FillMeans, RenameMeans DEF Rest
<1> QED
  BY <1>2, <1>3, <1>4, <1>5, <1>6, <1>7 DEF Step

LEMMA RestKept ==
  ASSUME Typed, Work, Rest, [Usual]_vars
  PROVE  Rest'
<1> USE DEF host_, hist_
<1>1. CASE StartServer \/ RewriteBegin \/ RewriteEnd \/ PackagesChange \/ UNCHANGED vars
  BY <1>1 DEF StartServer, RewriteBegin, RewriteEnd, PackagesChange, vars, Rest
<1>2. ASSUME NEW t \in Tasks, Step(t) PROVE Rest'
  BY <1>2, StepRest, StepHost DEF Rest
<1>3. ASSUME NEW t \in Tasks, NEW op \in Ops, Begin(t, op) PROVE Rest'
  <2>1. stale' \subseteq stale \cup {Aspect(op)} /\ UNCHANGED <<server, mixed, host_>>
    BY <1>3 DEF Begin
  <2> QED
    BY <2>1, AspectOf DEF Rest
<1>4. ASSUME NEW T \in SUBSET Tasks, Abandon(T) PROVE stale' \subseteq stale \cup {"icon"}
  BY <1>4, AbandonMeans
<1>5. CASE ServerDies
  <2>1. server' = "down" /\ mixed' \subseteq mixed \cup {"pt"} /\ UNCHANGED host_
    BY <1>5 DEF ServerDies
  <2>2. stale' \subseteq stale \cup {"icon"}
    BY <1>4, <1>5 DEF ServerDies
  <2> QED
    BY <2>1, <2>2 DEF Rest, Aspects, Stores
<1>6. CASE WindowCloses
  <2>1. UNCHANGED <<server, mixed, host_>>
    BY <1>6 DEF WindowCloses
  <2>2. stale' \subseteq stale \cup {"icon"}
    BY <1>4, <1>6 DEF WindowCloses
  <2> QED
    BY <2>1, <2>2 DEF Rest, Aspects
<1>7. CASE ManagerEdits
  BY <1>7 DEF ManagerEdits, Rest, Aspects
<1> QED
  BY <1>1, <1>2, <1>3, <1>5, <1>6, <1>7 DEF Usual

-----------------------------------------------------------------------------
(* Requests sent again, given up, and read late *)

\* What is left to do alone changes.
LEMMA TodoSet ==
  ASSUME NEW r \in TaskRec, NEW q, NEW e, e = [r EXCEPT !.todo = q]
  PROVE  e = [todo |-> q, op |-> r.op, conn |-> r.conn, saves |-> r.saves]
<1>1. [r EXCEPT !.todo = q] = [todo |-> q, op |-> r.op, conn |-> r.conn, saves |-> r.saves]
  BY DEF TaskRec
<1> QED
  BY <1>1

\* No other step adds to the late requests, and a store that two handlers wrote at once stays one.
LEMMA UsualLates ==
  ASSUME Typed, Work, Lates, [Usual]_vars
  PROVE  Lates'
<1> USE DEF rest_
<1>1. late' \subseteq late
  <2>1. ASSUME NEW t \in Tasks, Step(t) PROVE late' = late
    <3>1. CASE RenameTmp(t) \/ Fill(t)
      BY <3>1 DEF RenameTmp, Fill
    <3>2. CASE ReadList(t) \/ SetList(t) \/ Scan(t) \/ Resolve(t) \/ NoServer(t)
      BY <3>2 DEF ReadList, SetList, Scan, Resolve, NoServer
    <3>4. CASE SetIcon(t) \/ SetName(t)
      BY <3>4 DEF SetIcon, SetName, SetKey
    <3>3. CASE SetHostIcon(t) \/ ReadHostIcon(t) \/ Install(t) \/ Unlink(t) \/ Enable(t) \/ Disable(t) \/ Reload(t)
               \/ Export(t) \/ Revoke(t) \/ Clean(t)
      BY <3>3 DEF SetHostIcon, ReadHostIcon, Install, Unlink, Enable, Disable, Reload, Export, Revoke, Clean,
                  Unexport, hostOnly_
    <3> QED
      BY <2>1, <3>1, <3>2, <3>3, <3>4 DEF Step
  <2>2. ASSUME NEW t \in Tasks, NEW op \in Ops, Begin(t, op) PROVE late' = late
    BY <2>2 DEF Begin
  <2>3. CASE ServerDies
    BY <2>3 DEF ServerDies
  <2>4. CASE StartServer \/ RewriteBegin \/ RewriteEnd \/ WindowCloses \/ PackagesChange \/ ManagerEdits \/ UNCHANGED vars
    BY <2>4 DEF StartServer, RewriteBegin, RewriteEnd, WindowCloses, PackagesChange, ManagerEdits, vars
  <2> QED
    BY <2>1, <2>2, <2>3, <2>4 DEF Usual
<1>2. mixed \subseteq mixed'
  <2>1. ASSUME NEW t \in Tasks, Step(t) PROVE mixed \subseteq mixed'
    <3>1. CASE Goes(t)
      BY <3>1 DEF Goes
    <3>2. CASE OpenPt(t) \/ OpenCj(t) \/ OpenReg(t)
      <4>1. PICK s \in Stores : \E new, key : OpenTmp(t, s, new, key)
        BY <3>2 DEF OpenPt, OpenCj, OpenReg, Stores
      <4> QED
        BY <4>1 DEF OpenTmp
    <3>3. CASE Fill(t)
      BY <3>3, FillMeans DEF hist_
    <3>4. CASE RenameTmp(t)
      BY <3>4, RenameMeans
    <3> QED
      BY <2>1, <3>1, <3>2, <3>3, <3>4, StepShapes
  <2>2. ASSUME NEW t \in Tasks, NEW op \in Ops, Begin(t, op) PROVE mixed' = mixed
    BY <2>2 DEF Begin
  <2>3. CASE ServerDies
    BY <2>3 DEF ServerDies
  <2>4. CASE StartServer \/ RewriteBegin \/ RewriteEnd \/ WindowCloses \/ PackagesChange \/ ManagerEdits \/ UNCHANGED vars
    BY <2>4 DEF StartServer, RewriteBegin, RewriteEnd, WindowCloses, PackagesChange, ManagerEdits, vars, hist_
  <2> QED
    BY <2>1, <2>2, <2>3, <2>4 DEF Usual
<1> QED
  BY <1>1, <1>2 DEF Lates

LEMMA UsualIInv ==
  ASSUME IInv, Rest, [Usual]_vars
  PROVE  IInv' /\ Rest'
<1>1. installed \subseteq Scanned
  BY DEF IInv, Lists
<1> QED
  BY <1>1, TypedKept, WorkKept, CompanyKept, WritesKept, KeptKept, BootsKept, MirrorsKept, ListsKept, RestKept,
     UsualLates DEF IInv

\* The request a command waits with is one of those.
LEMMA RequestLate ==
  ASSUME Typed, Work, Kept, NEW t \in Tasks, Waits(t), ~At(t, "list")
  PROVE  Late(Request(t)) /\ ("pt" \notin mixed /\ Request(t).store = "pt" => Fresh(Request(t).new))
<1>1. Busy(t) /\ Head(task[t].todo) \in {"set", "cjicon", "cjname", "scan"} /\ Op(t) \in Ops /\ task[t].conn \in Nat
      /\ Belongs(Op(t), task[t].todo)
  <2>1. Busy(t) /\ Head(task[t].todo) \in {"set", "cjicon", "cjname", "scan"}
    BY DEF Waits, At
  <2>2. task[t].conn \in Nat
    <3>1. task[t] \in TaskRec
      BY SlotTyped
    <3> QED
      BY <3>1 DEF TaskRec
  <2> QED
    BY <2>1, <2>2, BusyMeans
<1>2. CASE Head(task[t].todo) = "set"
  <2>0. ~At(t, "cjicon") /\ ~At(t, "cjname") /\ ~At(t, "scan")
    BY <1>2 DEF At
  <2>1. At(t, "set") /\ task[t].saves \in PtFiles /\ Aspect(Op(t)) = "pt"
    BY <1>1, <1>2 DEF Work, Slot, At, Belongs
  <2>2. "pt" \notin mixed => Fresh(task[t].saves)
    BY <2>1 DEF Kept, Read, Pending, Current
  <2>3. Request(t) = RequestFor(t, "pt", "all", task[t].saves)
    BY <2>0, <2>1 DEF Request
  <2>4. Request(t).store = "pt" /\ Request(t).key = "all" /\ Request(t).conn = task[t].conn /\ Request(t).new = task[t].saves /\ Request(t).op = Op(t)
    BY <2>3 DEF RequestFor
  <2> QED
    BY <1>1, <2>1, <2>2, <2>4 DEF Late, Stores
<1>3. CASE Head(task[t].todo) = "cjicon"
  <2>0. ~At(t, "set") /\ ~At(t, "cjname") /\ ~At(t, "scan")
    BY <1>3 DEF At
  <2>1. At(t, "cjicon") /\ Aspect(Op(t)) = "icon"
    BY <1>1, <1>3 DEF At, Belongs
  <2>2. Op(t).kind \in {"entry", "shortcut", "reexport"}
    BY <1>1, <2>1, AspectOf
  <2>3. IconOf(t) \in Paths
    <3>1. Op(t).kind = "reexport" => task[t].saves \in Paths
      BY <2>1 DEF Work, Slot
    <3>2. Op(t).kind # "reexport" => Op(t).icon \in Paths
      BY <1>1, <2>2, OpsKinds DEF Paths
    <3> QED
      BY <3>1, <3>2 DEF IconOf
  <2>4. Request(t) = RequestFor(t, "cj", "icon", IconOf(t))
    BY <2>0, <2>1 DEF Request
  <2>5. Request(t).store = "cj" /\ Request(t).key = "icon" /\ Request(t).conn = task[t].conn /\ Request(t).new = IconOf(t) /\ Request(t).op = Op(t)
    BY <2>4 DEF RequestFor
  <2> QED
    BY <1>1, <2>1, <2>3, <2>5 DEF Late, Stores
<1>4. CASE Head(task[t].todo) = "cjname"
  <2>1. At(t, "cjname") /\ ~At(t, "set") /\ ~At(t, "cjicon") /\ ~At(t, "scan")
    BY <1>1, <1>4 DEF At
  <2>2. Op(t).name \in Icons \cup {None} /\ Op(t).kind \in {"name", "shortcut", "reexport"}
    BY <1>1, <1>4, OpsKinds DEF Belongs
  <2>3. Request(t) = RequestFor(t, "cj", "name", Op(t).name)
    BY <2>1 DEF Request
  <2>4. Request(t).store = "cj" /\ Request(t).key = "name" /\ Request(t).conn = task[t].conn /\ Request(t).new = Op(t).name /\ Request(t).op = Op(t)
    BY <2>3 DEF RequestFor
  <2>5. Aspect(Op(t)) \in {"icon", "name"}
    BY <1>1, <2>2, AspectOf
  <2> QED
    BY <1>1, <2>2, <2>4, <2>5 DEF Late, Stores
<1>5. CASE Head(task[t].todo) = "scan"
  <2>1. At(t, "scan") /\ ~At(t, "set") /\ ~At(t, "cjicon") /\ ~At(t, "cjname")
    BY <1>1, <1>5 DEF At
  <2>2. Op(t).kind = "scan"
    BY <1>1, <1>5 DEF Belongs
  <2>3. Request(t) = RequestFor(t, "reg", "all", None)
    BY <2>1 DEF Request
  <2>4. Request(t).store = "reg" /\ Request(t).key = "all" /\ Request(t).conn = task[t].conn /\ Request(t).op = Op(t)
    BY <2>3 DEF RequestFor
  <2>5. Aspect(Op(t)) = "reg"
    BY <1>1, <2>2, AspectOf
  <2> QED
    BY <1>1, <2>4, <2>5 DEF Late, Stores
<1> QED
  BY <1>1, <1>2, <1>3, <1>4, <1>5

\* What a step may do to the commands about the icon: those it touches are not alone.
LEMMA MovedMirrors ==
  ASSUME Mirrors, NEW T \in SUBSET Tasks, host' = host, want'["cj"] = want["cj"], mixed \subseteq mixed', stale \subseteq stale',
         \A u \in Tasks \ T : /\ task'[u].todo = task[u].todo /\ task'[u].op = task[u].op /\ task'[u].saves = task[u].saves
                              /\ Taken(u)' <=> Taken(u)
                              /\ alone'[u] => alone[u],
         \A u \in T : ~alone'[u] /\ (Holds(u, "icon") \/ Holds(u, "icon")' => "icon" \in stale')
  PROVE  Mirrors'
<1> SUFFICES ASSUME mixed' = {}
             PROVE  /\ "icon" \in stale' \/ Agree' \/ \E t \in Tasks : Holds(t, "icon")'
                    /\ \A t \in Tasks : MirrorOf(t)'
  BY DEF Mirrors
<1>1. mixed = {}
  OBVIOUS
<1>2. ASSUME NEW u \in Tasks \ T PROVE MirrorOf(u)' /\ (Holds(u, "icon")' <=> Holds(u, "icon"))
  <2>1. MirrorOf(u)
    BY <1>1 DEF Mirrors
  <2>2. MirrorOf(u)'
    BY <2>1, MirrorFrame
  <2> QED
    BY <2>2 DEF Holds, Op, Aspect
<1>3. \A u \in T : MirrorOf(u)'
  BY DEF MirrorOf
<1>4. Agree' <=> Agree
  BY DEF Agree
<1>5. ASSUME "icon" \notin stale', ~Agree PROVE \E t \in Tasks : Holds(t, "icon")'
  <2>1. PICK t \in Tasks : Holds(t, "icon")
    BY <1>1, <1>5 DEF Mirrors
  <2>2. t \notin T
    BY <1>5, <2>1
  <2> QED
    BY <1>2, <2>1, <2>2
<1> QED
  BY <1>2, <1>3, <1>4, <1>5

\* A request goes out again over another connection: nothing but the connection changes.
LEMMA UnreadKeeps ==
  ASSUME IInv, Rest, UNCHANGED <<disk_, server, handler, host_, apps_, hist_>>, conn' \in Nat, task' \in [Tasks -> TaskRec],
         \A u \in Tasks : task'[u].todo = task[u].todo /\ task'[u].op = task[u].op /\ task'[u].saves = task[u].saves,
         Lates'
  PROVE  IInv' /\ Rest'
<1> USE DEF disk_, host_, apps_, hist_
<1>1. ASSUME NEW u \in Tasks
      PROVE  (Busy(u)' <=> Busy(u)) /\ Op(u)' = Op(u) /\ (Works(u)' <=> Works(u)) /\ (Taken(u)' <=> Taken(u))
  BY DEF Busy, Op, Works, Taken
<1>2. Typed'
  BY DEF IInv, Typed, Contents
<1>3. Work'
  <2> SUFFICES ASSUME NEW u \in Tasks PROVE Slot(u)' /\ Serves(u)'
    BY DEF Work
  <2>1. Slot(u) /\ Serves(u)
    BY DEF IInv, Work
  <2> QED
    BY <1>1, <2>1, SlotFrame, ServesFrame
<1>4. Company'
  <2>1. Calm
    BY <1>1 DEF Calm
  <2> QED
    BY <2>1, CalmCompany DEF IInv
<1>5. Writes'
  BY StillWrites DEF IInv
<1>6. Kept'
  BY StillKept DEF IInv
<1>7. Boots'
  BY BootsFrame DEF IInv
<1>8. Mirrors'
  <2>1. \A u \in Tasks \ {} : /\ task'[u].todo = task[u].todo /\ task'[u].op = task[u].op /\ task'[u].saves = task[u].saves
                              /\ Taken(u)' <=> Taken(u)
                              /\ alone'[u] => alone[u]
    BY <1>1
  <2>2. \A u \in {} : ~alone'[u] /\ (Holds(u, "icon") \/ Holds(u, "icon")' => "icon" \in stale')
    OBVIOUS
  <2>3. {} \in SUBSET Tasks /\ host' = host /\ want'["cj"] = want["cj"] /\ mixed \subseteq mixed' /\ stale \subseteq stale'
        /\ Mirrors
    BY DEF IInv
  <2> QED
    BY <2>1, <2>2, <2>3, MovedMirrors
<1>9. Lists'
  <2>1. Seen("reg")' = Seen("reg")
    BY SeenFrame
  <2> QED
    BY <2>1 DEF IInv, Lists, Works
<1>10. Rest'
  BY DEF Rest
<1> QED
  BY <1>2, <1>3, <1>4, <1>5, <1>6, <1>7, <1>8, <1>9, <1>10 DEF IInv

\* A slot's record with another connection.
LEMMA ConnExcept ==
  ASSUME NEW r \in TaskRec, NEW c \in Nat
  PROVE  /\ [r EXCEPT !.conn = c] = [todo |-> r.todo, op |-> r.op, conn |-> c, saves |-> r.saves]
         /\ [r EXCEPT !.conn = c] \in TaskRec
BY DEF TaskRec

\* The handler at work finishes for nobody, and the command goes on in another slot, of neither of which
\* it can be said that they run alone.
LEMMA ReadKeeps ==
  ASSUME IInv, Rest, NEW t \in Tasks, NEW u \in Tasks, SendRead(t, u), conn' = conn + 1,
         UNCHANGED <<disk_, server, host_, apps_, want, mixed>>, Lates'
  PROVE  IInv' /\ Rest'
<1> USE DEF disk_, host_, apps_, IInv
<1>1. Busy(t) /\ server = "up" /\ Works(t) /\ ~Taken(u) /\ u # t /\ Taken(t) /\ ~Works(u)
  BY DEF SendRead, Waits, Works, Taken
<1>2. /\ handler' = handler /\ alone' = [v \in Tasks |-> alone[v] /\ v \notin {t, u}]
      /\ stale' = stale \cup {Aspect(Op(t))}
  BY DEF SendRead
<1>3. task \in [Tasks -> TaskRec] /\ conn \in Nat /\ task[t] \in TaskRec /\ conn + 1 \in Nat
  BY DEF Typed
<1>4. PICK r : r = [task[t] EXCEPT !.conn = conn + 1]
  OBVIOUS
<1>5. r \in TaskRec /\ r.todo = task[t].todo /\ r.op = task[t].op /\ r.saves = task[t].saves
  <2>1. /\ r = [todo |-> task[t].todo, op |-> task[t].op, conn |-> conn + 1, saves |-> task[t].saves]
        /\ r \in TaskRec
    BY <1>3, <1>4, ConnExcept
  <2> QED
    BY <2>1
<1>6. PICK e : e = [task[t] EXCEPT !.todo = <<>>]
  OBVIOUS
<1>7. e \in TaskRec /\ e.todo = <<>> /\ e.op = task[t].op /\ e.saves = task[t].saves
  <2>1. <<>> \in Todos
    BY DEF Todos
  <2>2. e \in TaskRec
    BY <1>3, <1>6, <2>1, TodoMade
  <2>3. e = [todo |-> <<>>, op |-> task[t].op, conn |-> task[t].conn, saves |-> task[t].saves]
    BY <1>3, <1>6, TodoSet
  <2> QED
    BY <2>2, <2>3
<1>8. task' = [task EXCEPT ![u] = r, ![t] = e]
  BY <1>1, <1>3, <1>4, <1>6 DEF SendRead
<1>9. /\ task' \in [Tasks -> TaskRec] /\ task'[u] = r /\ task'[t] = e
      /\ \A v \in Tasks \ {t, u} : task'[v] = task[v]
  BY <1>1, <1>3, <1>5, <1>7, <1>8
<1>10. /\ ~Busy(t)' /\ Busy(u)' /\ Op(t)' = Op(t) /\ Op(u)' = Op(t) /\ Taken(t)' /\ Taken(u)'
  BY <1>1, <1>2, <1>5, <1>7, <1>9 DEF Busy, Op, Taken, Works
<1>11. \A v \in Tasks \ {t, u} : (Busy(v)' <=> Busy(v)) /\ Op(v)' = Op(v) /\ (Taken(v)' <=> Taken(v))
  BY <1>2, <1>9 DEF Busy, Op, Taken
<1>12. Typed'
  <2>1. alone' \in [Tasks -> BOOLEAN]
    BY <1>2 DEF Typed
  <2> QED
    BY <1>2, <1>3, <1>9, <2>1 DEF Typed, Contents
<1>13. Work'
  <2>1. Slot(t)' /\ Serves(t)'
    BY <1>2, <1>7, <1>9, SlotEnds, ServesEnds DEF Work
  <2>2. Slot(u)' /\ Serves(u)'
    <3>1. Slot(t)
      BY DEF Work
    <3>2. Slot(u)'
      BY <1>1, <1>5, <1>9, <1>10, <3>1 DEF Slot, At
    <3> QED
      BY <1>1, <1>2, <3>2 DEF Serves, Works
  <2>3. ASSUME NEW v \in Tasks \ {t, u} PROVE Slot(v)' /\ Serves(v)'
    <3>1. Slot(v) /\ Serves(v) /\ task'[v] = task[v]
      BY <1>9 DEF Work
    <3> QED
      BY <1>2, <3>1, SlotFrame, ServesFrame DEF Works
  <2> QED
    BY <2>1, <2>2, <2>3 DEF Work
<1>14. Company'
  <2>1. ASSUME NEW v \in Tasks, NEW w \in Tasks, v # w, Taken(v)', Taken(w)', Aspect(Op(v))' = Aspect(Op(w))'
        PROVE  ~alone'[v]
    <3>1. CASE v \in {t, u}
      BY <1>2, <3>1
    <3>2. CASE v \notin {t, u}
      <4>1. Taken(v)
        BY <1>11, <2>1, <3>2
      <4>2. \E x \in Tasks : x # v /\ Taken(x) /\ Aspect(Op(x)) = Aspect(Op(v))
        <5>1. CASE w \in {t, u}
          BY <1>1, <1>10, <1>11, <2>1, <3>2, <5>1
        <5>2. CASE w \notin {t, u}
          BY <1>11, <2>1, <3>2, <5>2
        <5> QED
          BY <5>1, <5>2
      <4>3. ~alone[v]
        BY <4>1, <4>2 DEF Company
      <4> QED
        BY <1>2, <4>3
    <3> QED
      BY <3>1, <3>2
  <2>2. ASSUME NEW v \in Tasks, Taken(v)', ~alone'[v] PROVE Aspect(Op(v))' \in stale'
    <3>1. CASE v \in {t, u}
      BY <1>2, <1>10, <3>1
    <3>2. CASE v \notin {t, u}
      <4>1. Taken(v) /\ ~alone[v] /\ Op(v)' = Op(v)
        BY <1>2, <1>11, <2>2, <3>2
      <4> QED
        BY <1>2, <4>1 DEF Company
    <3> QED
      BY <3>1, <3>2
  <2> QED
    BY <2>1, <2>2 DEF Company
<1>15. Writes'
  <2>1. Writes /\ tmp' = tmp /\ \A v \in Tasks : Works(v) /\ alone'[v] => alone[v]
    BY <1>2
  <2> QED
    BY <1>2, <2>1, StillWrites
<1>16. Kept'
  <2>1. ASSUME NEW v \in Tasks
        PROVE  /\ task'[v].op = task[v].op \/ ~Works(v)'
               /\ Busy(v)' => \/ /\ task'[v].todo = task[v].todo /\ task'[v].op = task[v].op /\ task'[v].saves = task[v].saves
                                 /\ alone'[v] => alone[v]
                              \/ ~Pending(v)'
                              \/ ~alone'[v] /\ \E w \in Tasks : Pending(w) /\ task'[v].saves = task[w].saves
               /\ Works(v) => (alone'[v] => alone[v])
               /\ Works(v)' => handler'[v] = handler[v]
    <3>1. CASE v = t
      BY <1>2, <1>7, <1>9, <1>10, <3>1
    <3>2. CASE v = u
      <4>1. ~Works(v)' /\ ~alone'[v] /\ ~Works(v)
        BY <1>1, <1>2, <3>2 DEF Works
      <4>2. Pending(u)' => Pending(t)
        BY <1>1, <1>5, <1>9 DEF Pending, At
      <4>3. task'[u].saves = task[t].saves
        BY <1>5, <1>9
      <4> QED
        BY <3>2, <4>1, <4>2, <4>3
    <3>3. CASE v \notin {t, u}
      BY <1>2, <1>9, <3>3
    <3> QED
      BY <3>1, <3>2, <3>3
  <2> QED
    BY <2>1, StillKept
<1>17. Boots'
  <2>1. \A v \in Tasks : Busy(v)' => \/ /\ task'[v].todo = task[v].todo /\ task'[v].op = task[v].op /\ task'[v].saves = task[v].saves
                                        /\ alone'[v] => alone[v]
                                     \/ ~alone'[v]
    BY <1>2, <1>9
  <2> QED
    BY <1>2, <2>1, BootsFrame
<1>18. Mirrors'
  <2>1. \A v \in Tasks \ {t, u} : /\ task'[v].todo = task[v].todo /\ task'[v].op = task[v].op /\ task'[v].saves = task[v].saves
                                  /\ Taken(v)' <=> Taken(v)
                                  /\ alone'[v] => alone[v]
    BY <1>2, <1>9, <1>11
  <2>2. \A v \in {t, u} : ~alone'[v] /\ (Holds(v, "icon") \/ Holds(v, "icon")' => "icon" \in stale')
    BY <1>1, <1>2, <1>10 DEF Holds
  <2>3. {t, u} \in SUBSET Tasks /\ host' = host /\ want'["cj"] = want["cj"] /\ mixed \subseteq mixed' /\ stale \subseteq stale'
        /\ Mirrors
    BY <1>2
  <2> QED
    BY <2>1, <2>2, <2>3, MovedMirrors
<1>19. Lists'
  <2>1. Seen("reg")' = Seen("reg")
    BY SeenFrame
  <2> QED
    BY <1>2, <2>1 DEF Lists, Works
<1>20. Rest'
  <2>1. Op(t) \in Ops
    BY <1>1, BusyMeans
  <2>2. Aspect(Op(t)) \in Aspects
    BY <2>1, AspectOf
  <2> QED
    BY <1>2, <2>2 DEF Rest
<1> QED
  BY <1>12, <1>13, <1>14, <1>15, <1>16, <1>17, <1>18, <1>19, <1>20

\* A request is sent again.
LEMMA SentIInv ==
  ASSUME IInv, Rest, NEW t \in Tasks, SendAgain(t)
  PROVE  IInv' /\ Rest'
<1>1. conn' = conn + 1 /\ UNCHANGED <<disk_, server, host_, apps_, want, mixed>>
  BY DEF SendAgain
<1>2. task \in [Tasks -> TaskRec] /\ conn \in Nat /\ task[t] \in TaskRec /\ conn + 1 \in Nat
  BY DEF IInv, Typed
<1>3. CASE SendUnread(t)
  <2>1. /\ late' = late \cup Requests(t) /\ UNCHANGED <<handler, alone, stale>> /\ Waits(t)
        /\ task' = [task EXCEPT ![t].conn = conn + 1]
    BY <1>3 DEF SendUnread
  <2>2. Lates'
    <3>1. \A q \in Requests(t) : Late(q) /\ ("pt" \notin mixed /\ q.store = "pt" => Fresh(q.new))
      BY <2>1, RequestLate DEF Requests, IInv
    <3>2. \A q \in late' : Late(q) /\ ("pt" \notin mixed /\ q.store = "pt" => Fresh(q.new))
      BY <2>1, <3>1 DEF IInv, Lates
    <3> QED
      BY <1>1, <3>2 DEF Lates
  <2>3. PICK r : r = [task[t] EXCEPT !.conn = conn + 1]
    OBVIOUS
  <2>4. r \in TaskRec /\ r.todo = task[t].todo /\ r.op = task[t].op /\ r.saves = task[t].saves
    <3>1. /\ r = [todo |-> task[t].todo, op |-> task[t].op, conn |-> conn + 1, saves |-> task[t].saves]
          /\ r \in TaskRec
      BY <1>2, <2>3, ConnExcept
    <3> QED
      BY <3>1
  <2>5. task' = [task EXCEPT ![t] = r]
    BY <1>2, <2>1, <2>3
  <2>6. /\ task' \in [Tasks -> TaskRec] /\ task'[t] = r
        /\ \A v \in Tasks \ {t} : task'[v] = task[v]
    BY <1>2, <2>4, <2>5
  <2>7. \A v \in Tasks : task'[v].todo = task[v].todo /\ task'[v].op = task[v].op /\ task'[v].saves = task[v].saves
    BY <2>4, <2>6
  <2>8. UNCHANGED <<disk_, server, handler, host_, apps_, hist_>> /\ conn' \in Nat
    BY <1>1, <1>2, <2>1 DEF hist_
  <2> QED
    BY <2>2, <2>6, <2>7, <2>8, UnreadKeeps
<1>4. ASSUME NEW u \in Tasks, SendRead(t, u) PROVE IInv' /\ Rest'
  <2>1. late' = late
    BY <1>4 DEF SendRead
  <2>2. Lates'
    BY <1>1, <2>1 DEF IInv, Lates
  <2> QED
    BY <1>1, <1>4, <2>2, ReadKeeps
<1> QED
  BY <1>3, <1>4 DEF SendAgain

\* A request is given up.
LEMMA GivenIInv ==
  ASSUME IInv, Rest, NEW t \in Tasks, GiveUp(t)
  PROVE  IInv' /\ Rest'
<1> USE DEF disk_, host_, apps_, IInv
<1>1. Waits(t) /\ Abandon({t}) /\ UNCHANGED <<disk_, server, handler, conn, host_, apps_, want, alone, mixed>>
  BY DEF GiveUp
<1>2. {t} \in SUBSET Tasks /\ task' \in [Tasks -> TaskRec]
  BY <1>1, AbandonTyped
<1>3. /\ \A u \in Tasks : task'[u].op = task[u].op /\ (Busy(u)' => task'[u] = task[u])
      /\ stale \subseteq stale' /\ stale' \subseteq stale \cup {"icon"}
  BY <1>1, AbandonMeans DEF Busy
<1>4. Typed'
  BY <1>1, <1>2 DEF Typed, Contents
<1>5. Work'
  BY <1>1, AbandonWork
<1>6. Company'
  <2>1. Calm
    BY <1>1, AbandonCalm DEF Works
  <2> QED
    BY <2>1, CalmCompany
<1>7. Writes'
  BY <1>1, StillWrites
<1>8. Kept'
  BY <1>1, <1>3, StillKept
<1>9. Boots'
  BY <1>1, AbandonBoots
<1>10. Mirrors'
  BY <1>1, AbandonMirrors DEF Works
<1>11. Lists'
  <2>1. Seen("reg")' = Seen("reg")
    BY <1>1, SeenFrame
  <2> QED
    BY <1>1, <1>3, <2>1 DEF Lists, Works
<1>12. Rest'
  BY <1>1, <1>3 DEF Rest, Aspects
<1>13. Lates'
  <2>1. \A q \in late' \ late : Late(q) /\ ("pt" \notin mixed /\ q.store = "pt" => Fresh(q.new))
    BY <1>1, RequestLate DEF GiveUp, Requests
  <2>2. \A q \in late' : Late(q) /\ ("pt" \notin mixed /\ q.store = "pt" => Fresh(q.new))
    BY <2>1 DEF Lates
  <2> QED
    BY <1>1, <2>2 DEF Lates
<1> QED
  BY <1>4, <1>5, <1>6, <1>7, <1>8, <1>9, <1>10, <1>11, <1>12, <1>13

\* The server reads a late request: a handler opens the temporary file for nobody, and what goes on about
\* the same thing is not alone.
LEMMA LateKeeps ==
  ASSUME IInv, Rest, NEW t \in Tasks, NEW q \in late, ReadLate(t, q), q.store # "cj" \/ file["cj"] # Torn, Lates'
  PROVE  IInv' /\ Rest'
<1> USE DEF disk_, host_, apps_, IInv
<1>1. PICK new : new = Text(q)
  OBVIOUS
<1>2. PICK s : s = q.store
  OBVIOUS
<1>3. PICK key : key = q.key
  OBVIOUS
<1>4. /\ OpenTmp(t, s, new, key) /\ server = "up" /\ ~Taken(t)
      /\ task' = [task EXCEPT ![t] = [Idle EXCEPT !.op = q.op, !.conn = q.conn]]
      /\ alone' = [u \in Tasks |-> alone[u] /\ u \notin Same(t, q.op) \cup {t}]
      /\ stale' = stale \cup {Aspect(q.op)}
      /\ UNCHANGED <<file, legacy, text, server, conn, host_, apps_, want>>
  BY <1>1, <1>2, <1>3 DEF ReadLate
<1>5. Late(q) /\ s \in Stores /\ ("pt" \notin mixed /\ s = "pt" => Fresh(q.new))
  BY <1>2 DEF Lates, Late
<1>6. PICK e : e = [Idle EXCEPT !.op = q.op, !.conn = q.conn]
  OBVIOUS
<1>7. e \in TaskRec /\ e.todo = <<>> /\ e.op = q.op
  <2>1. e = [todo |-> <<>>, op |-> q.op, conn |-> q.conn, saves |-> None]
    <3> DEFINE r0 == [todo |-> <<>>, op |-> [kind |-> "none"], conn |-> 0, saves |-> None]
               r1 == [todo |-> <<>>, op |-> q.op, conn |-> 0, saves |-> None]
    <3>1. e = [[r0 EXCEPT !.op = q.op] EXCEPT !.conn = q.conn]
      BY <1>6 DEF Idle
    <3>2. [r0 EXCEPT !.op = q.op] = r1
      OBVIOUS
    <3>3. [r1 EXCEPT !.conn = q.conn] = [todo |-> <<>>, op |-> q.op, conn |-> q.conn, saves |-> None]
      OBVIOUS
    <3> HIDE DEF r0, r1
    <3> QED
      BY <3>1, <3>2, <3>3
  <2>2. q.op \in Ops /\ q.conn \in Nat /\ <<>> \in Todos /\ None \in Paths
    BY <1>5 DEF Late, Todos, Paths
  <2>3. e \in TaskRec
    BY <2>1, <2>2 DEF TaskRec
  <2> QED
    BY <2>1, <2>3
<1>8. /\ task' \in [Tasks -> TaskRec] /\ task'[t] = e /\ \A v \in Tasks \ {t} : task'[v] = task[v]
  <2>1. task \in [Tasks -> TaskRec] /\ task' = [task EXCEPT ![t] = e]
    BY <1>4, <1>6 DEF Typed
  <2> QED
    BY <1>7, <2>1
<1>9. ~Busy(t) /\ ~Works(t) /\ ~Busy(t)' /\ Op(t)' = q.op
  BY <1>4, <1>7, <1>8 DEF Taken, Works, Busy, Op
<1>10. /\ Works(t)' /\ \A u \in Tasks : u # t => handler'[u] = handler[u]
       /\ mixed \subseteq mixed'
  BY <1>4, <1>5, <1>9, OpenMeans
<1>11. handler'[t].store = s /\ handler'[t].new = new /\ handler'[t].key = key
  BY <1>4, <1>5, <1>9, OpenFields
<1>12. \A v \in Tasks \ {t} : (Busy(v)' <=> Busy(v)) /\ Op(v)' = Op(v) /\ (Taken(v)' <=> Taken(v))
  BY <1>8, <1>10 DEF Busy, Op, Taken
<1>13. Taken(t)' /\ ~alone'[t] /\ \A v \in Tasks : alone'[v] => alone[v]
  BY <1>4, <1>10 DEF Taken, Works
<1>14. new \in Contents(s)
  <2>1. CASE s = "pt"
    <3>1. new = q.new /\ q.new \in PtFiles
      BY <1>1, <1>2, <1>5, <2>1 DEF Text, Late
    <3> QED
      BY <2>1, <3>1 DEF Contents
  <2>2. CASE s = "cj"
    <3>1. new = [Seen("cj") EXCEPT ![key] = q.new] /\ key \in {"icon", "name"}
      BY <1>1, <1>2, <1>3, <1>5, <2>2 DEF Text, Late
    <3>2. q.new \in IF key = "icon" THEN Paths ELSE Icons \cup {None}
      BY <1>2, <1>3, <1>5, <2>2 DEF Late
    <3>3. Seen("cj") \in CjFiles
      BY SeenMeans, ContentsMeans DEF Stores
    <3>4. new \in CjFiles
      BY <3>1, <3>2, <3>3, KeyTyped
    <3> QED
      BY <2>2, <3>4 DEF Contents
  <2>3. CASE s = "reg"
    <3>1. new = installed /\ installed \subseteq Scanned
      BY <1>1, <1>2, <2>3 DEF Text, Lists
    <3> QED
      BY <2>3, <3>1 DEF Contents
  <2> QED
    BY <1>5, <2>1, <2>2, <2>3 DEF Stores
<1>15. Work'
  <2>1. Slot(t)'
    BY <1>7, <1>8, SlotEnds
  <2>2. Serves(t)'
    <3>1. (handler[t].new \in Contents(handler[t].store))'
      BY <1>11, <1>14 DEF Contents
    <3>2. ServesPt(t)' /\ ServesReg(t)'
      BY <1>2, <1>5, <1>9, <1>11 DEF ServesPt, ServesReg, Late
    <3>3. ServesCj(t)'
      BY <1>2, <1>3, <1>5, <1>9, <1>11 DEF ServesCj, Late
    <3>4. server' = "up" /\ Op(t)' \in Ops
      BY <1>4, <1>5, <1>9 DEF Late
    <3> QED
      BY <3>1, <3>2, <3>3, <3>4 DEF Serves
  <2>3. ASSUME NEW v \in Tasks \ {t} PROVE Slot(v)' /\ Serves(v)'
    <3>1. Slot(v) /\ Serves(v) /\ task'[v] = task[v] /\ handler'[v] = handler[v] /\ server' = server
      BY <1>4, <1>8, <1>10 DEF Work
    <3> QED
      BY <3>1, SlotFrame, ServesFrame DEF Works
  <2> QED
    BY <2>1, <2>2, <2>3 DEF Work
<1>16. Typed'
  <2>1. alone' \in [Tasks -> BOOLEAN]
    BY <1>4 DEF Typed
  <2>2. key \in {"all", "icon", "name"}
    BY <1>2, <1>3, <1>5 DEF Late
  <2>3. UNCHANGED <<file, legacy, text, conn, want, host>>
    BY <1>4
  <2> QED
    BY <1>4, <1>5, <1>8, <1>9, <1>15, <2>1, <2>2, <2>3, OpenTyped
<1>17. Company'
  <2>1. ASSUME NEW v \in Tasks, NEW w \in Tasks, v # w, Taken(v)', Taken(w)', Aspect(Op(v))' = Aspect(Op(w))'
        PROVE  ~alone'[v]
    <3>1. CASE v = t
      BY <1>13, <3>1
    <3>2. CASE v # t /\ w = t
      <4>1. Taken(v) /\ Aspect(Op(v)) = Aspect(q.op)
        BY <1>9, <1>12, <2>1, <3>2
      <4>2. v \in Same(t, q.op)
        BY <3>2, <4>1 DEF Same
      <4> QED
        BY <1>4, <4>2
    <3>3. CASE v # t /\ w # t
      <4>1. Taken(v) /\ Taken(w) /\ Aspect(Op(v)) = Aspect(Op(w))
        BY <1>12, <2>1, <3>3
      <4>2. ~alone[v]
        BY <2>1, <4>1 DEF Company
      <4> QED
        BY <1>13, <4>2
    <3> QED
      BY <3>1, <3>2, <3>3
  <2>2. ASSUME NEW v \in Tasks, Taken(v)', ~alone'[v] PROVE Aspect(Op(v))' \in stale'
    <3>1. CASE v = t
      BY <1>4, <1>9, <3>1
    <3>2. CASE v # t /\ v \in Same(t, q.op)
      <4>1. Aspect(Op(v)) = Aspect(q.op) /\ Op(v)' = Op(v)
        BY <1>12, <3>2 DEF Same
      <4> QED
        BY <1>4, <4>1
    <3>3. CASE v # t /\ v \notin Same(t, q.op)
      <4>1. Taken(v) /\ ~alone[v] /\ Op(v)' = Op(v)
        BY <1>4, <1>12, <2>2, <3>3
      <4> QED
        BY <1>4, <4>1 DEF Company
    <3> QED
      BY <3>1, <3>2, <3>3
  <2> QED
    BY <2>1, <2>2 DEF Company
<1>18. Writes'
  <2>1. ASSUME s = "reg", NEW u \in Writers(s) PROVE ~alone'[t] /\ ~alone'[u]
    <3>1. u \in Tasks /\ Works(u) /\ handler[u].store = "reg"
      BY <2>1 DEF Writers, Works
    <3>2. Aspect(Op(u)) = "reg" /\ Taken(u) /\ u # t
      BY <1>4, <3>1 DEF Work, Serves, ServesReg, Taken, Works
    <3>3. Aspect(q.op) = "reg"
      BY <1>2, <1>5, <2>1 DEF Late
    <3>4. u \in Same(t, q.op)
      BY <3>1, <3>2, <3>3 DEF Same
    <3>5. alone'[u] = (alone[u] /\ u \notin Same(t, q.op) \cup {t})
      BY <1>4, <3>1
    <3>6. ~alone'[u]
      BY <3>4, <3>5
    <3> QED
      BY <1>13, <3>6
  <2>2. Writes /\ \A u \in Tasks \ {t} : alone'[u] => alone[u]
    BY <1>13
  <2> QED
    BY <1>4, <1>5, <1>9, <2>1, <2>2, OpenWrites
<1>19. Kept'
  <2>1. "pt" \notin mixed' => Sent(t)'
    <3> SUFFICES ASSUME "pt" \notin mixed', s = "pt" PROVE Fresh(new)
      BY <1>11, <1>13 DEF Sent, Current, Fresh
    <3>1. new = q.new
      BY <1>1, <1>2 DEF Text
    <3> QED
      BY <1>5, <1>10, <3>1
  <2>2. "cj" \notin mixed' => Merges(t)'
    <3> SUFFICES ASSUME s = "cj" PROVE new = [Seen("cj")' EXCEPT ![key] = new[key]]
      BY <1>11 DEF Merges
    <3>1. new = [Seen("cj") EXCEPT ![key] = q.new] /\ key \in {"icon", "name"}
      BY <1>1, <1>2, <1>3, <1>5 DEF Text, Late
    <3>2. q.new \in IF key = "icon" THEN Paths ELSE Icons \cup {None}
      BY <1>2, <1>3, <1>5 DEF Late
    <3>3. Seen("cj") \in CjFiles
      BY SeenMeans, ContentsMeans DEF Stores
    <3>4. new[key] = q.new
      BY <3>1, <3>2, <3>3, KeyTyped
    <3>5. Seen("cj")' = Seen("cj")
      BY <1>4, SeenFrame
    <3> QED
      BY <3>1, <3>4, <3>5
  <2>3. \A v \in Tasks : Busy(v)' => /\ task'[v].todo = task[v].todo /\ task'[v].op = task[v].op /\ task'[v].saves = task[v].saves
                                     /\ alone'[v] => alone[v]
    BY <1>8, <1>9, <1>13
  <2>4. \A v \in Tasks \ {t} : task'[v].op = task[v].op /\ (alone'[v] => alone[v])
    BY <1>8, <1>13
  <2>5. UNCHANGED <<file, legacy, text, server, want>> /\ Kept /\ Typed
    BY <1>4
  <2> QED
    BY <1>4, <1>5, <1>9, <2>1, <2>2, <2>3, <2>4, <2>5, OpenFrame
<1>20. Boots'
  <2>1. \A v \in Tasks : Busy(v)' => /\ task'[v].todo = task[v].todo /\ task'[v].op = task[v].op /\ task'[v].saves = task[v].saves
                                     /\ alone'[v] => alone[v]
    BY <1>8, <1>9, <1>13
  <2> QED
    BY <1>4, <2>1, BootsFrame
<1>21. Mirrors'
  <2>1. \A v \in Tasks \ {t} : /\ task'[v].todo = task[v].todo /\ task'[v].op = task[v].op /\ task'[v].saves = task[v].saves
                               /\ Taken(v)' <=> Taken(v)
                               /\ alone'[v] => alone[v]
    BY <1>8, <1>12, <1>13
  <2>2. \A v \in {t} : ~alone'[v] /\ (Holds(v, "icon") \/ Holds(v, "icon")' => "icon" \in stale')
    BY <1>4, <1>9, <1>13 DEF Holds
  <2>3. {t} \in SUBSET Tasks /\ host' = host /\ want'["cj"] = want["cj"] /\ mixed \subseteq mixed' /\ stale \subseteq stale'
        /\ Mirrors
    BY <1>4, <1>10
  <2> QED
    BY <2>1, <2>2, <2>3, MovedMirrors
<1>22. Lists'
  <2>1. Seen("reg")' = Seen("reg")
    BY <1>4, SeenFrame
  <2> QED
    BY <1>4, <1>10, <1>13, <2>1 DEF Lists, Works
<1>23. Rest'
  <2>1. Aspect(q.op) \in Aspects
    BY <1>5, AspectOf DEF Late
  <2>2. mixed' \subseteq mixed \cup {s}
    BY <1>4 DEF OpenTmp
  <2> QED
    BY <1>4, <1>5, <2>1, <2>2 DEF Rest
<1> QED
  BY <1>15, <1>16, <1>17, <1>18, <1>19, <1>20, <1>21, <1>22, <1>23

LEMMA LateIInv ==
  ASSUME IInv, Rest, NEW t \in Tasks, NEW q \in late, ReadLate(t, q)
  PROVE  IInv' /\ Rest'
<1>1. late' \subseteq late /\ mixed \subseteq mixed'
  BY DEF ReadLate, OpenTmp
<1>2. Lates'
  BY <1>1 DEF IInv, Lates
<1>3. CASE q.store # "cj" \/ file["cj"] # Torn
  BY <1>2, <1>3, LateKeeps
<1>4. CASE ~(q.store # "cj" \/ file["cj"] # Torn)
  <2>1. UNCHANGED <<disk_, server, handler, host_, apps_, hist_, conn, task>>
    BY <1>4 DEF ReadLate, disk_, hist_
  <2>2. conn' \in Nat /\ task' \in [Tasks -> TaskRec]
    BY <2>1 DEF IInv, Typed
  <2> QED
    BY <1>2, <2>1, <2>2, UnreadKeeps
<1> QED
  BY <1>3, <1>4
-----------------------------------------------------------------------------
(* The start *)

\* What older versions left has the shape of the files.
LEMMA OldTyped ==
  ASSUME NEW c \in Custom, NEW cmd \in Cmds, NEW i \in {None, OldIcon}
  PROVE  /\ [apps |-> With(<<>>, c, [cmd |-> cmd, auto |-> TRUE, icon |-> i]), pinned |-> With(<<>>, c, cmd)] \in PtFiles
         /\ [icon |-> i, name |-> None] \in CjFiles
<1>1. c \in Ids /\ i \in Paths
  BY DEF Ids, Paths
<1>2. [cmd |-> cmd, auto |-> TRUE, icon |-> i] \in Apps
  BY <1>1 DEF Apps
<1>3. With(<<>>, c, [cmd |-> cmd, auto |-> TRUE, icon |-> i]) \in Maps(Apps)
  BY <1>1, <1>2, Added, EmptyFun
<1>4. With(<<>>, c, cmd) \in Maps(Cmds)
  BY <1>1, Added, EmptyFun
<1> QED
  BY <1>1, <1>3, <1>4, PtMeans DEF CjFiles

LEMMA InitTyped ==
  ASSUME Init
  PROVE  Typed
<1>1. PICK c \in Custom, cmd \in Cmds, i \in {None, OldIcon}, old \in BOOLEAN :
        legacy = [pt |-> IF old THEN [apps |-> With(<<>>, c, [cmd |-> cmd, auto |-> TRUE, icon |-> i]),
                                      pinned |-> With(<<>>, c, cmd)]
                         ELSE NoFile,
                  cj |-> IF old THEN [icon |-> i, name |-> None] ELSE NoFile]
  BY DEF Init
<1>2. legacy = [s \in {"pt", "cj"} |-> legacy[s]]
  BY <1>1
<1>3. legacy["pt"] \in PtFiles \cup {NoFile} /\ legacy["cj"] \in CjFiles \cup {NoFile}
  BY <1>1, OldTyped
<1>4. want = [s \in {"pt", "cj"} |-> IF legacy[s] = NoFile THEN Default[s] ELSE legacy[s]]
  BY DEF Init
<1>5. \A s \in {"pt", "cj"} : legacy[s] \in Contents(s) \cup {NoFile} /\ want[s] \in Contents(s)
  BY <1>3, <1>4, DefaultTyped, ContentsMeans DEF Stores
<1>6. want = [s \in {"pt", "cj"} |-> want[s]]
  BY <1>4
<1>7. host \in Paths
  <2>1. want["cj"] \in CjFiles /\ host = want["cj"].icon
    BY <1>5, ContentsMeans DEF Init
  <2> QED
    BY <2>1, KeySet
<1>8. task \in [Tasks -> TaskRec]
  BY DEF Init, Idle, TaskRec, Todos, Paths
<1>9. /\ file = [s \in Stores |-> file[s]] /\ tmp = [s \in Stores |-> tmp[s]]
      /\ \A s \in Stores : file[s] = NoFile /\ tmp[s] = NoFile
      /\ text = NoFile /\ conn \in Nat /\ handler \in [Tasks -> HandlerRec \cup {NoHandler}]
      /\ alone \in [Tasks -> BOOLEAN]
  BY DEF Init
<1> QED
  BY <1>2, <1>5, <1>6, <1>7, <1>8, <1>9 DEF Typed

LEMMA InitIInv ==
  ASSUME Init
  PROVE  IInv /\ Rest
<1>0. Lates
  BY DEF Init, Lates
<1>1. Typed
  BY InitTyped
<1>2. /\ \A t \in Tasks : ~Busy(t) /\ ~Works(t) /\ ~Taken(t)
      /\ \A s \in Stores : file[s] = NoFile
      /\ \A s \in {"pt", "cj"} : want[s] = IF legacy[s] = NoFile THEN Default[s] ELSE legacy[s]
      /\ server = "down" /\ host = want["cj"].icon /\ stale = {} /\ mixed = {} /\ listed = {} /\ installed \subseteq Scanned
      /\ enabled = FALSE /\ unit = None /\ exports = <<>>
  BY DEF Init, Idle, Busy, Works, Taken
<1>3. Work /\ Company /\ Writes
  BY <1>2 DEF Work, Slot, Serves, At, Company, Writes
<1>4. Kept
  <2>1. \A s \in {"pt", "cj"} : Seen(s) = Default[s] /\ file[s] = NoFile /\ NoFile # Torn
    BY <1>2, Absent DEF Seen, Stores
  <2> QED
    BY <1>2, <2>1 DEF Kept, Old, Held, Renewed, Read, Sent, Merges, Pending, At
<1>5. Boots /\ Mirrors /\ Lists
  BY <1>2 DEF Boots, NoDeadUnit, Mirrors, MirrorOf, Agree, Holds, Lists
<1>6. Rest
  BY <1>2, EmptyFun DEF Rest, Stores, Aspects
<1> QED
  BY <1>0, <1>1, <1>3, <1>4, <1>5, <1>6 DEF IInv

LEMMA NextIInv ==
  ASSUME IInv, Rest, [Next]_vars
  PROVE  IInv' /\ Rest'
<1>1. CASE [Usual]_vars
  BY <1>1, UsualIInv
<1>2. CASE \E t \in Tasks : SendAgain(t) \/ GiveUp(t) \/ \E q \in late : ReadLate(t, q)
  BY <1>2, SentIInv, GivenIInv, LateIInv
<1> QED
  BY <1>1, <1>2 DEF Next, Usual

-----------------------------------------------------------------------------
(* The theorems *)

\* IInv, with the types of the variables it does not mention, holds throughout.
THEOREM InvHolds == Spec => [](IInv /\ Rest)
<1>1. Init => IInv /\ Rest
  BY InitIInv
<1>2. (IInv /\ Rest) /\ [Next]_vars => (IInv /\ Rest)'
  BY NextIInv
<1> QED
  BY <1>1, <1>2, PTL DEF Spec

\* The variables keep their types, and the window lists only what is installed (gui/commands/apps.rs).
THEOREM TypeHolds == Spec => []TypeOK
<1>1. IInv /\ Rest => TypeOK
  <2> SUFFICES ASSUME IInv, Rest PROVE TypeOK
    OBVIOUS
  <2>1. DOMAIN file = Stores /\ DOMAIN tmp = Stores
    BY DEF IInv, Typed
  <2> QED
    BY <2>1 DEF IInv, Lists, Rest, TypeOK, Aspects
<1> QED
  BY <1>1, InvHolds, PTL

\* What the window set is what the files hold, for any number of commands, servers that die and windows
\* that close (services/config.rs, services/passthrough.rs).
THEOREM KeepsWhatIsSet == Spec => []SetIsKept
<1>1. IInv /\ Rest => SetIsKept
  BY DEF IInv, Kept, Held, SetIsKept
<1> QED
  BY <1>1, InvHolds, PTL

\* The automatic start is enabled only with its unit, and the icon on the host and its mirror in the
\* container agree once no change of them is under way (gui/commands/passthrough.rs).
THEOREM HalvesDoAgree == Spec => []HalvesAgree
<1>1. IInv /\ Rest => HalvesAgree
  <2> SUFFICES ASSUME IInv, Rest PROVE NoDeadUnit /\ MirrorHolds
    BY DEF HalvesAgree
  <2>1. NoDeadUnit
    BY DEF IInv, Boots
  <2>2. MirrorHolds
    <3> SUFFICES ASSUME "icon" \notin stale, mixed = {}, legacy["cj"] = NoFile,
                        \A t \in Tasks : Taken(t) => Aspect(Op(t)) # "icon"
                 PROVE  host = Seen("cj").icon
      BY DEF MirrorHolds
    <3>1. Seen("cj") = want["cj"]
      BY DEF IInv, Kept, Held
    <3>2. Agree
      BY DEF IInv, Mirrors, Holds
    <3> QED
      BY <3>1, <3>2 DEF Agree
  <2> QED
    BY <2>1, <2>2
<1> QED
  BY <1>1, InvHolds, PTL

\* An application the window lists starts when it is named by its id (services/apps.rs, storage.rs).
THEOREM ListedDoResolve == Spec => []ListedResolves
<1>1. IInv /\ Rest => ListedResolves
  BY DEF IInv, Lists, ListedResolves, Resolvable
<1> QED
  BY <1>1, InvHolds, PTL
=============================================================================

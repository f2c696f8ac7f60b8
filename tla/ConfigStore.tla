------------------------------ MODULE ConfigStore ------------------------------
(***************************************************************************)
(* The files an environment's settings live in, and the commands that      *)
(* change them.                                                            *)
(*   pt   {home}/.easytidy/passthrough.toml in the container: applications *)
(*        with state and favourites.  The window reads the whole file over *)
(*        the socket, changes it and sends the whole file back.            *)
(*   cj   {home}/.easytidy/config.json in the container: the server itself *)
(*        reads, merges one key and writes.                                *)
(*   reg  {home}/.easytidy/apps.toml in the container: what the last scan  *)
(*        for .desktop files found; the window and the command line, each  *)
(*        over its own connection, cause scans.                            *)
(* The server writes each of them to one fixed temporary path and renames  *)
(* it.  On the host: the icon field of the environment's configuration,    *)
(* the systemd unit of its automatic start and the exported shortcuts.     *)
(* A command is a list of steps; several are in flight at once, and the    *)
(* window may be closed and the server killed between any two of them.     *)
(***************************************************************************)
EXTENDS Naturals, Sequences, FiniteSets, Functions

CONSTANTS Tasks,    \* slots for commands in flight
          Custom,   \* ids of applications the user defines
          Scanned,  \* ids of applications the scan finds
          Cmds,     \* command lines
          Icons,    \* icon paths
          NoFile, Torn, None,
          Mixes,    \* bound: the sets of aspects whose commands a behaviour may mix
          MaxEvents \* bound: commands begun, deaths of the server, windows closed, changes by others,
                    \* requests sent again or given up

Stores == {"pt", "cj", "reg"}
Ids == Custom \cup Scanned
OldIcon == "old"    \* an icon path below the directory older versions used,
NewIcon == "new"    \* and where its file is moved to

\* What the files may hold.
Paths   == Icons \cup {None, OldIcon, NewIcon}
PtFiles == [apps   : UNION {[S -> [cmd : Cmds, auto : BOOLEAN, icon : Paths]] : S \in SUBSET Ids},
            pinned : UNION {[S -> Cmds] : S \in SUBSET Ids}]
CjFiles == [icon : Paths, name : Icons \cup {None}]

\* No file and half a file are told from what a file holds, and None from what it stands against.
ASSUME Absent == /\ NoFile # Torn
                 /\ \A f \in {NoFile, Torn} : f \notin PtFiles /\ f \notin CjFiles /\ \A S \in SUBSET Scanned : f # S
                 /\ None \notin Icons \cup Ids \cup {OldIcon, "silent", "gui"}

\* An icon is chosen where its file is, and the old directory is gone once a server has started.
ASSUME Chosen == OldIcon \notin Icons

VARIABLES file,      \* store -> what a reader of its path finds
          tmp,       \* store -> what the temporary path holds
          legacy,    \* store -> what older versions left at another path
          server,    \* "down", "rewrite", "cut", "up"
          text,      \* the new text of passthrough.toml while it is rewritten in place
          handler,   \* task -> the handler of the server that works for it
          task,      \* task -> the command the slot carries out
          conn,      \* which connection the window uses now
          late,      \* requests the window no longer waits for and the server has not read yet
          host,      \* the icon field of the environment's configuration on the host
          unit, enabled, \* unit file of the automatic start; whether it is enabled
          exports,   \* id with a shortcut on the host -> the id its picture file is for, None if it is shared
          picture,   \* whose picture the shared file holds
          installed, \* ids of the .desktop files in the container
          listed,    \* those the window shows, and that have been there since
          want,      \* history: the stores, had each command been one step
          alone,     \* history: task -> no command about the same thing ran with it
          mixed,     \* history: stores two handlers wrote at once, or whose rewriting was cut short
          stale,     \* history: aspects in disorder since commands overlapped or failed
          mix, events

host_ == <<host, unit, enabled, exports, picture>>
apps_ == <<installed, listed>>
rest_ == <<late, mix, events>>
disk_ == <<file, tmp, legacy, text>>
hist_ == <<want, alone, mixed, stale>>
vars == <<disk_, server, handler, task, conn, host_, apps_, hist_, rest_>>

(***************************************************************************)
(* Contents.  A reader that finds no file or cannot parse it takes the     *)
(* default.                                                                *)
(***************************************************************************)
Default == [pt |-> [apps |-> <<>>, pinned |-> <<>>], cj |-> [icon |-> None, name |-> None], reg |-> {}]
Seen(s) == IF file[s] \in {NoFile, Torn} THEN Default[s] ELSE file[s]

With(f, id, v) == [x \in DOMAIN f \cup {id} |-> IF x = id THEN v ELSE f[x]]
Without(f, id) == Restrict(f, DOMAIN f \ {id})

App(id, c, cmd, auto) == [cmd |-> cmd, auto |-> auto,
                          icon |-> IF id \in DOMAIN c.apps THEN c.apps[id].icon ELSE None]

\* The commands that change passthrough.toml: when they are refused, and the file they send back.
Allowed(op, c) ==
  CASE op.kind = "add"    -> op.id \notin DOMAIN c.apps
    [] op.kind = "update" -> op.id \in DOMAIN c.apps /\ (op.new # op.id => op.new \notin DOMAIN c.apps)
    [] op.kind = "icon"   -> op.id \in DOMAIN c.apps
    [] OTHER              -> TRUE

SetPinned(op, c) ==
  [c EXCEPT !.pinned = IF op.on THEN With(c.pinned, op.id, op.cmd) ELSE Without(c.pinned, op.id)]

SetAutoStart(op, c) ==
  [c EXCEPT !.apps = IF op.on THEN With(c.apps, op.id, App(op.id, c, op.cmd, TRUE))
                     ELSE IF op.id \in Scanned THEN Without(c.apps, op.id)
                     ELSE IF op.id \in DOMAIN c.apps THEN [c.apps EXCEPT ![op.id].auto = FALSE]
                     ELSE c.apps]

AddCustom(op, c) == [c EXCEPT !.apps = With(c.apps, op.id, App(op.id, c, op.cmd, FALSE))]

UpdateCustom(op, c) ==
  [apps   |-> With(Without(c.apps, op.id), op.new, [c.apps[op.id] EXCEPT !.cmd = op.cmd]),
   pinned |-> IF op.new # op.id /\ op.id \in DOMAIN c.pinned
              THEN With(Without(c.pinned, op.id), op.new, op.cmd) ELSE c.pinned]

RemoveApp(op, c) == [apps |-> Without(c.apps, op.id), pinned |-> Without(c.pinned, op.id)]

SetCustomIcon(op, c) == [c EXCEPT !.apps[op.id].icon = op.icon]

Changed(op, c) ==
  CASE op.kind = "pin"    -> SetPinned(op, c)
    [] op.kind = "auto"   -> SetAutoStart(op, c)
    [] op.kind = "add"    -> AddCustom(op, c)
    [] op.kind = "update" -> UpdateCustom(op, c)
    [] op.kind = "remove" -> RemoveApp(op, c)
    [] op.kind = "icon"   -> SetCustomIcon(op, c)

(***************************************************************************)
(* The commands as lists of steps.                                         *)
(***************************************************************************)
PtOps ==
  [kind : {"pin"}, id : Ids, cmd : Cmds, on : BOOLEAN] \cup
  [kind : {"auto"}, id : Ids, cmd : Cmds, on : BOOLEAN] \cup
  [kind : {"add"}, id : Custom, cmd : Cmds] \cup
  [kind : {"update"}, id : Custom, new : Custom, cmd : Cmds] \cup
  [kind : {"remove"}, id : Ids] \cup
  [kind : {"icon"}, id : Custom, icon : Icons \cup {None}]
OtherOps ==
  [kind : {"entry"}, icon : Icons \cup {None}] \cup [kind : {"name"}, name : Icons \cup {None}] \cup
  [kind : {"shortcut"}, icon : Icons, name : Icons] \cup [kind : {"reexport"}, name : Icons] \cup
  [kind : {"boot"}, mode : {"off", "silent", "gui"}] \cup
  [kind : {"export", "revoke"}, id : Ids] \cup [kind : {"scan"}] \cup [kind : {"launch"}, id : Ids]
Ops == PtOps \cup OtherOps

\* The icon goes to the host's configuration, then to the container's; exporting the window's shortcut
\* also sets the name, and without an icon of its own takes the one the host has.
EntrySteps(kind) == CASE kind = "entry"    -> <<"host", "cjicon">>
                      [] kind = "shortcut" -> <<"host", "cjicon", "cjname">>
                      [] kind = "reexport" -> <<"hosticon", "cjicon", "cjname">>

BootSteps_UnlinkFirst(mode) == IF mode = "off" THEN <<"unlink", "disable", "reload">>
                                               ELSE <<"install", "reload", "enable">>
BootSteps(mode) == IF mode = "off" THEN <<"disable", "unlink", "reload">>
                                   ELSE <<"install", "reload", "enable">>

Steps(op) ==
  CASE op.kind = "remove"   -> <<"list", "set", "clean">>
    [] op.kind \in {"entry", "shortcut", "reexport"} -> EntrySteps(op.kind)
    [] op.kind = "name"     -> <<"cjname">>
    [] op.kind = "boot"     -> BootSteps(op.mode)
    [] op.kind \in {"export", "revoke", "scan"} -> <<op.kind>>
    [] op.kind = "launch"   -> <<"resolve">>
    [] OTHER                -> <<"list", "set">>

Aspect(op) == CASE op.kind \in {"entry", "shortcut", "reexport"} -> "icon"
                [] op.kind \in {"boot", "name"}    -> op.kind
                [] op.kind \in {"export", "revoke"} -> "shortcut"
                [] op.kind \in {"scan", "launch"} -> "reg"
                [] OTHER                          -> "pt"

NoHandler == [pc |-> "none"]
Idle == [todo |-> <<>>, op |-> [kind |-> "none"], conn |-> 0, saves |-> None]
Busy(t) == task[t].todo # <<>>
Taken(t) == Busy(t) \/ handler[t] # NoHandler
At(t, step) == Busy(t) /\ Head(task[t].todo) = step
Op(t) == task[t].op

Init ==
  /\ file = [s \in Stores |-> NoFile] /\ tmp = [s \in Stores |-> NoFile] /\ text = NoFile
  /\ \E c \in Custom, cmd \in Cmds, i \in {None, OldIcon}, old \in BOOLEAN :
       legacy = [pt |-> IF old THEN [apps |-> With(<<>>, c, [cmd |-> cmd, auto |-> TRUE, icon |-> i]),
                                          pinned |-> With(<<>>, c, cmd)]
                        ELSE NoFile,
                 cj |-> IF old THEN [icon |-> i, name |-> None] ELSE NoFile]
  /\ want = [s \in {"pt", "cj"} |-> IF legacy[s] = NoFile THEN Default[s] ELSE legacy[s]]
  /\ server = "down" /\ handler = [t \in Tasks |-> NoHandler]
  /\ task = [t \in Tasks |-> Idle]
  /\ conn = 1 /\ host = want["cj"].icon /\ unit = None /\ enabled = FALSE /\ exports = <<>> /\ picture = None
  /\ \E id \in Scanned : installed = {id}
  /\ listed = {} /\ alone = [t \in Tasks |-> TRUE] /\ mixed = {} /\ stale = {}
  /\ late = {} /\ mix \in Mixes /\ events = 0

(***************************************************************************)
(* The server starts: it moves files from where older versions kept them,  *)
(* then rewrites icon paths in passthrough.toml, in place.                 *)
(***************************************************************************)
NewIcons(c) == [c EXCEPT !.apps = [id \in DOMAIN c.apps |->
                  [c.apps[id] EXCEPT !.icon = IF @ = OldIcon THEN NewIcon ELSE @]]]

StartServer ==
  LET moves(s) == legacy[s] # NoFile /\ file[s] = NoFile
  IN  /\ server = "down" /\ server' = "rewrite"
      /\ file' = [s \in Stores |-> IF s # "reg" /\ moves(s) THEN legacy[s] ELSE file[s]]
      /\ legacy' = [s \in {"pt", "cj"} |-> IF moves(s) THEN NoFile ELSE legacy[s]]
      /\ UNCHANGED <<tmp, text, handler, task, conn, host_, apps_, hist_, rest_>>

\* fs::write truncates the file first.
RewriteBegin ==
  /\ server = "rewrite"
  /\ IF Seen("pt") # NewIcons(Seen("pt"))
     THEN /\ server' = "cut" /\ text' = NewIcons(file["pt"])
          /\ file' = [file EXCEPT !["pt"] = Torn]
     ELSE server' = "up" /\ UNCHANGED <<file, text>>
  /\ UNCHANGED <<tmp, legacy, handler, task, conn, host_, apps_, hist_, rest_>>

RewriteEnd ==
  /\ server = "cut" /\ server' = "up" /\ text' = NoFile
  /\ file' = [file EXCEPT !["pt"] = text]
  /\ want' = [want EXCEPT !["pt"] = NewIcons(@)]
  /\ UNCHANGED <<tmp, legacy, handler, task, conn, host_, apps_, alone, mixed, stale, rest_>>

(***************************************************************************)
(* Commands: the user starts one while others may be under way.            *)
(***************************************************************************)
\* The window offers its lists' applications to the commands that take one.
Offered == listed \cup DOMAIN Seen("pt").apps \cup DOMAIN Seen("pt").pinned

Same(t, op) == {u \in Tasks \ {t} : Taken(u) /\ Aspect(Op(u)) = Aspect(op)}

Begin(t, op) ==
  LET same == Same(t, op)
  IN  /\ ~Taken(t) /\ events < MaxEvents /\ Aspect(op) \in mix /\ server \in {"up", "down"}
      /\ op.kind \in {"export", "revoke", "pin", "auto", "update", "remove", "icon"} => op.id \in Offered
      /\ task' = [task EXCEPT ![t] = [Idle EXCEPT !.todo = Steps(op), !.op = op,
                                                 !.conn = IF op.kind = "launch" THEN 0 ELSE conn]]
      /\ alone' = [u \in Tasks |-> IF u = t THEN same = {} ELSE alone[u] /\ u \notin same]
      /\ stale' = IF same = {} THEN stale ELSE stale \cup {Aspect(op)}
      /\ events' = events + 1
      /\ UNCHANGED <<disk_, server, handler, conn, host_, apps_, want, mixed, late, mix>>

\* The rest of a command; one that ran alone to its end, and wrote, leaves its aspect in order.
Wrote(t) == CASE Op(t).kind = "reexport" -> task[t].saves # None
              [] Op(t).kind = "launch"   -> handler[t] # NoHandler
              [] OTHER                   -> TRUE
Advance(t) ==
  /\ task' = [task EXCEPT ![t].todo = Tail(@)]
  /\ stale' = IF Len(task[t].todo) = 1 /\ alone[t] /\ Wrote(t) THEN stale \ {Aspect(Op(t))} ELSE stale

\* A command fails at the step it has reached: of the two icons one may be set by then.
Abandon(T) ==
  /\ task' = [t \in Tasks |-> IF t \in T THEN [task[t] EXCEPT !.todo = <<>>] ELSE task[t]]
  /\ stale' = stale \cup ({Aspect(Op(t)) : t \in {u \in T : Busy(u)}} \cap {"icon"})

\* The server serves the requests of one connection one after the other.
Served(t) == server = "up" /\ handler[t] = NoHandler
             /\ \A u \in Tasks : handler[u] # NoHandler => task[u].conn = 0 \/ task[u].conn # task[t].conn

\* passthrough.list; the command computes the new file from the answer.
ReadList(t) ==
  /\ At(t, "list") /\ Served(t)
  /\ IF Allowed(Op(t), Seen("pt"))
     THEN task' = [task EXCEPT ![t].todo = Tail(@), ![t].saves = Changed(Op(t), Seen("pt"))]
     ELSE task' = [task EXCEPT ![t].todo = <<>>]
  /\ UNCHANGED <<disk_, server, handler, conn, host_, apps_, hist_, rest_>>

(***************************************************************************)
(* The write of a store: the temporary path is opened and truncated,       *)
(* filled, and renamed.  A handler's descriptor follows the file it opened *)
(* ("tmp", then "file", then "gone") when another handler renames it.      *)
(***************************************************************************)
Writers(s) == {u \in Tasks : handler[u] # NoHandler /\ handler[u].store = s}

OpenTmp(t, s, new, key) ==
  /\ handler' = [handler EXCEPT ![t] = [pc |-> "opened", store |-> s, new |-> new,
                                            key |-> key, at |-> "tmp"]]
  /\ tmp' = [tmp EXCEPT ![s] = Torn]
  /\ mixed' = IF Writers(s) = {} THEN mixed ELSE mixed \cup {s}

Fill(t) ==
  LET h == handler[t]
      others == {u \in Writers(h.store) \ {t} : handler[u].at = h.at}
  IN  /\ h # NoHandler /\ h.pc = "opened"
      /\ handler' = [handler EXCEPT ![t].pc = "filled"]
      /\ \E text_ \in {h.new} \cup (IF others = {} THEN {} ELSE {Torn}) :
           /\ tmp'  = IF h.at = "tmp"  THEN [tmp EXCEPT ![h.store] = text_] ELSE tmp
           /\ file' = IF h.at = "file" THEN [file EXCEPT ![h.store] = text_] ELSE file
      /\ UNCHANGED <<legacy, text, server, task, conn, host_, apps_, hist_, rest_>>

\* What the store holds once the handler's write counts, had each command been one step: the
\* server merges config.json key by key; passthrough.toml is merged only by a command that ran alone.
Merged(t) ==
  LET h == handler[t]
  IN  CASE h.store = "reg" -> want
        [] h.store = "cj"  -> [want EXCEPT !["cj"][h.key] = h.new[h.key]]
        [] h.store = "pt"  -> [want EXCEPT !["pt"] = IF ~alone[t] THEN h.new
                                                     ELSE IF Allowed(Op(t), @) THEN Changed(Op(t), @) ELSE @]

Renamed_KeepsOld(t) ==
  LET h == handler[t] IN
  /\ file' = IF file[h.store] = NoFile THEN [file EXCEPT ![h.store] = tmp[h.store]] ELSE file
  /\ tmp' = [tmp EXCEPT ![h.store] = NoFile]
  /\ handler' = [handler EXCEPT ![t] = NoHandler]

Renamed(t) ==
  LET h == handler[t] IN
  /\ file' = [file EXCEPT ![h.store] = tmp[h.store]]
  /\ tmp' = [tmp EXCEPT ![h.store] = NoFile]
  /\ handler' = [u \in Tasks |->
                   IF u = t THEN NoHandler
                   ELSE IF u \in Writers(h.store)
                        THEN [handler[u] EXCEPT !.at = IF @ = "tmp" THEN "file" ELSE "gone"]
                        ELSE handler[u]]

\* The answer reaches the command unless the window it belonged to is gone.
Answered(t) == IF Busy(t) THEN Advance(t) ELSE UNCHANGED <<task, stale>>

\* The window's list, refreshed by the answer of a scan it has asked for.
Shown(t) == IF Busy(t) /\ Op(t).kind = "scan" THEN handler[t].new \cap installed ELSE listed

RenameTmp(t) ==
  LET h == handler[t] IN
  /\ h # NoHandler /\ h.pc = "filled"
  /\ IF tmp[h.store] # NoFile
     THEN /\ Renamed(t) /\ Answered(t)
          /\ want' = Merged(t)
     ELSE /\ handler' = [handler EXCEPT ![t] = NoHandler]
          /\ IF h.store = "reg" THEN Answered(t) ELSE Abandon({t})
          /\ UNCHANGED <<file, tmp, want>>
  /\ listed' = Shown(t)
  /\ UNCHANGED <<legacy, text, server, conn, host_, installed, alone, mixed, rest_>>

\* passthrough.set: the file as the command computed it.
SetList(t) ==
  /\ At(t, "set") /\ Served(t)
  /\ OpenTmp(t, "pt", task[t].saves, "all")
  /\ UNCHANGED <<file, legacy, text, server, task, conn, host_, apps_, want, alone, stale, rest_>>

\* config.set: read, merge, write in one handler; a file that does not parse is an error.
SetKey_Overwrites(t, step, key, value) ==
  /\ At(t, step) /\ Served(t)
  /\ IF file["cj"] = Torn
     THEN Abandon({t}) /\ UNCHANGED <<handler, tmp, mixed>>
     ELSE OpenTmp(t, "cj", [Default["cj"] EXCEPT ![key] = value], key) /\ UNCHANGED <<task, stale>>
  /\ UNCHANGED <<file, legacy, text, server, conn, host_, apps_, want, alone, rest_>>

SetKey(t, step, key, value) ==
  /\ At(t, step) /\ Served(t)
  /\ IF file["cj"] = Torn
     THEN Abandon({t}) /\ UNCHANGED <<handler, tmp, mixed>>
     ELSE OpenTmp(t, "cj", [Seen("cj") EXCEPT ![key] = value], key) /\ UNCHANGED <<task, stale>>
  /\ UNCHANGED <<file, legacy, text, server, conn, host_, apps_, want, alone, rest_>>

IconOf(t) == IF Op(t).kind = "reexport" THEN task[t].saves ELSE Op(t).icon

SetIcon(t) == At(t, "cjicon") /\ SetKey(t, "cjicon", "icon", IconOf(t))
SetName(t) == At(t, "cjname") /\ SetKey(t, "cjname", "name", Op(t).name)

\* apps.list scans and rewrites the registry; apps.launch_app does so only if the registry it reads is empty.
Resolvable(id) == id \in (IF Seen("reg") = {} THEN installed ELSE Seen("reg")) \cup
                         DOMAIN Seen("pt").apps \cup DOMAIN Seen("pt").pinned

Scan(t) ==
  /\ At(t, "scan") /\ Served(t)
  /\ OpenTmp(t, "reg", installed, "all")
  /\ UNCHANGED <<file, legacy, text, server, task, conn, host_, apps_, want, alone, stale, rest_>>

Resolve(t) ==
  /\ At(t, "resolve") /\ Served(t)
  /\ IF Seen("reg") = {}
     THEN OpenTmp(t, "reg", installed, "all") /\ UNCHANGED <<task, stale>>
     ELSE Advance(t) /\ UNCHANGED <<handler, tmp, mixed>>
  /\ UNCHANGED <<file, legacy, text, server, conn, host_, apps_, want, alone, rest_>>

(***************************************************************************)
(* A request whose answer is not there in time is sent again over a new    *)
(* connection, and given up the second time.  The old connection still     *)
(* holds it: the server may read it late, after other commands.            *)
(***************************************************************************)
\* What is left of a request: its text, and that of passthrough.list and apps.list, is in the answer.
RequestFor(t, store, key, new) == [store |-> store, key |-> key, new |-> new, op |-> Op(t), conn |-> task[t].conn]
Request(t) == CASE At(t, "set")    -> RequestFor(t, "pt", "all", task[t].saves)
                [] At(t, "cjicon") -> RequestFor(t, "cj", "icon", IconOf(t))
                [] At(t, "cjname") -> RequestFor(t, "cj", "name", Op(t).name)
                [] At(t, "scan")   -> RequestFor(t, "reg", "all", None)

Requests(t) == IF At(t, "list") THEN {} ELSE {Request(t)}
Waits(t) == Busy(t) /\ server = "up" /\ Head(task[t].todo) \in {"list", "set", "cjicon", "cjname", "scan"}

SendUnread(t) ==
  /\ Waits(t) /\ handler[t] = NoHandler
  /\ late' = late \cup Requests(t)
  /\ task' = [task EXCEPT ![t].conn = conn + 1]
  /\ UNCHANGED <<handler, alone, stale>>

\* The handler at work finishes for nobody; the command goes on in another slot.
SendRead(t, u) ==
  /\ Waits(t) /\ handler[t] # NoHandler /\ ~Taken(u)
  /\ task' = [task EXCEPT ![u] = [task[t] EXCEPT !.conn = conn + 1], ![t].todo = <<>>]
  /\ alone' = [v \in Tasks |-> alone[v] /\ v \notin {t, u}]
  /\ stale' = stale \cup {Aspect(Op(t))}
  /\ UNCHANGED <<handler, late>>

SendAgain(t) ==
  /\ events < MaxEvents /\ events' = events + 1 /\ conn' = conn + 1
  /\ SendUnread(t) \/ \E u \in Tasks : SendRead(t, u)
  /\ UNCHANGED <<disk_, server, host_, apps_, want, mixed, mix>>

GiveUp(t) ==
  /\ Waits(t) /\ events < MaxEvents /\ events' = events + 1 /\ Abandon({t})
  /\ late' = IF handler[t] = NoHandler THEN late \cup Requests(t) ELSE late
  /\ UNCHANGED <<disk_, server, handler, conn, host_, apps_, want, alone, mixed, mix>>

\* The server reads it: a command of its own as far as the stores go, which overlaps whatever runs.
Text(q) == CASE q.store = "pt"  -> q.new
             [] q.store = "cj"  -> [Seen("cj") EXCEPT ![q.key] = q.new]
             [] q.store = "reg" -> installed

ReadLate(t, q) ==
  /\ q \in late /\ late' = late \ {q}
  /\ server = "up" /\ ~Taken(t) /\ \A u \in Tasks : handler[u] # NoHandler => task[u].conn # q.conn
  /\ IF q.store = "cj" /\ file["cj"] = Torn
     THEN UNCHANGED <<handler, tmp, mixed, task, alone, stale>>
     ELSE /\ OpenTmp(t, q.store, Text(q), q.key)
          /\ task' = [task EXCEPT ![t] = [Idle EXCEPT !.op = q.op, !.conn = q.conn]]
          /\ alone' = [u \in Tasks |-> alone[u] /\ u \notin Same(t, q.op) \cup {t}]
          /\ stale' = stale \cup {Aspect(q.op)}
  /\ UNCHANGED <<file, legacy, text, server, conn, host_, apps_, want, mix, events>>

(***************************************************************************)
(* Steps on the host.                                                      *)
(***************************************************************************)
hostOnly_ == <<disk_, server, handler, conn, apps_, want, alone, mixed, rest_>>

\* register_container: a temporary file of its own name, renamed.
SetHostIcon(t) ==
  /\ At(t, "host") /\ host' = Op(t).icon /\ Advance(t)
  /\ UNCHANGED <<unit, enabled, exports, picture, hostOnly_>>

ReadHostIcon(t) ==
  /\ At(t, "hosticon")
  /\ task' = [task EXCEPT ![t].todo = IF host = None THEN <<"cjname">> ELSE Tail(@), ![t].saves = host]
  /\ UNCHANGED <<stale, host_, hostOnly_>>

Install(t) ==
  /\ At(t, "install") /\ unit' = Op(t).mode /\ Advance(t)
  /\ UNCHANGED <<host, enabled, exports, picture, hostOnly_>>

Unlink(t) ==
  /\ At(t, "unlink") /\ unit' = None /\ Advance(t)
  /\ UNCHANGED <<host, enabled, exports, picture, hostOnly_>>

\* systemctl may fail for reasons of its own; it cannot enable a unit that has no file.
Enable(t) ==
  /\ At(t, "enable")
  /\ \/ unit # None /\ enabled' = TRUE /\ Advance(t)
     \/ enabled' = enabled /\ Abandon({t})
  /\ UNCHANGED <<host, unit, exports, picture, hostOnly_>>

Disable(t) ==
  /\ At(t, "disable")
  /\ \/ enabled' = FALSE /\ Advance(t)
     \/ enabled' = enabled /\ Abandon({t})
  /\ UNCHANGED <<host, unit, exports, picture, hostOnly_>>

Reload(t) ==
  /\ At(t, "reload")
  /\ Advance(t) \/ Abandon({t})
  /\ UNCHANGED <<host_, hostOnly_>>

\* A shortcut names the application's id and a file with its picture: a scanned application has a file
\* of its own, the user's own applications of an environment share one, unless the container's picture
\* cannot be fetched and one is drawn for the id.
Export(t) ==
  LET id == Op(t).id IN
  /\ At(t, "export") /\ Advance(t)
  /\ \/ exports' = With(exports, id, id) /\ picture' = picture
     \/ id \in Custom /\ exports' = With(exports, id, None) /\ picture' = id
  /\ UNCHANGED <<host, unit, enabled, hostOnly_>>

Unexport(t, step, id) ==
  /\ At(t, step) /\ exports' = Without(exports, id) /\ Advance(t)
  /\ UNCHANGED <<host, unit, enabled, picture, hostOnly_>>

Revoke(t) == At(t, "revoke") /\ Unexport(t, "revoke", Op(t).id)

\* Removing a scanned application takes its shortcut along, removing one of the user's own does not.
Clean(t) == At(t, "clean") /\ Unexport(t, "clean", IF Op(t).id \in Scanned THEN Op(t).id ELSE None)

(***************************************************************************)
(* What goes wrong: the server is killed, the window closes, a request     *)
(* finds no server; packages come and go; the manager window edits the     *)
(* environment's configuration.                                            *)
(***************************************************************************)
ServerDies ==
  /\ server # "down" /\ server' = "down" /\ events < MaxEvents /\ events' = events + 1
  /\ handler' = [t \in Tasks |-> NoHandler]
  /\ Abandon({t \in Tasks : handler[t] # NoHandler})
  /\ mixed' = IF server = "cut" THEN mixed \cup {"pt"} ELSE mixed
  /\ text' = NoFile /\ late' = {}
  /\ UNCHANGED <<file, tmp, legacy, conn, host_, apps_, want, alone, mix>>

NoServer(t) ==
  /\ server = "down" /\ Busy(t) /\ Head(task[t].todo) \in {"list", "set", "cjicon", "cjname", "scan", "resolve"}
  /\ Abandon({t})
  /\ UNCHANGED <<disk_, server, handler, conn, host_, apps_, want, alone, mixed, rest_>>

\* Handlers that are at work finish for nobody.
WindowCloses ==
  /\ events < MaxEvents /\ events' = events + 1 /\ conn' = conn + 1
  /\ Abandon({t \in Tasks : Busy(t) /\ task[t].conn # 0})
  /\ listed' = {}
  /\ UNCHANGED <<disk_, server, handler, host_, installed, want, alone, mixed, late, mix>>

PackagesChange ==
  /\ "reg" \in mix /\ events < MaxEvents /\ events' = events + 1
  /\ \E S \in SUBSET Scanned : S # installed /\ installed' = S
  /\ listed' = listed \cap installed'
  /\ UNCHANGED <<disk_, server, handler, task, conn, host_, hist_, late, mix>>

ManagerEdits ==
  /\ "icon" \in mix /\ events < MaxEvents /\ events' = events + 1
  /\ \E i \in Icons \ {host} : host' = i
  /\ stale' = stale \cup {"icon"} /\ alone' = [t \in Tasks |-> alone[t] /\ Taken(t) /\ Aspect(Op(t)) # "icon"]
  /\ UNCHANGED <<disk_, server, handler, task, conn, unit, enabled, exports, picture, apps_, want, mixed,
                 late, mix>>

Step(t) ==
  \/ ReadList(t) \/ SetList(t) \/ SetIcon(t) \/ SetName(t) \/ Scan(t) \/ Resolve(t)
  \/ Fill(t) \/ RenameTmp(t)
  \/ SetHostIcon(t) \/ ReadHostIcon(t) \/ Install(t) \/ Unlink(t) \/ Enable(t) \/ Disable(t) \/ Reload(t)
  \/ Export(t) \/ Revoke(t) \/ Clean(t) \/ NoServer(t)

Next == \/ StartServer \/ RewriteBegin \/ RewriteEnd
        \/ \E t \in Tasks : \/ (\E op \in Ops : Begin(t, op)) \/ Step(t)
                           \/ SendAgain(t) \/ GiveUp(t) \/ (\E q \in late : ReadLate(t, q))
        \/ ServerDies \/ WindowCloses \/ PackagesChange \/ ManagerEdits

Spec == Init /\ [][Next]_vars

(***************************************************************************)
(* Properties.                                                             *)
(***************************************************************************)
TypeOK ==
  /\ server \in {"down", "rewrite", "cut", "up"} /\ DOMAIN file = Stores /\ DOMAIN tmp = Stores
  /\ installed \subseteq Scanned /\ listed \subseteq installed /\ DOMAIN exports \subseteq Ids
  /\ unit \in {None, "silent", "gui"} /\ enabled \in BOOLEAN
  /\ mixed \subseteq Stores /\ stale \subseteq {"pt", "reg", "icon", "name", "boot", "shortcut"}

\* What the window set is what the files hold, whatever commands ran together, wherever the server
\* was killed or the window closed: config.json always, since the server merges it
\* (services/config.rs:39), passthrough.toml for commands that ran alone.  A request sent again counts
\* as often, and when, the server carries it out: its first copy, read late, undoes what was set since
\* (gui/commands/socket.rs:416), but nothing else.  Only two things tear a file: the in-place rewrite of
\* icon paths being cut short (services/passthrough.rs:84), and two handlers of different connections in
\* the same fixed temporary path (:133, storage.rs:175).
SetIsKept ==
  server # "cut" => \A s \in {"pt", "cj"} \ mixed :
                       legacy[s] # NoFile \/ (file[s] # Torn /\ Seen(s) = want[s])

\* The comment at gui/commands/passthrough.rs:254, that the other order would leave a dead unit:
\* systemd never starts an environment whose unit is gone, although each step may fail and the
\* window may close between any two, unless two changes of the mode ran together.
NoDeadUnit == "boot" \notin stale => (enabled => unit # None)

\* The icon on the host and its mirror in the container agree when no change of them is under way,
\* none failed half-way, no request of one was read late and the manager changed none since the last
\* change that ran alone (gui/commands/passthrough.rs:1336).
MirrorHolds ==
  ("icon" \notin stale \cup {Aspect(Op(t)) : t \in {u \in Tasks : Taken(u)}} /\ mixed = {})
    => legacy["cj"] # NoFile \/ host = Seen("cj").icon

\* The two halves of one setting agree: unit and enablement, the icon and its mirror.
HalvesAgree == NoDeadUnit /\ MirrorHolds

\* An application the window lists starts when it is named by its id, though the registry may be
\* written by two scans of two connections at once or left half-written by a server that died.
ListedResolves == "reg" \notin stale => \A id \in listed : Resolvable(id)
=============================================================================

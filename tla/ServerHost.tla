---------------------------- MODULE ServerHost ----------------------------
(***************************************************************************)
(* The server of a container as a host of processes and connections: its   *)
(* start, the connections it registers after their handshake, the          *)
(* processes it launches for them and watches, the edits it routes to a    *)
(* window, and its end.  The terminals are PtyService.                     *)
(*                                                                         *)
(* A connection is a task with one request at a time; every process has a  *)
(* wait task of its own.  They share the map `children`, keyed by process  *)
(* id, behind a read-write lock, and the map `conns`.  The kernel gives a  *)
(* process id out again as soon as its process is reaped.                  *)
(***************************************************************************)
EXTENDS Naturals, FiniteSets

CONSTANTS MaxConns,  \* connections 1..MaxConns, in the order of conn_token
          MaxProcs,  \* processes 1..MaxProcs, in the order they are spawned
          Pids, NoPid, \* process ids, and none
          AutoStart, \* commands launched at the start
          MaxEdits,  \* requests to edit a file
  Roles      \* clients: "window" and "terminal" connections of a GUI, "cli"

ASSUME HostAssumption ==
  MaxConns \in Nat /\ MaxProcs \in Nat /\ MaxEdits \in Nat /\ AutoStart \in 0..MaxProcs /\ NoPid \notin Pids

VARIABLES
  phase,        \* starting, serving, grace, killing, gone
  shuttingDown, \* ServerState.shutting_down
  conn,         \* a connection's task: none, open, ready (handshake done), leaving (its
                \* loop), cleaning (unregistered, its terminals being closed), closed
  role,         \* what the client is
  registered,   \* ServerState.conns
  at, arg,      \* what a connection's task, or main (0), is in the middle of
  procs,        \* processes spawned so far
  pid,          \* process -> its id
  alive,        \* none, running, zombie, reaped
  waiter,       \* its wait task: none, waiting, reaped, marked, done
  launcher,     \* the connection that launched it, 0 for main
  heir,         \* it got the id of a process whose exit was not yet recorded
  told,         \* child.exited was sent
  children,     \* ServerState.children: process id -> entry
  toKill,       \* ids the shutdown has still to kill
  missed,       \* processes that kill(1) failed to kill in the shutdown
  edits,        \* edits routed so far
  edit          \* an edit: the connection it went to, and what became of it

connVars == <<conn, role, registered>>
taskVars == <<at, arg>>
procVars == <<procs, pid, alive, waiter, launcher, heir, told>>
editVars == <<edits, edit>>
mainVars == <<phase, shuttingDown, toKill, missed>>
vars == <<mainVars, connVars, taskVars, procVars, children, editVars>>

Conns == 1..MaxConns
Tasks == 0..MaxConns
Procs == 1..MaxProcs
NoEntry == [proc |-> 0, status |-> "none"]
NoEdit == [conn |-> 0, state |-> "none"]

TypeOK ==
  /\ phase \in {"starting", "serving", "grace", "killing", "gone"}
  /\ shuttingDown \in BOOLEAN
  /\ conn \in [Conns -> {"none", "open", "ready", "leaving", "cleaning", "closed"}]
  /\ role \in [Conns -> Roles \cup {"cli"}]
  /\ registered \subseteq Conns
  /\ at \in [Tasks -> {"idle", "insert", "signal", "push"}]
  /\ arg \in [Tasks -> Nat \cup Pids]
  /\ procs \in 0..MaxProcs
  /\ pid \in [Procs -> Pids \cup {NoPid}]
  /\ alive \in [Procs -> {"none", "running", "zombie", "reaped"}]
  /\ waiter \in [Procs -> {"none", "waiting", "reaped", "marked", "done"}]
  /\ launcher \in [Procs -> Tasks]
  /\ heir \subseteq Procs /\ told \subseteq Procs
  /\ children \in [Pids -> [proc : 0..MaxProcs,
                            status : {"none", "running", "exited", "old"}]]
  /\ toKill \subseteq Pids /\ missed \subseteq Procs
  /\ edits \in 0..MaxEdits
  /\ edit \in [1..MaxEdits -> [conn : Tasks, 
                            state : {"none", "picked", "queued", "written", "dropped", "refused"}]]

Init ==
  /\ phase = "starting" /\ shuttingDown = FALSE /\ toKill = {} /\ missed = {}
  /\ conn = [c \in Conns |-> "none"] /\ role = [c \in Conns |-> "cli"] /\ registered = {}
  /\ at = [t \in Tasks |-> "idle"] /\ arg = [t \in Tasks |-> 0]
  /\ procs = 0 /\ pid = [p \in Procs |-> NoPid]
  /\ alive = [p \in Procs |-> "none"] /\ waiter = [p \in Procs |-> "none"]
  /\ launcher = [p \in Procs |-> 0] /\ heir = {} /\ told = {}
  /\ children = [i \in Pids |-> NoEntry]
  /\ edits = 0 /\ edit = [e \in 1..MaxEdits |-> NoEdit]

Up == phase # "gone"

\* perform_graceful_shutdown keeps the read lock of `children` while it kills.
CanWrite == phase # "killing"

Holder(i) == {p \in Procs : pid[p] = i /\ alive[p] \in {"running", "zombie"}}

\* A process gets a signal that ends it; a zombie does not notice.
Struck(i) == [p \in Procs |-> IF p \in Holder(i) THEN "zombie" ELSE alive[p]]

Begin(t, what, x) == at' = [at EXCEPT ![t] = what] /\ arg' = [arg EXCEPT ![t] = x]
End(t) == at' = [at EXCEPT ![t] = "idle"] /\ arg' = [arg EXCEPT ![t] = 0]

\* A connection's loop looks at the flag before it waits for the next frame.
Loops(c) == conn' = [conn EXCEPT ![c] = IF shuttingDown THEN "leaving" ELSE @]

Request(c) == Up /\ conn[c] = "ready" /\ at[c] = "idle"

(***************************************************************************)
(* Connections                                                             *)
(***************************************************************************)
\* The accept loop: it looks at the flag only after it accepted somebody.
Accept(c, r) ==
  /\ phase = "serving" /\ conn[c] = "none" /\ \A d \in 1..(c - 1) : conn[d] # "none"
  /\ conn' = [conn EXCEPT ![c] = IF shuttingDown THEN "leaving" ELSE "open"]
  /\ role' = [role EXCEPT ![c] = r]
  /\ phase' = IF shuttingDown THEN "grace" ELSE "serving"
  /\ UNCHANGED <<shuttingDown, toKill, missed, registered, taskVars, procVars, children, editVars>>

\* handle_handshake; a client of another protocol version stays unregistered, and
\* every request of it is refused.
Hello(c) ==
  /\ Up /\ conn[c] = "open"
  /\ conn' = [conn EXCEPT ![c] = IF shuttingDown THEN "leaving" ELSE "ready"]
  /\ registered' = registered \cup {c}
  /\ UNCHANGED <<mainVars, role, taskVars, procVars, children, editVars>>

\* The client is gone, or was idle for too long.
Disconnect(c) ==
  /\ Up /\ conn[c] \in {"open", "ready"} /\ at[c] = "idle"
  /\ conn' = [conn EXCEPT ![c] = "leaving"]
  /\ UNCHANGED <<mainVars, role, registered, taskVars, procVars, children, editVars>>

\* handle_connection after its loop: the registration goes, then it waits for the
\* terminals of this connection to be closed (close_conn_ptys).
Unregister(c) ==
  /\ Up /\ conn[c] = "leaving"
  /\ conn' = [conn EXCEPT ![c] = "cleaning"] /\ registered' = registered \ {c}
  /\ UNCHANGED <<mainVars, role, taskVars, procVars, children, editVars>>

\* handle_connection returns: the channel goes with what is in it.
Close(c) ==
  /\ Up /\ conn[c] = "cleaning" /\ conn' = [conn EXCEPT ![c] = "closed"]
  /\ edit' = [e \in DOMAIN edit |->
       IF edit[e].conn = c /\ edit[e].state = "queued" THEN [edit[e] EXCEPT !.state = "dropped"]
       ELSE edit[e]]
  /\ UNCHANGED <<mainVars, role, registered, taskVars, procVars, children, edits>>

(***************************************************************************)
(* ui.edit                                                                 *)
(***************************************************************************)
\* Both the shared connection of a window and the connections of its terminals
\* declare "events" (connect_to_container makes them all).
Takers == {c \in registered : role[c] \in {"window", "terminal"}}

Route(c, targets) ==
  IF targets = {} THEN Loops(c) /\ UNCHANGED <<taskVars, edit>>
  ELSE \E oldest \in targets :
         /\ \A d \in targets : oldest <= d
         /\ edit' = [edit EXCEPT ![edits + 1] = [conn |-> oldest, state |-> "picked"]]
         /\ Begin(c, "push", edits + 1) /\ UNCHANGED conn

EditPick_Opened(c) ==
  /\ Request(c) /\ role[c] = "cli" /\ edits < MaxEdits /\ edits' = edits + 1
  /\ Route(c, {d \in Conns : conn[d] # "none" /\ role[d] = "window"})
  /\ UNCHANGED <<mainVars, role, registered, procVars, children>>

EditPick(c) ==
  /\ Request(c) /\ role[c] = "cli" /\ edits < MaxEdits /\ edits' = edits + 1
  /\ Route(c, Takers)
  /\ UNCHANGED <<mainVars, role, registered, procVars, children>>

\* The channel is gone if its connection ended after it was picked: op_failed.  It is
\* still there while an unregistered connection cleans up: the answer is routed.
EditPush(c) ==
  /\ Up /\ at[c] = "push"
  /\ edit' = [edit EXCEPT ![arg[c]].state =
                IF conn[edit[arg[c]].conn] = "closed" THEN "refused" ELSE "queued"]
  /\ End(c) /\ Loops(c)
  /\ UNCHANGED <<mainVars, role, registered, procVars, children, edits>>

\* connection_loop writes an event to its client.
Deliver(c) ==
  /\ Request(c)
  /\ \E e \in DOMAIN edit :
       /\ edit[e] = [conn |-> c, state |-> "queued"]
       /\ edit' = [edit EXCEPT ![e].state = "written"]
  /\ Loops(c)
  /\ UNCHANGED <<mainVars, role, registered, taskVars, procVars, children, edits>>

(***************************************************************************)
(* Processes                                                               *)
(***************************************************************************)
\* spawn_managed_process up to the insertion, which waits for the write lock.
Spawn(t, i) ==
  /\ procs < MaxProcs /\ Holder(i) = {}
  /\ LET p == procs + 1 IN
       /\ procs' = p /\ pid' = [pid EXCEPT ![p] = i]
       /\ alive' = [alive EXCEPT ![p] = "running"]
       /\ launcher' = [launcher EXCEPT ![p] = t]
       /\ heir' = IF \E q \in Procs : pid[q] = i /\ waiter[q] = "reaped" THEN heir \cup {p} ELSE heir
       /\ Begin(t, "insert", p)
  /\ UNCHANGED <<waiter, told>>

\* apps.launch, apps.launch_app and lifecycle.entryLaunch.
Launch(c, i) ==
  /\ Request(c) /\ Spawn(c, i)
  /\ UNCHANGED <<mainVars, connVars, children, editVars>>

Insert(t) ==
  /\ Up /\ CanWrite /\ at[t] = "insert"
  /\ children' = [children EXCEPT ![pid[arg[t]]] = [proc |-> arg[t], status |-> "running"]]
  /\ waiter' = [waiter EXCEPT ![arg[t]] = "waiting"]
  /\ End(t) /\ (IF t = 0 THEN UNCHANGED conn ELSE Loops(t))
  /\ UNCHANGED <<mainVars, role, registered, procs, pid, alive, launcher, heir, told, editVars>>

ProcessExits(p) ==
  /\ Up /\ alive[p] = "running" /\ alive' = [alive EXCEPT ![p] = "zombie"]
  /\ UNCHANGED <<mainVars, connVars, taskVars, procs, pid, waiter, launcher, heir, told, children,
                 editVars>>

\* child.wait() returns: the id is free from here on.
Reap(p) ==
  /\ Up /\ waiter[p] = "waiting" /\ alive[p] = "zombie"
  /\ alive' = [alive EXCEPT ![p] = "reaped"] /\ waiter' = [waiter EXCEPT ![p] = "reaped"]
  /\ UNCHANGED <<mainVars, connVars, taskVars, procs, pid, launcher, heir, told, children, editVars>>

Mark_Cancelled(p) ==
  /\ Up /\ CanWrite /\ waiter[p] = "reaped"
  /\ children' = [children EXCEPT ![pid[p]].status =
       IF @ = "none" \/ (\E c \in Conns : launcher[p] = c /\ conn[c] = "closed") THEN @
       ELSE "exited"]
  /\ waiter' = [waiter EXCEPT ![p] = "marked"]
  /\ UNCHANGED <<mainVars, connVars, taskVars, procs, pid, alive, launcher, heir, told, editVars>>

\* The entry of the id, whichever process it stands for by now.
Mark(p) ==
  /\ Up /\ CanWrite /\ waiter[p] = "reaped"
  /\ children' = [children EXCEPT ![pid[p]].status = IF @ = "none" THEN @ ELSE "exited"]
  /\ waiter' = [waiter EXCEPT ![p] = "marked"]
  /\ UNCHANGED <<mainVars, connVars, taskVars, procs, pid, alive, launcher, heir, told, editVars>>

Tell_Early(p) ==
  /\ Up /\ waiter[p] \in {"reaped", "marked"} /\ told' = told \cup {p}
  /\ waiter' = [waiter EXCEPT ![p] = IF @ = "marked" THEN "done" ELSE @]
  /\ UNCHANGED <<mainVars, connVars, taskVars, procs, pid, alive, launcher, heir, children, editVars>>

\* child.exited to the connection that launched it, if its channel is there.
Tell(p) ==
  /\ Up /\ waiter[p] = "marked" /\ waiter' = [waiter EXCEPT ![p] = "done"]
  /\ told' = IF \E c \in Conns : launcher[p] = c /\ conn[c] # "closed" THEN told \cup {p} ELSE told
  /\ UNCHANGED <<mainVars, connVars, taskVars, procs, pid, alive, launcher, heir, children, editVars>>

\* 120 s pass, on which an entry is dropped by the prune task or by apps.ps.
Age(i) ==
  /\ Up /\ children[i].status = "exited"
  /\ children' = [children EXCEPT ![i].status = "old"]
  /\ UNCHANGED <<mainVars, connVars, taskVars, procVars, editVars>>

Prune ==
  /\ Up /\ CanWrite /\ \E i \in Pids : children[i].status = "old"
  /\ children' = [i \in Pids |-> IF children[i].status = "old" THEN NoEntry ELSE children[i]]
  /\ UNCHANGED <<mainVars, connVars, taskVars, procVars, editVars>>

\* apps.kill: the entry is looked at, then the lock is given back.
KillCheck(c, i) ==
  /\ Request(c) /\ children[i].status = "running" /\ Begin(c, "signal", i)
  /\ UNCHANGED <<mainVars, connVars, procVars, children, editVars>>

\* SIGTERM, which the process may ignore; kill(1) may fail.
KillSignal(c) ==
  /\ Up /\ at[c] = "signal" /\ alive' \in {alive, Struck(arg[c])} /\ End(c) /\ Loops(c)
  /\ UNCHANGED <<mainVars, role, registered, procs, pid, waiter, launcher, heir, told, children,
                 editVars>>

(***************************************************************************)
(* main                                                                    *)
(***************************************************************************)
\* run_server binds the socket and launches the applications marked for it.
AutoLaunch(i) ==
  /\ phase = "starting" /\ at[0] = "idle" /\ procs < AutoStart /\ Spawn(0, i)
  /\ UNCHANGED <<mainVars, connVars, children, editVars>>

Serve ==
  /\ phase = "starting" /\ at[0] = "idle" /\ procs = AutoStart /\ phase' = "serving"
  /\ UNCHANGED <<shuttingDown, toKill, missed, connVars, taskVars, procVars, children, editVars>>

\* SIGTERM or SIGINT: run_server is dropped wherever it waits.
Sigterm ==
  /\ phase \in {"starting", "serving"} /\ phase' = "grace" /\ shuttingDown' = TRUE /\ End(0)
  /\ UNCHANGED <<toKill, missed, connVars, procVars, children, editVars>>

Shutdown(c) ==
  /\ Request(c) /\ shuttingDown' = TRUE /\ conn' = [conn EXCEPT ![c] = "leaving"]
  /\ UNCHANGED <<phase, toKill, missed, role, registered, taskVars, procVars, children, editVars>>

\* perform_graceful_shutdown after its two seconds, in which everybody else goes on.
KillBegin ==
  /\ phase = "grace" /\ phase' = "killing"
  /\ toKill' = {i \in Pids : children[i].status = "running"}
  /\ UNCHANGED <<shuttingDown, missed, connVars, taskVars, procVars, children, editVars>>

KillNext_Recorded(i) ==
  /\ phase = "killing" /\ i \in toKill /\ alive' = Struck(i)
  /\ toKill' = IF children[i].status = "running" THEN toKill ELSE toKill \ {i}
  /\ UNCHANGED <<phase, shuttingDown, missed, connVars, taskVars, procs, pid, waiter, launcher, heir, told,
                 children, editVars>>

\* kill(1) may fail or not start, which is at most logged: the loop goes on.
KillNext(i) ==
  /\ phase = "killing" /\ i \in toKill /\ toKill' = toKill \ {i}
  /\ \/ alive' = Struck(i) /\ missed' = missed
     \/ alive' = alive /\ missed' = missed \cup Holder(i)
  /\ UNCHANGED <<phase, shuttingDown, connVars, taskVars, procs, pid, waiter, launcher, heir, told,
                 children, editVars>>

Exit_Early ==
  /\ phase = "killing" /\ phase' = "gone"
  /\ UNCHANGED <<shuttingDown, toKill, missed, connVars, taskVars, procVars, children, editVars>>

Exit ==
  /\ phase = "killing" /\ toKill = {} /\ phase' = "gone"
  /\ UNCHANGED <<shuttingDown, toKill, missed, connVars, taskVars, procVars, children, editVars>>

(***************************************************************************)
(* The specification                                                       *)
(***************************************************************************)
ConnStep(c) ==
  \/ \E r \in Roles : Accept(c, r)
  \/ Hello(c) \/ Disconnect(c) \/ Unregister(c) \/ Close(c)
  \/ EditPick(c) \/ EditPush(c) \/ Deliver(c)
  \/ \E i \in Pids : Launch(c, i) \/ KillCheck(c, i)
  \/ KillSignal(c) \/ Shutdown(c)

WaitStep(p) == Reap(p) \/ Mark(p) \/ Tell(p)

MainStep == Serve \/ KillBegin \/ (\E i \in Pids : AutoLaunch(i) \/ KillNext(i)) \/ Exit

Next ==
  \/ MainStep \/ Sigterm \/ Prune
  \/ \E c \in Conns : ConnStep(c)
  \/ \E t \in Tasks : Insert(t)
  \/ \E p \in Procs : ProcessExits(p) \/ WaitStep(p)
  \/ \E i \in Pids : Age(i)

Spec == Init /\ [][Next]_vars

\* The runtime runs every ready task, grants the lock in order, and main's timer fires.
\* Nobody has to connect, to ask for anything or to end.
FairSpec ==
  /\ Spec
  /\ WF_vars(MainStep)
  /\ \A t \in Tasks : WF_vars(Insert(t))
  /\ \A p \in Procs : WF_vars(WaitStep(p))

(***************************************************************************)
(* Properties                                                              *)
(***************************************************************************)
Entry(p, s) == children[pid[p]] = [proc |-> p, status |-> s]

\* A process that runs is listed as running under its id from its insertion on: it can
\* be killed by request and by the shutdown.  Except for one that got its id in the
\* moment between the end of an older process and the record of that end: the wait
\* task of the older one marks it as exited.
RunningIsListed ==
  \A p \in Procs :
    alive[p] = "running" /\ waiter[p] # "none" => Entry(p, "running") \/ p \in heir

\* Nobody is told of an exit before apps.ps shows it (apps.rs:413-420).
ToldMeansRecorded == \A p \in told : ~Entry(p, "running")

\* What apps.ps lists is so: a running process is listed, one said to have exited is not.
ListingIsTrue == RunningIsListed /\ ToldMeansRecorded

\* When the server ends, what still runs was never listed (a launch that was under way
\* when the shutdown began to kill, or one of the start that the signal interrupted),
\* was mistaken for another process, or is one that the shutdown did try to kill and
\* kill(1) failed on.  None is passed over, whatever is launched, ends or is recorded
\* while the loop goes on.
NothingListedSurvives ==
  phase = "gone" => \A p \in Procs :
    alive[p] = "running" => waiter[p] = "none" \/ p \in heir \cup missed

\* An edit is given to a connection that was registered, and it waits only in a channel
\* that somebody may still empty: one answered as routed is written, or lost with a
\* connection that ended after it was picked, never left with one that had gone
\* (router.rs:293-304).  A registration ends before its connection does (connection.rs:55).
EditsGoToTheRegistered ==
  /\ \A c \in registered : conn[c] \in {"ready", "leaving"}
  /\ \A e \in DOMAIN edit :
       /\ edit[e].state # "none" => conn[edit[e].conn] \in {"ready", "leaving", "cleaning", "closed"}
       /\ edit[e].state = "queued" => edit[e].conn \in registered \/ conn[edit[e].conn] = "cleaning"

(* Why they hold: the inductive invariant *)

\* Process ids of what the kernel still keeps are unique; a wait task is ahead of its
\* process nowhere; what is to be inserted is nobody else's.
Held(p) == alive[p] \in {"running", "zombie"}
ProcessesAgree ==
  /\ \A p \in Procs :
       /\ p > procs => alive[p] = "none" /\ waiter[p] = "none"
       /\ p <= procs => alive[p] # "none" /\ pid[p] \in Pids
       /\ waiter[p] = "none" => alive[p] # "reaped"
       /\ waiter[p] = "waiting" => Held(p)
       /\ waiter[p] \in {"reaped", "marked", "done"} => alive[p] = "reaped"
       /\ p \in told => waiter[p] = "done"
  /\ \A p, q \in Procs : Held(p) /\ Held(q) /\ pid[p] = pid[q] => p = q
InsertsAgree ==
  /\ \A t \in Tasks : at[t] = "insert" =>
       arg[t] \in Procs /\ waiter[arg[t]] = "none" /\ Held(arg[t])
  /\ \A t, u \in Tasks : at[t] = "insert" /\ at[u] = "insert" /\ arg[t] = arg[u] => t = u

\* Whoever has the id of a process whose end is not recorded yet is known as its heir.
HeirsAreKnown ==
  \A p, q \in Procs : waiter[p] = "reaped" /\ Held(q) /\ pid[q] = pid[p] => q \in heir

\* A process whose end was recorded is not listed as running.
RecordedIsExited == \A p \in Procs : waiter[p] \in {"marked", "done"} => ~Entry(p, "running")

\* What the shutdown has still to kill.
KillsAreDue ==
  /\ phase \in {"killing", "gone"} =>
       \A p \in Procs : alive[p] = "running" /\ waiter[p] # "none" =>
         pid[p] \in toKill \/ p \in heir \cup missed
  /\ phase = "gone" => toKill = {}

\* Only a connection that is ready is in the middle of something; an edit was given to
\* a connection that is registered or has been unregistered since.
EditsAgree ==
  /\ \A c \in Conns : at[c] # "idle" => conn[c] = "ready"
  /\ \A c \in Conns : at[c] = "push" => arg[c] \in DOMAIN edit /\ edit[arg[c]].state # "none"
  /\ \A e \in DOMAIN edit : edit[e].state # "none" =>
       /\ edit[e].conn \in Conns
       /\ edit[e].conn \in registered \/ conn[edit[e].conn] \in {"cleaning", "closed"}

IInv == /\ TypeOK
        /\ ProcessesAgree /\ InsertsAgree /\ HeirsAreKnown /\ RecordedIsExited
        /\ RunningIsListed /\ KillsAreDue
        /\ EditsAgree /\ EditsGoToTheRegistered

\* Edits reach the window, since the connections of terminals do not declare "events"
\* (router.rs:271-273, socket.rs:132-134).
EditsReachAWindow == \A e \in DOMAIN edit : edit[e].state = "written" => role[edit[e].conn] = "window"

\* While the server is up every exit of a listed process gets recorded, whatever locks
\* are held in between.
ExitsAreRecorded ==
  <>[](\/ phase = "gone"
       \/ \A p \in Procs : waiter[p] # "none" /\ alive[p] # "running" => ~Entry(p, "running"))

\* A shutdown that was begun ends, though launches and wait tasks want the lock it holds.
ShutdownEnds == phase = "grace" ~> phase = "gone"
=============================================================================

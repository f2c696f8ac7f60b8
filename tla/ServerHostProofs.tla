-------------------------- MODULE ServerHostProofs --------------------------
(***************************************************************************)
(* ServerHost for any number of connections, processes and process ids:    *)
(* the list of processes is true, the shutdown passes over nothing listed, *)
(* and edits go to connections that registered.                            *)
(*                                                                         *)
(* IInv is inductive.  It is shown in three parts, each with one step per  *)
(* action: the types, what the processes and their wait tasks agree on     *)
(* with the kernel and the table, and what the connections and edits agree *)
(* on.  A step of the second part that leaves the processes and the table  *)
(* alone is Quiet and handled once.                                        *)
(***************************************************************************)
EXTENDS ServerHost, TLAPS

LEMMA InitIInv == Init => IInv
<1> SUFFICES ASSUME Init PROVE IInv
  OBVIOUS
<1> USE HostAssumption
<1>1. TypeOK
  <2>1. 0 \in Tasks /\ 0 \in 0..MaxProcs /\ 0 \in 0..MaxEdits
    BY DEF Tasks
  <2>2. NoEntry \in [proc : 0..MaxProcs, status : {"none", "running", "exited", "old"}]
    BY <2>1 DEF NoEntry
  <2>3. NoEdit \in [conn : Tasks,
                    state : {"none", "picked", "queued", "written", "dropped", "refused"}]
    BY <2>1 DEF NoEdit
  <2> QED
    BY <2>1, <2>2, <2>3 DEF Init, TypeOK
<1>2. ProcessesAgree /\ InsertsAgree /\ HeirsAreKnown /\ RecordedIsExited /\ RunningIsListed
  BY DEF Init, ProcessesAgree, Held, InsertsAgree, HeirsAreKnown, RecordedIsExited,
         RunningIsListed, Procs, Tasks
<1>3. KillsAreDue /\ EditsAgree /\ EditsGoToTheRegistered
  BY DEF Init, KillsAreDue, EditsAgree, EditsGoToTheRegistered, NoEdit, Conns, Tasks
<1> QED
  BY <1>1, <1>2, <1>3 DEF IInv

-----------------------------------------------------------------------------
(* Types *)

\* What the helpers make of well-typed state.
LEMMA HelpersTyped ==
  ASSUME TypeOK
  PROVE  /\ \A t \in Tasks : End(t) => /\ at' \in [Tasks -> {"idle", "insert", "signal", "push"}]
                                       /\ arg' \in [Tasks -> Nat \cup Pids]
         /\ \A c \in Conns : Loops(c) =>
              conn' \in [Conns -> {"none", "open", "ready", "leaving", "cleaning", "closed"}]
         /\ \A i : Struck(i) \in [Procs -> {"none", "running", "zombie", "reaped"}]
         /\ Conns \subseteq Tasks
<1>1. ASSUME NEW t \in Tasks, End(t)
      PROVE  /\ at' \in [Tasks -> {"idle", "insert", "signal", "push"}]
             /\ arg' \in [Tasks -> Nat \cup Pids]
  BY <1>1 DEF TypeOK, End
<1>2. ASSUME NEW c \in Conns, Loops(c)
      PROVE  conn' \in [Conns -> {"none", "open", "ready", "leaving", "cleaning", "closed"}]
  BY <1>2 DEF TypeOK, Loops
<1>3. ASSUME NEW i PROVE Struck(i) \in [Procs -> {"none", "running", "zombie", "reaped"}]
  BY DEF TypeOK, Struck
<1>4. Conns \subseteq Tasks
  BY HostAssumption DEF Conns, Tasks
<1> QED
  BY <1>1, <1>2, <1>3, <1>4

LEMMA SpawnTyped ==
  ASSUME TypeOK, NEW t \in Tasks, NEW i \in Pids, Spawn(t, i), UNCHANGED children
  PROVE  /\ at' \in [Tasks -> {"idle", "insert", "signal", "push"}]
         /\ arg' \in [Tasks -> Nat \cup Pids]
         /\ procs' \in 0..MaxProcs
         /\ pid' \in [Procs -> Pids \cup {NoPid}]
         /\ alive' \in [Procs -> {"none", "running", "zombie", "reaped"}]
         /\ launcher' \in [Procs -> Tasks]
         /\ waiter' \in [Procs -> {"none", "waiting", "reaped", "marked", "done"}]
         /\ heir' \subseteq Procs /\ told' \subseteq Procs
<1>1. procs + 1 \in 0..MaxProcs /\ procs + 1 \in Procs /\ procs + 1 \in Nat
  BY HostAssumption DEF Spawn, TypeOK, Procs
<1>2. heir' \subseteq Procs
  BY <1>1 DEF Spawn, TypeOK
<1>3. /\ at' \in [Tasks -> {"idle", "insert", "signal", "push"}]
      /\ arg' \in [Tasks -> Nat \cup Pids]
  BY <1>1 DEF Spawn, TypeOK, Begin
<1> QED
  BY <1>1, <1>2, <1>3 DEF Spawn, TypeOK

LEMMA RouteTyped ==
  ASSUME TypeOK, NEW c \in Conns, edits < MaxEdits, edits' = edits + 1,
         NEW targets \in SUBSET Conns, Route(c, targets)
  PROVE  /\ conn' \in [Conns -> {"none", "open", "ready", "leaving", "cleaning", "closed"}]
         /\ at' \in [Tasks -> {"idle", "insert", "signal", "push"}]
         /\ arg' \in [Tasks -> Nat \cup Pids]
         /\ edit' \in [1..MaxEdits -> [conn : Tasks,
                       state : {"none", "picked", "queued", "written", "dropped", "refused"}]]
         /\ edits' \in 0..MaxEdits
<1>1. edits' \in 0..MaxEdits /\ edits + 1 \in Nat
  BY HostAssumption DEF TypeOK
<1>2. CASE targets = {}
  BY <1>1, <1>2, HelpersTyped DEF Route, TypeOK, taskVars
<1>3. CASE targets # {}
  <2>1. PICK oldest \in targets :
          /\ edit' = [edit EXCEPT ![edits + 1] = [conn |-> oldest, state |-> "picked"]]
          /\ Begin(c, "push", edits + 1) /\ UNCHANGED conn
    BY <1>3 DEF Route
  <2>2. oldest \in Tasks
    BY HelpersTyped
  <2> QED
    BY <1>1, <2>1, <2>2 DEF TypeOK, Begin
<1> QED
  BY <1>2, <1>3

LEMMA EditTyped ==
  ASSUME TypeOK, NEW e \in DOMAIN edit,
         NEW s \in {"queued", "written", "dropped", "refused"}
  PROVE  [edit[e] EXCEPT !.state = s] \in
           [conn : Tasks, state : {"none", "picked", "queued", "written", "dropped", "refused"}]
BY DEF TypeOK

LEMMA ConnTyped ==
  ASSUME TypeOK, EditsAgree, NEW c \in Conns, ConnStep(c)
  PROVE  TypeOK'
<1> USE DEF mainVars, connVars, taskVars, procVars, editVars
<1>1. ASSUME NEW r \in Roles, Accept(c, r) PROVE TypeOK'
  BY <1>1 DEF TypeOK, Accept
<1>2. CASE Hello(c)
  BY <1>2 DEF TypeOK, Hello
<1>3. CASE Disconnect(c)
  BY <1>3 DEF TypeOK, Disconnect
<1>4. CASE Close(c)
  <2>1. edit' \in [1..MaxEdits -> [conn : Tasks,
                     state : {"none", "picked", "queued", "written", "dropped", "refused"}]]
    BY <1>4, EditTyped DEF TypeOK, Close
  <2> QED
    BY <1>4, <2>1 DEF TypeOK, Close
<1>5. CASE EditPick(c)
  BY <1>5, RouteTyped DEF TypeOK, EditPick, Takers
<1>6. CASE EditPush(c)
  <2>1. arg[c] \in DOMAIN edit
    BY <1>6 DEF EditPush, EditsAgree
  <2>2. PICK s \in {"queued", "refused"} : edit' = [edit EXCEPT ![arg[c]].state = s]
    BY <1>6 DEF EditPush
  <2>3. edit' \in [1..MaxEdits -> [conn : Tasks,
                     state : {"none", "picked", "queued", "written", "dropped", "refused"}]]
    BY <2>1, <2>2 DEF TypeOK
  <2> QED
    BY <1>6, <2>3, HelpersTyped DEF TypeOK, EditPush
<1>7. CASE Deliver(c)
  BY <1>7, HelpersTyped DEF TypeOK, Deliver
<1>8. ASSUME NEW i \in Pids, Launch(c, i) PROVE TypeOK'
  BY <1>8, SpawnTyped, HelpersTyped DEF TypeOK, Launch
<1>9. ASSUME NEW i \in Pids, KillCheck(c, i) PROVE TypeOK'
  BY <1>9, HelpersTyped DEF TypeOK, KillCheck, Begin
<1>10. CASE KillSignal(c)
  <2>1. alive' \in [Procs -> {"none", "running", "zombie", "reaped"}]
    BY <1>10, HelpersTyped DEF TypeOK, KillSignal
  <2> QED
    BY <1>10, <2>1, HelpersTyped DEF TypeOK, KillSignal
<1>11. CASE Shutdown(c)
  BY <1>11 DEF TypeOK, Shutdown
<1>12. CASE Unregister(c)
  BY <1>12 DEF TypeOK, Unregister
<1> QED
  BY <1>1, <1>2, <1>3, <1>4, <1>5, <1>6, <1>7, <1>8, <1>9, <1>10, <1>11, <1>12 DEF ConnStep

LEMMA ProcTyped ==
  ASSUME TypeOK, InsertsAgree, ProcessesAgree,
         NEW p \in Procs, ProcessExits(p) \/ WaitStep(p)
  PROVE  TypeOK'
<1> USE DEF mainVars, connVars, taskVars, procVars, editVars
<1>1. CASE ProcessExits(p)
  BY <1>1 DEF TypeOK, ProcessExits
<1>2. CASE Reap(p)
  BY <1>2 DEF TypeOK, Reap
<1>3. CASE Mark(p)
  <2>1. PICK s \in {"none", "exited"} : children' = [children EXCEPT ![pid[p]].status = s]
    BY <1>3 DEF Mark
  <2> DEFINE Listed == [proc : 0..MaxProcs, status : {"none", "running", "exited", "old"}]
  <2>2. \A e \in Listed : [e EXCEPT !.status = s] \in Listed
    OBVIOUS
  <2>3. children \in [Pids -> Listed]
    BY DEF TypeOK
  <2> HIDE DEF Listed
  <2>4. children' = [children EXCEPT ![pid[p]] = [children[pid[p]] EXCEPT !.status = s]]
    BY <2>1
  <2>5. children' \in [Pids -> Listed]
    BY <2>2, <2>3, <2>4
  <2> QED
    BY <1>3, <2>5 DEF TypeOK, Mark, Listed
<1>4. CASE Tell(p)
  BY <1>4 DEF TypeOK, Tell
<1> QED
  BY <1>1, <1>2, <1>3, <1>4 DEF WaitStep

LEMMA InsertTyped ==
  ASSUME TypeOK, InsertsAgree, NEW t \in Tasks, Insert(t)
  PROVE  TypeOK'
<1> USE DEF mainVars, connVars, taskVars, procVars, editVars
<1>1. arg[t] \in Procs /\ arg[t] \in 0..MaxProcs
  BY DEF InsertsAgree, Insert, Procs
<1>2. children' \in [Pids -> [proc : 0..MaxProcs, status : {"none", "running", "exited", "old"}]]
  BY <1>1 DEF TypeOK, Insert
<1>3. conn' \in [Conns -> {"none", "open", "ready", "leaving", "cleaning", "closed"}]
  <2>1. t # 0 => t \in Conns
    BY HostAssumption DEF Tasks, Conns
  <2> QED
    BY <2>1, HelpersTyped DEF Insert, TypeOK
<1>4. waiter' \in [Procs -> {"none", "waiting", "reaped", "marked", "done"}]
  BY <1>1 DEF TypeOK, Insert
<1> QED
  BY <1>2, <1>3, <1>4, HelpersTyped DEF TypeOK, Insert

LEMMA RestTyped ==
  ASSUME TypeOK, MainStep \/ Sigterm \/ Prune \/ (\E i \in Pids : Age(i))
  PROVE  TypeOK'
<1> USE DEF mainVars, connVars, taskVars, procVars, editVars
<1> 0 \in Tasks
  BY HostAssumption DEF Tasks
<1>1. CASE Serve
  BY <1>1 DEF TypeOK, Serve
<1>2. CASE KillBegin
  BY <1>2 DEF TypeOK, KillBegin
<1>3. ASSUME NEW i \in Pids, AutoLaunch(i) PROVE TypeOK'
  BY <1>3, SpawnTyped DEF TypeOK, AutoLaunch
<1>4. ASSUME NEW i \in Pids, KillNext(i) PROVE TypeOK'
  <2>1. /\ alive' \in [Procs -> {"none", "running", "zombie", "reaped"}]
        /\ missed' \subseteq Procs
    BY <1>4, HelpersTyped DEF TypeOK, KillNext, Holder
  <2> QED
    BY <1>4, <2>1 DEF TypeOK, KillNext
<1>5. CASE Exit
  BY <1>5 DEF TypeOK, Exit
<1>6. CASE Sigterm
  BY <1>6, HelpersTyped DEF TypeOK, Sigterm
<1>7. CASE Prune
  BY <1>7, HostAssumption DEF TypeOK, Prune, NoEntry
<1>8. ASSUME NEW i \in Pids, Age(i) PROVE TypeOK'
  BY <1>8 DEF TypeOK, Age
<1> QED
  BY <1>1, <1>2, <1>3, <1>4, <1>5, <1>6, <1>7, <1>8 DEF MainStep

-----------------------------------------------------------------------------
(* The processes, their wait tasks and the table *)

ProcessPart == /\ ProcessesAgree /\ InsertsAgree /\ HeirsAreKnown
               /\ RecordedIsExited /\ RunningIsListed /\ KillsAreDue

\* A step that starts no insertion and does not go on with the shutdown.
NoNewInsert == \A t \in Tasks : at'[t] = "insert" => at[t] = "insert" /\ arg'[t] = arg[t]
SamePhase == phase' \in {"killing", "gone"} => UNCHANGED <<phase, toKill, missed>>

LEMMA Quiet ==
  ASSUME TypeOK, ProcessPart, UNCHANGED <<procVars, children>>, NoNewInsert, SamePhase
  PROVE  ProcessPart'
<1> USE DEF procVars
<1>1. ProcessesAgree' /\ HeirsAreKnown'
  BY DEF ProcessPart, ProcessesAgree, HeirsAreKnown, Held
<1>2. InsertsAgree'
  BY DEF ProcessPart, InsertsAgree, Held, NoNewInsert
<1>3. RecordedIsExited' /\ RunningIsListed'
  BY DEF ProcessPart, RecordedIsExited, RunningIsListed, Entry
<1>4. KillsAreDue'
  BY DEF ProcessPart, KillsAreDue, SamePhase
<1> QED
  BY <1>1, <1>2, <1>3, <1>4 DEF ProcessPart

\* Ending what a task is in the middle of, or beginning something else, inserts nothing.
LEMMA NothingInserted ==
  ASSUME TypeOK, NEW t \in Tasks
  PROVE  /\ End(t) => NoNewInsert
         /\ \A x : Begin(t, "signal", x) => NoNewInsert
         /\ \A x : Begin(t, "push", x) => NoNewInsert
         /\ UNCHANGED taskVars => NoNewInsert
BY DEF TypeOK, End, Begin, NoNewInsert, taskVars

LEMMA SpawnStep ==
  ASSUME TypeOK, TypeOK', ProcessPart, NEW t \in Tasks, NEW i \in Pids, at[t] = "idle",
         Spawn(t, i), UNCHANGED children, SamePhase
  PROVE  ProcessPart'
<1> DEFINE p == procs + 1
<1>1. /\ p \in Procs /\ procs < p
      /\ alive[p] = "none" /\ waiter[p] = "none"
  BY HostAssumption DEF Spawn, TypeOK, Procs, ProcessPart, ProcessesAgree
<1>2. /\ alive' = [alive EXCEPT ![p] = "running"] /\ pid' = [pid EXCEPT ![p] = i]
      /\ procs' = p /\ waiter' = waiter /\ told' = told
      /\ heir \subseteq heir'
      /\ (\E q \in Procs : pid[q] = i /\ waiter[q] = "reaped") => p \in heir'
      /\ at' = [at EXCEPT ![t] = "insert"] /\ arg' = [arg EXCEPT ![t] = p]
  BY DEF Spawn, Begin
<1>3. /\ alive'[p] = "running" /\ pid'[p] = i
      /\ \A q \in Procs : q # p => alive'[q] = alive[q] /\ pid'[q] = pid[q]
  BY <1>1, <1>2 DEF TypeOK
<1>4. \A q \in Procs : Held(q) => pid[q] # i
  BY DEF Spawn, Holder, Held
<1>5. \A q \in Procs : Held(q)' <=> Held(q) \/ q = p
  BY <1>3 DEF Held
<1>6. ProcessesAgree'
  <2>1. \A q \in Procs : q <= p => q <= procs \/ q = p
    BY DEF TypeOK, Procs
  <2>2. \A q \in Procs :
          /\ q > procs' => alive'[q] = "none" /\ waiter'[q] = "none"
          /\ q <= procs' => alive'[q] # "none" /\ pid'[q] \in Pids
    <3> SUFFICES ASSUME NEW q \in Procs
                 PROVE  /\ q > p => alive'[q] = "none" /\ waiter'[q] = "none"
                        /\ q <= p => alive'[q] # "none" /\ pid'[q] \in Pids
      BY <1>2
    <3>1. q > p => q # p /\ q > procs
      BY DEF TypeOK, Procs
    <3>2. q > p => alive'[q] = "none" /\ waiter'[q] = "none"
      BY <1>2, <1>3, <3>1 DEF ProcessPart, ProcessesAgree
    <3>3. q <= p => alive'[q] # "none" /\ pid'[q] \in Pids
      BY <1>3, <2>1 DEF ProcessPart, ProcessesAgree
    <3> QED
      BY <3>2, <3>3
  <2>3. \A q \in Procs :
          /\ waiter'[q] = "none" => alive'[q] # "reaped"
          /\ waiter'[q] = "waiting" => Held(q)'
          /\ waiter'[q] \in {"reaped", "marked", "done"} => alive'[q] = "reaped"
          /\ q \in told' => waiter'[q] = "done"
    BY <1>1, <1>2, <1>3, <1>5 DEF ProcessPart, ProcessesAgree
  <2>4. \A q, r \in Procs : Held(q)' /\ Held(r)' /\ pid'[q] = pid'[r] => q = r
    BY <1>1, <1>3, <1>4, <1>5 DEF ProcessPart, ProcessesAgree
  <2> QED
    BY <2>2, <2>3, <2>4 DEF ProcessesAgree
<1>7. InsertsAgree'
  <2>1. at'[t] = "insert" /\ arg'[t] = p
        /\ \A u \in Tasks : u # t => at'[u] = at[u] /\ arg'[u] = arg[u]
    BY <1>2 DEF TypeOK
  <2>2. \A u \in Tasks : at[u] = "insert" => arg[u] # p
    BY <1>1 DEF ProcessPart, InsertsAgree, Held
  <2> QED
    BY <1>1, <1>2, <1>5, <2>1, <2>2 DEF ProcessPart, InsertsAgree
<1>8. HeirsAreKnown'
  BY <1>1, <1>2, <1>3, <1>5 DEF ProcessPart, HeirsAreKnown
<1>9. RecordedIsExited' /\ RunningIsListed'
  BY <1>1, <1>2, <1>3 DEF ProcessPart, RecordedIsExited, RunningIsListed, Entry
<1>10. KillsAreDue'
  BY <1>1, <1>2, <1>3 DEF ProcessPart, KillsAreDue, SamePhase
<1> QED
  BY <1>6, <1>7, <1>8, <1>9, <1>10 DEF ProcessPart

LEMMA InsertStep ==
  ASSUME TypeOK, ProcessPart, NEW t \in Tasks, Insert(t)
  PROVE  ProcessPart'
<1> DEFINE p == arg[t]
<1>1. p \in Procs /\ waiter[p] = "none" /\ Held(p) /\ pid[p] \in Pids
  <2>1. p \in Procs /\ waiter[p] = "none" /\ Held(p)
    BY DEF Insert, ProcessPart, InsertsAgree
  <2>2. p <= procs
    BY <2>1 DEF ProcessPart, ProcessesAgree, Held, TypeOK, Procs
  <2> QED
    BY <2>1, <2>2 DEF ProcessPart, ProcessesAgree
<1>2. /\ waiter'[p] = "waiting" /\ \A q \in Procs : q # p => waiter'[q] = waiter[q]
      /\ children'[pid[p]] = [proc |-> p, status |-> "running"]
      /\ \A i \in Pids : i # pid[p] => children'[i] = children[i]
      /\ alive' = alive /\ pid' = pid /\ procs' = procs /\ told' = told /\ heir' = heir
  BY <1>1 DEF Insert, TypeOK
<1>3. \A q \in Procs : Held(q)' <=> Held(q)
  BY <1>2 DEF Held
<1>4. \A q \in Procs : Held(q) /\ pid[q] = pid[p] => q = p
  BY <1>1 DEF ProcessPart, ProcessesAgree
<1>5. ProcessesAgree'
  BY <1>1, <1>2, <1>3 DEF ProcessPart, ProcessesAgree, Held
<1>6. InsertsAgree'
  <2>1. \A u \in Tasks : at'[u] = "insert" => u # t /\ at[u] = "insert" /\ arg'[u] = arg[u]
    BY DEF Insert, End, TypeOK
  <2>2. \A u \in Tasks : at'[u] = "insert" => arg[u] # p
    BY <2>1 DEF Insert, ProcessPart, InsertsAgree
  <2> QED
    BY <1>2, <1>3, <2>1, <2>2 DEF ProcessPart, InsertsAgree
<1>7. HeirsAreKnown'
  BY <1>2, <1>3 DEF ProcessPart, HeirsAreKnown
<1>8. RecordedIsExited'
  <2> SUFFICES ASSUME NEW q \in Procs, waiter'[q] \in {"marked", "done"}, Entry(q, "running")'
               PROVE  FALSE
    BY DEF RecordedIsExited
  <2>1. q # p /\ waiter[q] = waiter'[q] /\ pid'[q] = pid[q]
    BY <1>2
  <2>2. pid[q] # pid[p]
    BY <1>2, <2>1 DEF Entry
  <2>3. pid[q] \in Pids
    <3>1. alive[q] = "reaped"
      BY <2>1 DEF ProcessPart, ProcessesAgree
    <3>2. q <= procs
      BY <3>1 DEF ProcessPart, ProcessesAgree, TypeOK, Procs
    <3> QED
      BY <3>2 DEF ProcessPart, ProcessesAgree
  <2>4. Entry(q, "running")
    BY <1>2, <2>2, <2>3 DEF Entry
  <2> QED
    BY <2>1, <2>4 DEF ProcessPart, RecordedIsExited
<1>9. RunningIsListed'
  <2> SUFFICES ASSUME NEW q \in Procs, alive'[q] = "running", waiter'[q] # "none"
               PROVE  Entry(q, "running")' \/ q \in heir'
    BY DEF RunningIsListed
  <2>1. CASE q = p
    BY <1>2, <2>1 DEF Entry
  <2>2. CASE q # p
    <3>1. pid[q] # pid[p]
      BY <1>2, <1>4, <2>2 DEF Held
    <3>2. q <= procs
      BY <1>2 DEF ProcessPart, ProcessesAgree, TypeOK, Procs
    <3>3. pid[q] \in Pids
      BY <3>2 DEF ProcessPart, ProcessesAgree
    <3> QED
      BY <1>2, <2>2, <3>1, <3>3 DEF ProcessPart, RunningIsListed, Entry
  <2> QED
    BY <2>1, <2>2
<1>10. KillsAreDue'
  BY DEF Insert, CanWrite, Up, mainVars, KillsAreDue
<1> QED
  BY <1>5, <1>6, <1>7, <1>8, <1>9, <1>10 DEF ProcessPart

\* A process of which an entry may tell has an id.
LEMMA HasId ==
  ASSUME TypeOK, ProcessPart, NEW p \in Procs, alive[p] # "none" \/ waiter[p] # "none"
  PROVE  pid[p] \in Pids
<1>1. p <= procs
  BY DEF ProcessPart, ProcessesAgree, TypeOK, Procs
<1> QED
  BY <1>1 DEF ProcessPart, ProcessesAgree

\* Processes end or are struck: some that ran are zombies now, nothing else changes.
LEMMA StruckStep ==
  ASSUME TypeOK, ProcessPart, NEW S \in SUBSET Procs,
         alive' = [p \in Procs |-> IF p \in S /\ Held(p) THEN "zombie" ELSE alive[p]],
         UNCHANGED <<procs, pid, waiter, heir, told, children>>,
         NoNewInsert, SamePhase
  PROVE  ProcessPart'
<1>1. \A p \in Procs : /\ Held(p)' <=> Held(p)
                       /\ alive'[p] = "running" => alive[p] = "running"
                       /\ alive'[p] \in {"none", "reaped"} <=> alive[p] \in {"none", "reaped"}
                       /\ alive'[p] \in {"none", "reaped"} => alive'[p] = alive[p]
  BY DEF Held, TypeOK
<1>2. ProcessesAgree'
  BY <1>1 DEF ProcessPart, ProcessesAgree
<1>3. InsertsAgree'
  BY <1>1 DEF ProcessPart, InsertsAgree, NoNewInsert
<1>4. HeirsAreKnown' /\ RecordedIsExited'
  BY <1>1 DEF ProcessPart, HeirsAreKnown, RecordedIsExited, Entry
<1>5. RunningIsListed' /\ KillsAreDue'
  BY <1>1 DEF ProcessPart, RunningIsListed, KillsAreDue, Entry, SamePhase
<1> QED
  BY <1>2, <1>3, <1>4, <1>5 DEF ProcessPart

LEMMA ExitsStep ==
  ASSUME TypeOK, ProcessPart, NEW p \in Procs, ProcessExits(p)
  PROVE  ProcessPart'
<1>1. alive' = [q \in Procs |-> IF q \in {p} /\ Held(q) THEN "zombie" ELSE alive[q]]
  BY DEF ProcessExits, Held, TypeOK
<1>2. {p} \in SUBSET Procs /\ NoNewInsert /\ SamePhase
  BY DEF ProcessExits, taskVars, mainVars, NoNewInsert, SamePhase
<1> QED
  BY <1>1, <1>2, StruckStep DEF ProcessExits

LEMMA SignalStep ==
  ASSUME TypeOK, ProcessPart, NEW c \in Conns, KillSignal(c)
  PROVE  ProcessPart'
<1>1. NoNewInsert /\ SamePhase
  BY HelpersTyped, NothingInserted DEF KillSignal, mainVars, SamePhase
<1>2. UNCHANGED <<procs, pid, waiter, heir, told, children>>
  BY DEF KillSignal
<1>3. CASE alive' = alive
  <2>1. alive' = [q \in Procs |-> IF q \in {} /\ Held(q) THEN "zombie" ELSE alive[q]]
    BY <1>3 DEF TypeOK
  <2>2. {} \in SUBSET Procs
    OBVIOUS
  <2> QED
    BY <1>1, <1>2, <2>1, <2>2, StruckStep
<1>4. CASE alive' = Struck(arg[c])
  <2>1. alive' = [q \in Procs |-> IF q \in Holder(arg[c]) /\ Held(q) THEN "zombie" ELSE alive[q]]
    BY <1>4 DEF Struck, Holder, Held
  <2>2. Holder(arg[c]) \in SUBSET Procs
    BY DEF Holder
  <2> QED
    BY <1>1, <1>2, <2>1, <2>2, StruckStep
<1> QED
  BY <1>3, <1>4 DEF KillSignal

LEMMA ReapStep ==
  ASSUME TypeOK, ProcessPart, NEW p \in Procs, Reap(p)
  PROVE  ProcessPart'
<1>1. /\ alive'[p] = "reaped" /\ waiter'[p] = "reaped"
      /\ \A q \in Procs : q # p => alive'[q] = alive[q] /\ waiter'[q] = waiter[q]
      /\ UNCHANGED <<procs, pid, heir, told, children, at, arg, phase, toKill, missed>>
      /\ waiter[p] = "waiting" /\ Held(p)
  BY DEF Reap, TypeOK, taskVars, mainVars, Held
<1>2. \A q \in Procs : Held(q)' <=> Held(q) /\ q # p
  BY <1>1 DEF Held
<1>3. ProcessesAgree'
  BY <1>1, <1>2 DEF ProcessPart, ProcessesAgree, Held
<1>4. InsertsAgree'
  BY <1>1, <1>2 DEF ProcessPart, InsertsAgree
<1>5. HeirsAreKnown'
  BY <1>1, <1>2 DEF ProcessPart, ProcessesAgree, HeirsAreKnown
<1>6. RecordedIsExited' /\ RunningIsListed' /\ KillsAreDue'
  BY <1>1 DEF ProcessPart, RecordedIsExited, RunningIsListed, KillsAreDue, Entry
<1> QED
  BY <1>3, <1>4, <1>5, <1>6 DEF ProcessPart

LEMMA MarkStep ==
  ASSUME TypeOK, ProcessPart, NEW p \in Procs, Mark(p)
  PROVE  ProcessPart'
<1>1. /\ waiter[p] = "reaped" /\ waiter'[p] = "marked"
      /\ \A q \in Procs : q # p => waiter'[q] = waiter[q]
      /\ UNCHANGED <<procs, pid, alive, heir, told, at, arg, phase, toKill, missed>>
  BY DEF Mark, TypeOK, taskVars, mainVars
<1>2. pid[p] \in Pids
  BY <1>1, HasId
<1>3. /\ children'[pid[p]].status # "running"
      /\ \A i \in Pids : i # pid[p] => children'[i] = children[i]
  BY <1>2 DEF Mark, TypeOK
<1>4. ProcessesAgree' /\ InsertsAgree' /\ HeirsAreKnown'
  BY <1>1 DEF ProcessPart, ProcessesAgree, InsertsAgree, HeirsAreKnown, Held
<1>5. RecordedIsExited'
  <2> SUFFICES ASSUME NEW q \in Procs, waiter'[q] \in {"marked", "done"}, Entry(q, "running")'
               PROVE  FALSE
    BY DEF RecordedIsExited
  <2>1. pid[q] # pid[p]
    BY <1>1, <1>3 DEF Entry
  <2>2. q # p /\ waiter[q] \in {"marked", "done"}
    BY <1>1, <2>1
  <2>3. Entry(q, "running")
    BY <1>1, <1>3, <2>1, <2>2, HasId DEF Entry
  <2> QED
    BY <2>2, <2>3 DEF ProcessPart, RecordedIsExited
<1>6. RunningIsListed'
  <2> SUFFICES ASSUME NEW q \in Procs, alive'[q] = "running", waiter'[q] # "none"
               PROVE  Entry(q, "running")' \/ q \in heir'
    BY DEF RunningIsListed
  <2>1. pid[q] = pid[p] => q \in heir
    BY <1>1 DEF ProcessPart, HeirsAreKnown, Held
  <2>2. waiter[q] # "none"
    BY <1>1
  <2> QED
    BY <1>1, <1>3, <2>1, <2>2, HasId DEF ProcessPart, RunningIsListed, Entry
<1>7. KillsAreDue'
  BY <1>1 DEF ProcessPart, KillsAreDue
<1> QED
  BY <1>4, <1>5, <1>6, <1>7 DEF ProcessPart

LEMMA TellStep ==
  ASSUME TypeOK, ProcessPart, NEW p \in Procs, Tell(p)
  PROVE  ProcessPart'
<1>1. /\ waiter[p] = "marked" /\ waiter'[p] = "done" /\ told' \subseteq told \cup {p}
      /\ \A q \in Procs : q # p => waiter'[q] = waiter[q]
      /\ UNCHANGED <<procs, pid, alive, heir, children, at, arg, phase, toKill, missed>>
  BY DEF Tell, TypeOK, taskVars, mainVars
<1>2. ProcessesAgree' /\ InsertsAgree' /\ HeirsAreKnown'
  BY <1>1 DEF ProcessPart, ProcessesAgree, InsertsAgree, HeirsAreKnown, Held
<1>3. RecordedIsExited' /\ RunningIsListed' /\ KillsAreDue'
  BY <1>1 DEF ProcessPart, RecordedIsExited, RunningIsListed, KillsAreDue, Entry
<1> QED
  BY <1>2, <1>3 DEF ProcessPart

\* Entries of ended processes grow old and go.
LEMMA TableStep ==
  ASSUME TypeOK, ProcessPart, Prune \/ (\E i \in Pids : Age(i))
  PROVE  ProcessPart'
<1>1. /\ UNCHANGED <<procs, pid, alive, waiter, heir, told, at, arg, phase, toKill, missed>>
      /\ \A i \in Pids : /\ children[i].status = "running" => children'[i] = children[i]
                         /\ children'[i].status = "running" => children'[i] = children[i]
  BY DEF Prune, Age, NoEntry, TypeOK, procVars, taskVars, mainVars
<1>2. ProcessesAgree' /\ InsertsAgree' /\ HeirsAreKnown' /\ KillsAreDue'
  BY <1>1 DEF ProcessPart, ProcessesAgree, InsertsAgree, HeirsAreKnown, KillsAreDue, Held
<1>3. \A p \in Procs : waiter[p] # "none" => pid[p] \in Pids
  BY HasId
<1>4. ASSUME NEW p \in Procs, waiter[p] # "none"
      PROVE  Entry(p, "running")' <=> Entry(p, "running")
  <2> DEFINE i == pid[p]
  <2>0. i \in Pids
    BY <1>3, <1>4
  <2> HIDE DEF i
  <2>1. children'[i].status = "running" <=> children[i].status = "running"
    BY <1>1, <2>0
  <2>2. children[i].status = "running" => children'[i] = children[i]
    BY <1>1, <2>0
  <2>3. /\ Entry(p, "running") <=> children[i] = [proc |-> p, status |-> "running"]
        /\ Entry(p, "running")' <=> children'[i] = [proc |-> p, status |-> "running"]
    BY <1>1 DEF Entry, i
  <2>4. /\ Entry(p, "running") => children[i].status = "running"
        /\ Entry(p, "running")' => children'[i].status = "running"
    BY <2>3
  <2> QED
    BY <2>1, <2>2, <2>3, <2>4
<1>5. RecordedIsExited' /\ RunningIsListed'
  BY <1>1, <1>4 DEF ProcessPart, RecordedIsExited, RunningIsListed
<1> QED
  BY <1>2, <1>5 DEF ProcessPart

LEMMA MainProcess ==
  ASSUME TypeOK, TypeOK', ProcessPart, MainStep \/ Sigterm
  PROVE  ProcessPart'
<1>1. CASE Serve
  BY <1>1, Quiet, NothingInserted DEF Serve, SamePhase, NoNewInsert, taskVars
<1>2. CASE KillBegin
  <2>1. ProcessesAgree' /\ InsertsAgree' /\ HeirsAreKnown' /\ RecordedIsExited' /\ RunningIsListed'
    BY <1>2 DEF KillBegin, ProcessPart, ProcessesAgree, InsertsAgree, HeirsAreKnown,
                RecordedIsExited, RunningIsListed, Entry, Held, procVars, taskVars
  <2>2. \A p \in Procs : alive[p] = "running" => pid[p] \in Pids
    BY HasId
  <2>3. \A p \in Procs : alive[p] = "running" /\ waiter[p] # "none" => pid[p] \in toKill' \/ p \in heir \cup missed
    <3> SUFFICES ASSUME NEW p \in Procs, alive[p] = "running", waiter[p] # "none", p \notin heir
                 PROVE  pid[p] \in toKill'
      OBVIOUS
    <3>1. children[pid[p]].status = "running"
      <4>1. Entry(p, "running")
        BY DEF ProcessPart, RunningIsListed
      <4> QED
        BY <4>1 DEF Entry
    <3> QED
      BY <1>2, <2>2, <3>1 DEF KillBegin
  <2>4. KillsAreDue'
    BY <1>2, <2>3 DEF KillBegin, KillsAreDue, procVars
  <2> QED
    BY <2>1, <2>4 DEF ProcessPart
<1>3. ASSUME NEW i \in Pids, AutoLaunch(i) PROVE ProcessPart'
  <2>1. 0 \in Tasks /\ SamePhase
    BY <1>3, HostAssumption DEF AutoLaunch, mainVars, SamePhase, Tasks
  <2> QED
    BY <1>3, <2>1, SpawnStep DEF AutoLaunch
<1>4. ASSUME NEW i \in Pids, KillNext(i) PROVE ProcessPart'
  <2>1. /\ phase = "killing" /\ toKill' = toKill \ {i} /\ missed \subseteq missed'
        /\ UNCHANGED <<phase, procs, pid, waiter, heir, told, children, at, arg>>
        /\ \/ alive' = [q \in Procs |-> IF q \in Holder(i) THEN "zombie" ELSE alive[q]]
           \/ alive' = alive /\ missed' = missed \cup Holder(i)
    BY <1>4 DEF KillNext, Struck, taskVars
  <2>2. \A p \in Procs : /\ Held(p)' <=> Held(p)
                         /\ alive'[p] = "running" => alive[p] = "running" /\ (pid[p] # i \/ p \in missed')
                         /\ alive'[p] \in {"none", "reaped"} <=> alive[p] \in {"none", "reaped"}
                         /\ alive'[p] \in {"none", "reaped"} => alive'[p] = alive[p]
    BY <2>1 DEF Held, Holder, TypeOK
  <2>3. ProcessesAgree'
    BY <2>1, <2>2 DEF ProcessPart, ProcessesAgree
  <2>4. InsertsAgree' /\ HeirsAreKnown' /\ RecordedIsExited' /\ RunningIsListed'
    BY <2>1, <2>2 DEF ProcessPart, InsertsAgree, HeirsAreKnown, RecordedIsExited,
                      RunningIsListed, Entry
  <2>5. KillsAreDue'
    BY <2>1, <2>2 DEF ProcessPart, KillsAreDue
  <2> QED
    BY <2>3, <2>4, <2>5 DEF ProcessPart
<1>5. CASE Exit
  <2>1. ProcessesAgree' /\ InsertsAgree' /\ HeirsAreKnown' /\ RecordedIsExited' /\ RunningIsListed'
    BY <1>5 DEF Exit, ProcessPart, ProcessesAgree, InsertsAgree, HeirsAreKnown,
                RecordedIsExited, RunningIsListed, Entry, Held, procVars, taskVars
  <2>2. KillsAreDue'
    BY <1>5 DEF Exit, ProcessPart, KillsAreDue, procVars
  <2> QED
    BY <2>1, <2>2 DEF ProcessPart
<1>6. CASE Sigterm
  <2>1. 0 \in Tasks
    BY HostAssumption DEF Tasks
  <2> QED
    BY <1>6, <2>1, Quiet, NothingInserted DEF Sigterm, SamePhase
<1> QED
  BY <1>1, <1>2, <1>3, <1>4, <1>5, <1>6 DEF MainStep

LEMMA ConnProcess ==
  ASSUME TypeOK, TypeOK', ProcessPart, NEW c \in Conns, ConnStep(c)
  PROVE  ProcessPart'
<1>0. c \in Tasks
  BY HelpersTyped
<1>1. ASSUME NEW r \in Roles, Accept(c, r) PROVE ProcessPart'
  BY <1>0, <1>1, Quiet, NothingInserted DEF Accept, SamePhase
<1>2. CASE Hello(c) \/ Disconnect(c) \/ Unregister(c) \/ Close(c) \/ Shutdown(c)
  BY <1>0, <1>2, Quiet, NothingInserted
     DEF Hello, Disconnect, Unregister, Close, Shutdown, SamePhase, mainVars, editVars
<1>3. CASE EditPick(c)
  <2>1. NoNewInsert
    BY <1>0, <1>3, NothingInserted DEF EditPick, Route
  <2> QED
    BY <1>3, <2>1, Quiet DEF EditPick, SamePhase, mainVars
<1>4. CASE EditPush(c) \/ Deliver(c)
  BY <1>0, <1>4, Quiet, NothingInserted DEF EditPush, Deliver, SamePhase, mainVars
<1>5. ASSUME NEW i \in Pids, Launch(c, i) PROVE ProcessPart'
  BY <1>0, <1>5, SpawnStep DEF Launch, Request, SamePhase, mainVars
<1>6. ASSUME NEW i \in Pids, KillCheck(c, i) PROVE ProcessPart'
  BY <1>0, <1>6, Quiet, NothingInserted DEF KillCheck, SamePhase, mainVars
<1>7. CASE KillSignal(c)
  BY <1>7, SignalStep
<1> QED
  BY <1>1, <1>2, <1>3, <1>4, <1>5, <1>6, <1>7 DEF ConnStep

-----------------------------------------------------------------------------
(* The connections and the edits *)

EditPart == EditsAgree /\ EditsGoToTheRegistered

\* No connection is pushing that was not, none closes.
Spared == \A c \in Conns :
  /\ at'[c] # "idle" => conn'[c] = "ready"
  /\ at'[c] = "push" => at[c] = "push" /\ arg'[c] = arg[c]
  /\ \/ conn'[c] = conn[c]
     \/ conn'[c] = "leaving" /\ conn[c] \in {"open", "ready"}

LEMMA EditsAlone ==
  ASSUME TypeOK, EditPart, UNCHANGED <<registered, edits, edit>>, Spared
  PROVE  EditPart'
<1> USE DEF Spared
<1>1. \A e \in DOMAIN edit : edit[e].state # "none" => edit[e].conn \in Conns
  BY DEF EditPart, EditsAgree
<1>2. EditsAgree'
  <2>1. \A c \in Conns : /\ at'[c] # "idle" => conn'[c] = "ready"
                         /\ at'[c] = "push" => arg'[c] \in DOMAIN edit' /\ edit'[arg'[c]].state # "none"
    BY DEF EditPart, EditsAgree
  <2>2. ASSUME NEW e \in DOMAIN edit', edit'[e].state # "none"
        PROVE  /\ edit'[e].conn \in Conns
               /\ edit'[e].conn \in registered' \/ conn'[edit'[e].conn] \in {"cleaning", "closed"}
    <3>1. edit[e].conn \in Conns /\ (edit[e].conn \in registered \/ conn[edit[e].conn] \in {"cleaning", "closed"})
      BY <2>2 DEF EditPart, EditsAgree
    <3> QED
      BY <3>1
  <2> QED
    BY <2>1, <2>2 DEF EditsAgree
<1>3. /\ \A c \in registered : c \in Conns
      /\ \A c \in Conns : conn[c] = "leaving" => conn'[c] = "leaving"
  BY DEF TypeOK
<1>4. EditsGoToTheRegistered'
  <2>1. \A c \in registered' : conn'[c] \in {"ready", "leaving"}
    BY <1>3 DEF EditPart, EditsGoToTheRegistered
  <2>2. ASSUME NEW e \in DOMAIN edit'
        PROVE  /\ edit'[e].state # "none" =>
                    conn'[edit'[e].conn] \in {"ready", "leaving", "cleaning", "closed"}
               /\ edit'[e].state = "queued" =>
                    edit'[e].conn \in registered' \/ conn'[edit'[e].conn] = "cleaning"
    BY <1>1 DEF EditPart, EditsGoToTheRegistered
  <2> QED
    BY <2>1, <2>2 DEF EditsGoToTheRegistered
<1> QED
  BY <1>2, <1>4 DEF EditPart

LEMMA LoopsLeaves ==
  ASSUME TypeOK, NEW c \in Conns, Loops(c), conn[c] = "ready"
  PROVE  /\ conn'[c] \in {"ready", "leaving"}
         /\ \A d \in Conns : d # c => conn'[d] = conn[d]
<1>1. PICK s \in {"ready", "leaving"} : conn' = [conn EXCEPT ![c] = s]
  BY DEF Loops
<1> QED
  BY <1>1 DEF TypeOK

\* A task that is done with something, or begins something, as the edits see it.
LEMMA NothingPushed ==
  ASSUME TypeOK, NEW t \in Tasks
  PROVE  /\ End(t) => \A c \in Conns : at'[c] # "idle" => c # t /\ at'[c] = at[c] /\ arg'[c] = arg[c]
         /\ \A what, x : Begin(t, what, x) =>
              /\ \A c \in Conns : c # t => at'[c] = at[c] /\ arg'[c] = arg[c]
              /\ at'[t] = what /\ arg'[t] = x
<1>1. \A c \in Conns : c \in Tasks
  BY HelpersTyped
<1> QED
  BY <1>1 DEF TypeOK, End, Begin

LEMMA InsertEdits ==
  ASSUME TypeOK, EditPart, NEW t \in Tasks, Insert(t)
  PROVE  EditPart'
<1>1. UNCHANGED <<registered, edits, edit>>
  BY DEF Insert, editVars
<1>2. \A c \in Conns : at'[c] # "idle" => c # t /\ at'[c] = at[c] /\ arg'[c] = arg[c]
  BY NothingPushed DEF Insert
<1>3. \A c \in Conns : /\ c # t => conn'[c] = conn[c]
                       /\ c = t => conn[c] = "ready" /\ conn'[c] \in {"ready", "leaving"}
  <2>1. CASE t = 0
    BY <2>1, HostAssumption DEF Insert, Conns
  <2>2. CASE t # 0
    <3>1. t \in Conns /\ at[t] # "idle" /\ Loops(t)
      BY <2>2, HostAssumption DEF Insert, Conns, Tasks
    <3>2. conn[t] = "ready"
      BY <3>1 DEF EditPart, EditsAgree
    <3> QED
      BY <3>1, <3>2, LoopsLeaves
  <2> QED
    BY <2>1, <2>2
<1>4. Spared
  BY <1>2, <1>3 DEF EditPart, EditsAgree, Spared
<1> QED
  BY <1>1, <1>4, EditsAlone

\* A connection begins or ends something else, or only leaves.
LEMMA OtherEdits ==
  ASSUME TypeOK, EditPart, NEW c \in Conns,
         \/ Disconnect(c) \/ Shutdown(c) \/ KillSignal(c)
         \/ \E i \in Pids : Launch(c, i) \/ KillCheck(c, i)
  PROVE  EditPart'
<1>0. c \in Tasks
  BY HelpersTyped
<1>1. CASE Disconnect(c) \/ Shutdown(c)
  <2>1. \A d \in Conns : \/ conn'[d] = conn[d]
                         \/ conn'[d] = "leaving" /\ conn[d] \in {"open", "ready"} /\ at[d] = "idle"
    BY <1>1 DEF Disconnect, Shutdown, Request, TypeOK
  <2>2. UNCHANGED <<registered, edits, edit, at, arg>>
    BY <1>1 DEF Disconnect, Shutdown, editVars, taskVars
  <2>3. Spared
    BY <2>1, <2>2 DEF Spared, EditPart, EditsAgree
  <2> QED
    BY <2>2, <2>3, EditsAlone
<1>2. CASE KillSignal(c)
  <2>1. conn[c] = "ready" /\ Loops(c) /\ End(c) /\ UNCHANGED <<registered, edits, edit>>
    BY <1>2 DEF KillSignal, EditPart, EditsAgree, editVars
  <2>2. /\ conn'[c] \in {"ready", "leaving"}
        /\ \A d \in Conns : d # c => conn'[d] = conn[d]
    BY <2>1, LoopsLeaves
  <2>3. \A d \in Conns : at'[d] # "idle" => d # c /\ at'[d] = at[d] /\ arg'[d] = arg[d]
    BY <1>0, <2>1, NothingPushed
  <2>4. Spared
    BY <2>1, <2>2, <2>3 DEF Spared, EditPart, EditsAgree
  <2> QED
    BY <2>1, <2>4, EditsAlone
<1>3. ASSUME NEW i \in Pids, Launch(c, i) PROVE EditPart'
  <2>1. /\ conn[c] = "ready" /\ UNCHANGED <<registered, edits, edit, conn>>
        /\ Begin(c, "insert", procs + 1)
    BY <1>3 DEF Launch, Request, Spawn, connVars, editVars
  <2>2. /\ at'[c] = "insert"
        /\ \A d \in Conns : d # c => at'[d] = at[d] /\ arg'[d] = arg[d]
    BY <1>0, <2>1, NothingPushed
  <2>3. Spared
    BY <2>1, <2>2 DEF Spared, EditPart, EditsAgree
  <2> QED
    BY <2>1, <2>3, EditsAlone
<1>4. ASSUME NEW i \in Pids, KillCheck(c, i) PROVE EditPart'
  <2>1. /\ conn[c] = "ready" /\ UNCHANGED <<registered, edits, edit, conn>>
        /\ Begin(c, "signal", i)
    BY <1>4 DEF KillCheck, Request, connVars, editVars
  <2>2. /\ at'[c] = "signal"
        /\ \A d \in Conns : d # c => at'[d] = at[d] /\ arg'[d] = arg[d]
    BY <1>0, <2>1, NothingPushed
  <2>3. Spared
    BY <2>1, <2>2 DEF Spared, EditPart, EditsAgree
  <2> QED
    BY <2>1, <2>3, EditsAlone
<1> QED
  BY <1>1, <1>2, <1>3, <1>4

\* Registration and the end of it.
LEMMA RegistrationEdits ==
  ASSUME TypeOK, EditPart, NEW c \in Conns,
         Hello(c) \/ Unregister(c) \/ Close(c) \/ (\E r \in Roles : Accept(c, r))
  PROVE  EditPart'
<1>1. ASSUME NEW r \in Roles, Accept(c, r) PROVE EditPart'
  <2>1. /\ conn[c] = "none" /\ conn'[c] \in {"open", "leaving"}
        /\ \A d \in Conns : d # c => conn'[d] = conn[d]
        /\ UNCHANGED <<registered, at, arg, edit>>
    BY <1>1 DEF Accept, TypeOK, taskVars, editVars
  <2>2. EditsAgree'
    BY <2>1 DEF EditPart, EditsAgree
  <2>3. EditsGoToTheRegistered'
    <3>1. \A d \in registered' : conn'[d] \in {"ready", "leaving"}
      BY <2>1 DEF EditPart, EditsGoToTheRegistered, TypeOK
    <3>2. \A e \in DOMAIN edit : edit[e].state # "none" =>
            edit[e].conn \in Conns /\ conn[edit[e].conn] \in {"ready", "leaving", "cleaning", "closed"}
      BY DEF EditPart, EditsAgree, EditsGoToTheRegistered
    <3>3. ASSUME NEW e \in DOMAIN edit', edit'[e].state # "none"
          PROVE  conn'[edit'[e].conn] \in {"ready", "leaving", "cleaning", "closed"}
      BY <2>1, <3>2, <3>3
    <3>4. ASSUME NEW e \in DOMAIN edit', edit'[e].state = "queued"
          PROVE  edit'[e].conn \in registered' \/ conn'[edit'[e].conn] = "cleaning"
      BY <2>1, <3>2, <3>4 DEF EditPart, EditsGoToTheRegistered
    <3> QED
      BY <3>1, <3>3, <3>4 DEF EditsGoToTheRegistered
  <2> QED
    BY <2>2, <2>3 DEF EditPart
<1>2. CASE Hello(c)
  <2>1. /\ conn[c] = "open" /\ conn'[c] \in {"ready", "leaving"}
        /\ \A d \in Conns : d # c => conn'[d] = conn[d]
        /\ registered' = registered \cup {c}
        /\ UNCHANGED <<at, arg, edit>>
    BY <1>2 DEF Hello, TypeOK, taskVars, editVars
  <2>2. EditsAgree'
    BY <2>1 DEF EditPart, EditsAgree
  <2>3. EditsGoToTheRegistered'
    <3>1. \A d \in registered' : conn'[d] \in {"ready", "leaving"}
      BY <2>1 DEF EditPart, EditsGoToTheRegistered, TypeOK
    <3>2. \A e \in DOMAIN edit : edit[e].state # "none" =>
            edit[e].conn \in Conns /\ conn[edit[e].conn] \in {"ready", "leaving", "cleaning", "closed"}
      BY DEF EditPart, EditsAgree, EditsGoToTheRegistered
    <3>3. ASSUME NEW e \in DOMAIN edit', edit'[e].state # "none"
          PROVE  conn'[edit'[e].conn] \in {"ready", "leaving", "cleaning", "closed"}
      BY <2>1, <3>2, <3>3
    <3>4. ASSUME NEW e \in DOMAIN edit', edit'[e].state = "queued"
          PROVE  edit'[e].conn \in registered' \/ conn'[edit'[e].conn] = "cleaning"
      BY <2>1, <3>2, <3>4 DEF EditPart, EditsGoToTheRegistered
    <3> QED
      BY <3>1, <3>3, <3>4 DEF EditsGoToTheRegistered
  <2> QED
    BY <2>2, <2>3 DEF EditPart
<1>3. CASE Unregister(c)
  <2>1. /\ conn[c] = "leaving" /\ conn'[c] = "cleaning"
        /\ \A d \in Conns : d # c => conn'[d] = conn[d]
        /\ registered' = registered \ {c}
        /\ UNCHANGED <<at, arg, edit>>
    BY <1>3 DEF Unregister, TypeOK, taskVars, editVars
  <2>2. EditsAgree'
    BY <2>1 DEF EditPart, EditsAgree
  <2>3. EditsGoToTheRegistered'
    <3>1. \A d \in registered' : conn'[d] \in {"ready", "leaving"}
      BY <2>1 DEF EditPart, EditsGoToTheRegistered, TypeOK
    <3>2. \A e \in DOMAIN edit : edit[e].state # "none" =>
            edit[e].conn \in Conns /\ conn[edit[e].conn] \in {"ready", "leaving", "cleaning", "closed"}
      BY DEF EditPart, EditsAgree, EditsGoToTheRegistered
    <3>3. ASSUME NEW e \in DOMAIN edit', edit'[e].state # "none"
          PROVE  conn'[edit'[e].conn] \in {"ready", "leaving", "cleaning", "closed"}
      BY <2>1, <3>2, <3>3
    <3>4. ASSUME NEW e \in DOMAIN edit', edit'[e].state = "queued"
          PROVE  edit'[e].conn \in registered' \/ conn'[edit'[e].conn] = "cleaning"
      <4>1. edit[e].conn \in Conns
            /\ (edit[e].conn \in registered \/ conn[edit[e].conn] = "cleaning")
        BY <2>1, <3>2, <3>4 DEF EditPart, EditsGoToTheRegistered
      <4> QED
        BY <2>1, <4>1
    <3> QED
      BY <3>1, <3>3, <3>4 DEF EditsGoToTheRegistered
  <2> QED
    BY <2>2, <2>3 DEF EditPart
<1>4. CASE Close(c)
  <2>1. /\ conn[c] = "cleaning" /\ conn'[c] = "closed"
        /\ \A d \in Conns : d # c => conn'[d] = conn[d]
        /\ c \notin registered
        /\ UNCHANGED <<registered, at, arg>>
    BY <1>4 DEF Close, TypeOK, taskVars, EditPart, EditsGoToTheRegistered
  <2>2. /\ DOMAIN edit' = DOMAIN edit
        /\ \A e \in DOMAIN edit :
             /\ edit'[e].conn = edit[e].conn
             /\ edit'[e].state # "none" <=> edit[e].state # "none"
             /\ edit'[e].state = "queued" => edit[e].state = "queued" /\ edit[e].conn # c
    BY <1>4 DEF Close, TypeOK
  <2>3. EditsAgree'
    BY <2>1, <2>2 DEF EditPart, EditsAgree
  <2>4. EditsGoToTheRegistered'
    <3>1. \A d \in registered' : conn'[d] \in {"ready", "leaving"}
      BY <2>1 DEF EditPart, EditsGoToTheRegistered, TypeOK
    <3>2. \A e \in DOMAIN edit : edit[e].state # "none" =>
            edit[e].conn \in Conns /\ conn[edit[e].conn] \in {"ready", "leaving", "cleaning", "closed"}
      BY DEF EditPart, EditsAgree, EditsGoToTheRegistered
    <3>3. ASSUME NEW e \in DOMAIN edit', edit'[e].state # "none"
          PROVE  conn'[edit'[e].conn] \in {"ready", "leaving", "cleaning", "closed"}
      <4>1. edit[e].state # "none" /\ edit'[e].conn = edit[e].conn
        BY <2>2, <3>3
      <4> QED
        BY <2>1, <2>2, <3>2, <4>1
    <3>4. ASSUME NEW e \in DOMAIN edit', edit'[e].state = "queued"
          PROVE  edit'[e].conn \in registered' \/ conn'[edit'[e].conn] = "cleaning"
      <4>1. /\ edit[e].conn \in Conns /\ edit[e].conn # c /\ edit'[e].conn = edit[e].conn
            /\ edit[e].conn \in registered \/ conn[edit[e].conn] = "cleaning"
        BY <2>2, <3>2, <3>4 DEF EditPart, EditsGoToTheRegistered
      <4> QED
        BY <2>1, <4>1
    <3> QED
      BY <3>1, <3>3, <3>4 DEF EditsGoToTheRegistered
  <2> QED
    BY <2>3, <2>4 DEF EditPart
<1> QED
  BY <1>1, <1>2, <1>3, <1>4

LEMMA PickEdits ==
  ASSUME TypeOK, EditPart, NEW c \in Conns, EditPick(c)
  PROVE  EditPart'
<1>0. c \in Tasks
  BY HelpersTyped
<1>1. conn[c] = "ready" /\ at[c] = "idle" /\ UNCHANGED registered
  BY DEF EditPick, Request
<1>2. edits + 1 \in DOMAIN edit
  BY HostAssumption DEF EditPick, TypeOK
<1>3. CASE Takers = {}
  <2>1. Loops(c) /\ UNCHANGED <<taskVars, edit>>
    BY <1>3 DEF EditPick, Route
  <2>2. /\ conn'[c] \in {"ready", "leaving"}
        /\ \A d \in Conns : d # c => conn'[d] = conn[d]
    BY <1>1, <2>1, LoopsLeaves
  <2>3. EditsAgree'
    BY <1>1, <2>1, <2>2 DEF EditPart, EditsAgree, taskVars
  <2>4. EditsGoToTheRegistered'
    BY <1>1, <2>1, <2>2 DEF EditPart, EditsAgree, EditsGoToTheRegistered, TypeOK
  <2> QED
    BY <2>3, <2>4 DEF EditPart
<1>4. CASE Takers # {}
  <2>1. PICK oldest \in Takers :
          /\ edit' = [edit EXCEPT ![edits + 1] = [conn |-> oldest, state |-> "picked"]]
          /\ Begin(c, "push", edits + 1) /\ UNCHANGED conn
    BY <1>4 DEF EditPick, Route
  <2>2. oldest \in registered /\ oldest \in Conns
    BY DEF Takers, TypeOK
  <2>3. /\ DOMAIN edit' = DOMAIN edit /\ edit'[edits + 1] = [conn |-> oldest, state |-> "picked"]
        /\ \A e \in DOMAIN edit : e # edits + 1 => edit'[e] = edit[e]
    BY <1>2, <2>1 DEF TypeOK
  <2>4. /\ at'[c] = "push" /\ arg'[c] = edits + 1
        /\ \A d \in Conns : d # c => at'[d] = at[d] /\ arg'[d] = arg[d]
    BY <1>0, <2>1, NothingPushed
  <2>5. EditsAgree'
    BY <1>1, <1>2, <2>1, <2>2, <2>3, <2>4 DEF EditPart, EditsAgree
  <2>6. EditsGoToTheRegistered'
    BY <1>1, <2>1, <2>2, <2>3 DEF EditPart, EditsGoToTheRegistered
  <2> QED
    BY <2>5, <2>6 DEF EditPart
<1> QED
  BY <1>3, <1>4

LEMMA MoveEdits ==
  ASSUME TypeOK, EditPart, NEW c \in Conns, EditPush(c) \/ Deliver(c)
  PROVE  EditPart'
<1>0. c \in Tasks
  BY HelpersTyped
<1>1. conn[c] = "ready" /\ Loops(c) /\ UNCHANGED registered
  BY DEF EditPush, Deliver, Request, EditPart, EditsAgree
<1>2. /\ conn'[c] \in {"ready", "leaving"}
      /\ \A d \in Conns : d # c => conn'[d] = conn[d]
  BY <1>1, LoopsLeaves
<1>3. \A d \in Conns : at'[d] # "idle" => d # c /\ at'[d] = at[d] /\ arg'[d] = arg[d]
  BY <1>0, NothingPushed DEF EditPush, Deliver, Request, taskVars
<1>4. PICK e \in DOMAIN edit, s \in {"queued", "refused", "written"} :
        /\ edit' = [edit EXCEPT ![e].state = s] /\ edit[e].state # "none"
        /\ s = "queued" => conn[edit[e].conn] # "closed"
  <2>1. CASE EditPush(c)
    <3>1. arg[c] \in DOMAIN edit /\ edit[arg[c]].state # "none"
      BY <2>1 DEF EditPush, EditPart, EditsAgree
    <3> QED
      BY <2>1, <3>1 DEF EditPush
  <2>2. CASE Deliver(c)
    <3>1. PICK e \in DOMAIN edit : /\ edit[e] = [conn |-> c, state |-> "queued"]
                                   /\ edit' = [edit EXCEPT ![e].state = "written"]
      BY <2>2 DEF Deliver
    <3>2. edit[e].state # "none"
      BY <3>1
    <3> QED
      BY <3>1, <3>2
  <2> QED
    BY <2>1, <2>2
<1>5. /\ DOMAIN edit' = DOMAIN edit
      /\ edit'[e].conn = edit[e].conn /\ edit'[e].state = s
      /\ \A f \in DOMAIN edit : f # e => edit'[f] = edit[f]
  BY <1>4 DEF TypeOK
<1>6. \A f \in DOMAIN edit : /\ edit'[f].conn = edit[f].conn
                             /\ edit'[f].state # "none" <=> edit[f].state # "none"
                             /\ edit'[f].state = "queued" =>
                                  edit[f].state = "queued" \/ conn[edit[f].conn] # "closed"
  BY <1>4, <1>5
<1>7. EditsAgree'
  <2>1. \A d \in Conns : /\ at'[d] # "idle" => conn'[d] = "ready"
                         /\ at'[d] = "push" => arg'[d] \in DOMAIN edit' /\ edit'[arg'[d]].state # "none"
    BY <1>2, <1>3, <1>5, <1>6 DEF EditPart, EditsAgree
  <2>2. ASSUME NEW f \in DOMAIN edit', edit'[f].state # "none"
        PROVE  /\ edit'[f].conn \in Conns
               /\ edit'[f].conn \in registered' \/ conn'[edit'[f].conn] \in {"cleaning", "closed"}
    BY <1>1, <1>2, <1>5, <1>6, <2>2 DEF EditPart, EditsAgree
  <2> QED
    BY <2>1, <2>2 DEF EditsAgree
<1>8. EditsGoToTheRegistered'
  <2>1. \A d \in registered' : conn'[d] \in {"ready", "leaving"}
    BY <1>1, <1>2 DEF EditPart, EditsGoToTheRegistered, TypeOK
  <2>2. ASSUME NEW f \in DOMAIN edit'
        PROVE  /\ edit'[f].state # "none" =>
                    conn'[edit'[f].conn] \in {"ready", "leaving", "cleaning", "closed"}
               /\ edit'[f].state = "queued" =>
                    edit'[f].conn \in registered' \/ conn'[edit'[f].conn] = "cleaning"
    BY <1>1, <1>2, <1>5, <1>6, <2>2 DEF EditPart, EditsAgree, EditsGoToTheRegistered
  <2> QED
    BY <2>1, <2>2 DEF EditsGoToTheRegistered
<1> QED
  BY <1>7, <1>8 DEF EditPart

LEMMA RestEdits ==
  ASSUME TypeOK, EditPart,
         \/ MainStep \/ Sigterm \/ Prune
         \/ \E p \in Procs : ProcessExits(p) \/ WaitStep(p)
         \/ \E i \in Pids : Age(i)
  PROVE  EditPart'
<1>0. 0 \in Tasks /\ \A c \in Conns : c # 0
  BY HostAssumption DEF Tasks, Conns
<1>1. UNCHANGED <<connVars, editVars>>
  BY DEF MainStep, Serve, KillBegin, AutoLaunch, KillNext, Exit, Sigterm, Prune, ProcessExits,
         WaitStep, Reap, Mark, Tell, Age
<1>2. UNCHANGED taskVars \/ End(0) \/ \E x : Begin(0, "insert", x)
  BY DEF MainStep, Serve, KillBegin, AutoLaunch, Spawn, KillNext, Exit, Sigterm, Prune,
         ProcessExits, WaitStep, Reap, Mark, Tell, Age
<1>3. \A c \in Conns : at'[c] # "idle" => at'[c] = at[c] /\ arg'[c] = arg[c]
  BY <1>0, <1>2, NothingPushed DEF taskVars
<1>4. Spared
  BY <1>1, <1>3 DEF Spared, connVars, EditPart, EditsAgree
<1> QED
  BY <1>1, <1>4, EditsAlone DEF connVars, editVars

-----------------------------------------------------------------------------
LEMMA Inductive == IInv /\ [Next]_vars => IInv'
<1> SUFFICES ASSUME IInv, [Next]_vars PROVE IInv'
  OBVIOUS
<1>1. TypeOK /\ ProcessPart /\ EditPart
  BY DEF IInv, ProcessPart, EditPart
<1>2. TypeOK'
  <2>1. CASE UNCHANGED vars
    BY <1>1, <2>1 DEF TypeOK, vars, mainVars, connVars, taskVars, procVars, editVars
  <2>2. ASSUME NEW c \in Conns, ConnStep(c) PROVE TypeOK'
    BY <1>1, <2>2, ConnTyped DEF EditPart
  <2>3. ASSUME NEW p \in Procs, ProcessExits(p) \/ WaitStep(p) PROVE TypeOK'
    BY <1>1, <2>3, ProcTyped DEF ProcessPart
  <2>4. ASSUME NEW t \in Tasks, Insert(t) PROVE TypeOK'
    BY <1>1, <2>4, InsertTyped DEF ProcessPart
  <2> QED
    BY <1>1, <2>1, <2>2, <2>3, <2>4, RestTyped DEF Next
<1>3. ProcessPart'
  <2>1. CASE UNCHANGED vars
    BY <1>1, <2>1, Quiet DEF vars, mainVars, taskVars, NoNewInsert, SamePhase
  <2>2. ASSUME NEW c \in Conns, ConnStep(c) PROVE ProcessPart'
    BY <1>1, <1>2, <2>2, ConnProcess
  <2>3. ASSUME NEW p \in Procs, ProcessExits(p) \/ WaitStep(p) PROVE ProcessPart'
    BY <1>1, <2>3, ExitsStep, ReapStep, MarkStep, TellStep DEF WaitStep
  <2>4. ASSUME NEW t \in Tasks, Insert(t) PROVE ProcessPart'
    BY <1>1, <2>4, InsertStep
  <2> QED
    BY <1>1, <1>2, <2>1, <2>2, <2>3, <2>4, MainProcess, TableStep DEF Next
<1>4. EditPart'
  <2>1. CASE UNCHANGED vars
    <3>1. UNCHANGED <<conn, registered, at, arg, edits, edit>>
      BY <2>1 DEF vars, connVars, taskVars, editVars
    <3>2. Spared
      BY <1>1, <3>1 DEF Spared, EditPart, EditsAgree
    <3> QED
      BY <1>1, <3>1, <3>2, EditsAlone
  <2>2. ASSUME NEW c \in Conns, ConnStep(c) PROVE EditPart'
    BY <1>1, <2>2, OtherEdits, RegistrationEdits, PickEdits, MoveEdits DEF ConnStep
  <2>3. ASSUME NEW t \in Tasks, Insert(t) PROVE EditPart'
    BY <1>1, <2>3, InsertEdits
  <2> QED
    BY <1>1, <2>1, <2>2, <2>3, RestEdits DEF Next
<1> QED
  BY <1>2, <1>3, <1>4 DEF IInv, ProcessPart, EditPart

\* The inductive invariant: the processes the kernel keeps, their wait tasks, what is
\* being inserted, the table, the shutdown's list and the edits agree with each other.
THEOREM HostHolds == Spec => []IInv
BY InitIInv, Inductive, PTL DEF Spec

LEMMA ListingFollows == IInv => ListingIsTrue
BY DEF IInv, ProcessesAgree, RecordedIsExited, TypeOK, ListingIsTrue, ToldMeansRecorded

\* A process that runs is listed as running, unless it got the id of one whose end was
\* not recorded yet (apps.rs:411-417); nobody is told of an exit that is not recorded.
THEOREM Listed == Spec => []ListingIsTrue
BY HostHolds, ListingFollows, PTL

LEMMA SurvivalFollows == IInv => NothingListedSurvives
BY DEF IInv, KillsAreDue, NothingListedSurvives

\* The shutdown passes over no listed process, whatever is launched while it goes on:
\* one that runs afterwards is one that kill(1) failed on, or was mistaken for another
\* (lifecycle.rs:76-95).
THEOREM Survives == Spec => []NothingListedSurvives
BY HostHolds, SurvivalFollows, PTL

\* An edit is given to a connection that was registered, and waits only in a channel
\* whose connection has not ended (router.rs:276-328, connection.rs:54-58).
THEOREM Routed == Spec => []EditsGoToTheRegistered
<1>1. IInv => EditsGoToTheRegistered
  BY DEF IInv
<1> QED
  BY <1>1, HostHolds, PTL
=============================================================================

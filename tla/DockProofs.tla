------------------------------ MODULE DockProofs ------------------------------
(***************************************************************************)
(* The two models of easytidy-dock, each for any values of its constants.  *)
(*                                                                         *)
(* DockStartup: the flock admits one daemon, bind never meets a file, a    *)
(* daemon never removes the file of another, and a bootstrap reports       *)
(* success only of a daemon that answers.  StartupIInv is inductive as it  *)
(* stands.  Each action is one of two shapes: it moves one daemon, or it   *)
(* moves none, and at most takes the file away.                            *)
(*                                                                         *)
(* DockSessions: a root shell that nobody has hung up can be reached and   *)
(* is read from, no zombie goes unnoticed while the daemon serves, and     *)
(* every client draws consecutive chunks.  IInv is inductive.  Most        *)
(* actions are one of three shapes, each with a lemma of its own: a        *)
(* handler moves on (HandlerMoves), a reader thread moves on               *)
(* (ReaderMoves), or sessions are hung up (HangsUp).  DInv, with IInv in   *)
(* it, is the one for the output: an action sends nothing (NothingSent),   *)
(* ends a handler (EndDraws) or sends a frame (FrameSent).                 *)
(***************************************************************************)
EXTENDS DockStartup, DockSessions, TLAPS

-----------------------------------------------------------------------------
(* Start-up *)


\* The initial state satisfies the invariant: no file, no lock, no process.
LEMMA StartupInitIInv == StartupInit => StartupIInv
BY NobodyAssumption
   DEF StartupInit, StartupIInv, StartupTypeOK, OneDaemon, BindFindsNoFile, SocketNotForgotten, Running,
       DaemonState, BootState

\* Whoever runs is the holder, so no two daemons run.
LEMMA Alone ==
  ASSUME StartupIInv, NEW d \in Daemons, NEW e \in Daemons, d \in Running, e \in Running
  PROVE  d = e /\ lock = d
BY DEF StartupIInv, OneDaemon

\* A file that answers names the daemon that holds the lock.
LEMMA AnswersIsHolder ==
  ASSUME StartupIInv, Connectable
  PROVE  socket = lock /\ socket \in Daemons /\ socket \in Running
BY DEF StartupIInv, StartupTypeOK, OneDaemon, Connectable, Running

\* Moving a daemon that runs keeps the invariant if it keeps the lock or ends,
\* and if what it does to the file fits where it goes.
LEMMA Moved ==
  ASSUME StartupIInv, NEW d \in Daemons, d \in Running,
         NEW to \in DaemonState \ {"off", "lock"},
         daemon' = [daemon EXCEPT ![d] = to],
         lock' = (IF to \in {"exited", "killed"} THEN Nobody ELSE d),
         socket' \in {socket, Nobody, d},
         to = "bind" => socket' = Nobody,
         socket' = d => to \in {"listen", "serving", "leave", "killed"},
         boot' = boot
  PROVE  StartupIInv'
<1>1. lock = d /\ Running \subseteq {d}
  BY Alone DEF Running
<1>2. StartupTypeOK'
  BY DEF StartupIInv, StartupTypeOK
<1>3. \A e \in Daemons : e # d => daemon'[e] = daemon[e] /\ e \notin Running
  BY <1>1 DEF StartupIInv, StartupTypeOK
<1>4. daemon'[d] = to
  BY DEF StartupIInv, StartupTypeOK
<1>5. OneDaemon'
  BY <1>1, <1>3, <1>4, Zenon DEF OneDaemon, Running
<1>6. BindFindsNoFile'
  <2> SUFFICES ASSUME NEW e \in Daemons, daemon'[e] = "bind" PROVE socket' = Nobody
    BY DEF BindFindsNoFile
  <2>1. e = d
    BY <1>3 DEF Running
  <2> QED
    BY <2>1, <1>4
<1>7. SocketNotForgotten'
  <2> SUFFICES ASSUME socket' # Nobody
               PROVE  daemon'[socket'] \in {"listen", "serving", "leave", "killed"}
    BY DEF SocketNotForgotten
  <2>1. CASE socket' = d
    BY <2>1, <1>4
  <2>2. CASE socket' # d
    BY <2>2, <1>3 DEF StartupIInv, StartupTypeOK, SocketNotForgotten
  <2> QED
    BY <2>1, <2>2
<1> QED
  BY <1>2, <1>5, <1>6, <1>7 DEF StartupIInv

\* A daemon that does not run yet may move anywhere short of running.
LEMMA MovedOutside ==
  ASSUME StartupIInv, NEW d \in Daemons, d \notin Running,
         daemon[d] \in {"off", "lock"},
         NEW to \in {"lock", "exited", "killed"},
         daemon' = [daemon EXCEPT ![d] = to],
         UNCHANGED <<socket, lock>>,
         boot' \in [Bootstraps -> BootState]
  PROVE  StartupIInv'
<1>1. socket # d
  BY NobodyAssumption DEF StartupIInv, SocketNotForgotten
<1>2. StartupTypeOK'
  BY DEF StartupIInv, StartupTypeOK, DaemonState
<1>3. Running' = Running
  BY DEF StartupIInv, StartupTypeOK, Running
<1>4. \A e \in Daemons : e # d => daemon'[e] = daemon[e]
  BY DEF StartupIInv, StartupTypeOK
<1>5. daemon'[d] = to
  BY DEF StartupIInv, StartupTypeOK
<1>6. OneDaemon' /\ BindFindsNoFile' /\ SocketNotForgotten'
  BY <1>1, <1>3, <1>4, <1>5 DEF StartupIInv, StartupTypeOK, OneDaemon, BindFindsNoFile, SocketNotForgotten
<1> QED
  BY <1>2, <1>6 DEF StartupIInv

\* A step of a bootstrap moves no daemon and at most takes the file away.
LEMMA MovedBoot ==
  ASSUME StartupIInv, NEW b \in Bootstraps, NEW to \in BootState,
         boot' = [boot EXCEPT ![b] = to],
         socket' \in {socket, Nobody}, UNCHANGED <<lock, daemon>>
  PROVE  StartupIInv'
BY DEF StartupIInv, StartupTypeOK, OneDaemon, Running, BindFindsNoFile, SocketNotForgotten

-----------------------------------------------------------------------------
\* Every step keeps the invariant: one case per action.
LEMMA StartupNextIInv == StartupIInv /\ [StartupNext]_startupVars => StartupIInv'
<1> SUFFICES ASSUME StartupIInv, [StartupNext]_startupVars PROVE StartupIInv'
  OBVIOUS
<1> USE NobodyAssumption
<1>1. ASSUME NEW d \in Daemons, TakeLock(d) PROVE StartupIInv'
  <2>1. CASE lock # Nobody
    <3>1. daemon[d] = "lock" /\ daemon' = [daemon EXCEPT ![d] = "exited"]
          /\ UNCHANGED <<socket, lock, boot>>
      BY <1>1, <2>1 DEF TakeLock, GoD
    <3> QED
      BY <3>1, MovedOutside DEF Running, StartupIInv, StartupTypeOK
  <2>2. CASE lock = Nobody
    <3>1. daemon[d] = "lock" /\ daemon' = [daemon EXCEPT ![d] = "probe"]
          /\ lock' = d /\ UNCHANGED <<socket, boot>>
      BY <1>1, <2>2 DEF TakeLock, GoD
    <3>2. Running = {}
      BY <2>2 DEF StartupIInv, OneDaemon, Running
    <3>3. StartupTypeOK'
      BY <3>1 DEF StartupIInv, StartupTypeOK, DaemonState
    <3>4. \A e \in Daemons : e # d => daemon'[e] = daemon[e] /\ e \notin Running
      BY <3>1, <3>2 DEF StartupIInv, StartupTypeOK
    <3>5. daemon'[d] = "probe" /\ socket # d
      BY <3>1 DEF StartupIInv, StartupTypeOK, SocketNotForgotten
    <3>6. OneDaemon'
      BY <3>1, <3>4, Zenon DEF OneDaemon, Running
    <3>7. BindFindsNoFile' /\ SocketNotForgotten'
      BY <3>1, <3>4, <3>5 DEF StartupIInv, StartupTypeOK, BindFindsNoFile, SocketNotForgotten
    <3> QED
      BY <3>3, <3>6, <3>7 DEF StartupIInv
  <2> QED
    BY <2>1, <2>2
<1>2. ASSUME NEW d \in Daemons, DaemonProbe(d) PROVE StartupIInv'
  <2>1. d \in Running /\ lock = d /\ socket # d
    BY <1>2 DEF DaemonProbe, GoD, Running, StartupIInv, OneDaemon, SocketNotForgotten
  <2>2. /\ UNCHANGED <<socket, boot>>
        /\ \/ daemon' = [daemon EXCEPT ![d] = "exited"] /\ lock' = Nobody
           \/ daemon' = [daemon EXCEPT ![d] = "unlink"] /\ lock' = d
    BY <1>2, <2>1 DEF DaemonProbe, GoD, Unlocked
  <2>3. {"exited", "unlink"} \subseteq DaemonState \ {"off", "lock"}
    BY DEF DaemonState
  <2> QED
    BY <2>1, <2>2, <2>3, Moved
<1>3. ASSUME NEW d \in Daemons, DaemonUnlink(d) PROVE StartupIInv'
  <2>1. d \in Running /\ lock = d
    BY <1>3 DEF DaemonUnlink, GoD, Running, StartupIInv, OneDaemon
  <2>2. socket' = Nobody /\ boot' = boot /\ lock' = d /\ daemon' = [daemon EXCEPT ![d] = "bind"]
    BY <1>3, <2>1 DEF DaemonUnlink, GoD
  <2>3. "bind" \in DaemonState \ {"off", "lock"}
    BY DEF DaemonState
  <2> QED
    BY <2>1, <2>2, <2>3, Moved
<1>4. ASSUME NEW d \in Daemons, Bind(d) PROVE StartupIInv'
  <2>1. d \in Running /\ lock = d /\ socket = Nobody
    BY <1>4 DEF Bind, GoD, Running, StartupIInv, OneDaemon, BindFindsNoFile
  <2>2. socket' = d /\ boot' = boot /\ lock' = d /\ daemon' = [daemon EXCEPT ![d] = "listen"]
    BY <1>4, <2>1 DEF Bind, GoD
  <2>3. "listen" \in DaemonState \ {"off", "lock"}
    BY DEF DaemonState
  <2> QED
    BY <2>1, <2>2, <2>3, Moved
<1>5. ASSUME NEW d \in Daemons, Listen(d) \/ Stop(d) PROVE StartupIInv'
  <2>1. d \in Running /\ lock = d
    BY <1>5 DEF Listen, Stop, GoD, Running, StartupIInv, OneDaemon
  <2>2. PICK to \in {"serving", "leave"} :
          UNCHANGED <<socket, boot>> /\ lock' = d /\ daemon' = [daemon EXCEPT ![d] = to]
    BY <1>5, <2>1 DEF Listen, Stop, GoD
  <2>3. to \in DaemonState \ {"off", "lock"}
    BY DEF DaemonState
  <2> QED
    BY <2>1, <2>2, <2>3, Moved
<1>6. ASSUME NEW d \in Daemons, RemoveSocket(d) PROVE StartupIInv'
  <2>1. d \in Running /\ lock = d
    BY <1>6 DEF RemoveSocket, GoD, Running, StartupIInv, OneDaemon
  <2>2. socket' = Nobody /\ boot' = boot /\ lock' = d
        /\ daemon' = [daemon EXCEPT ![d] = "release"]
    BY <1>6, <2>1 DEF RemoveSocket, GoD
  <2>3. "release" \in DaemonState \ {"off", "lock"}
    BY DEF DaemonState
  <2> QED
    BY <2>1, <2>2, <2>3, Moved
<1>7. ASSUME NEW d \in Daemons, DaemonReturn(d) PROVE StartupIInv'
  <2>1. d \in Running /\ lock = d /\ socket # d
    BY <1>7 DEF DaemonReturn, GoD, Running, StartupIInv, OneDaemon, SocketNotForgotten
  <2>2. UNCHANGED <<socket, boot>> /\ lock' = Nobody /\ daemon' = [daemon EXCEPT ![d] = "exited"]
    BY <1>7, <2>1 DEF DaemonReturn, GoD, Unlocked
  <2>3. "exited" \in DaemonState \ {"off", "lock"}
    BY DEF DaemonState
  <2> QED
    BY <2>1, <2>2, <2>3, Moved
<1>8. ASSUME NEW d \in Daemons, Kill(d) PROVE StartupIInv'
  <2>1. UNCHANGED <<socket, boot>> /\ daemon' = [daemon EXCEPT ![d] = "killed"]
        /\ lock' = Unlocked(d)
    BY <1>8 DEF Kill
  <2>2. CASE d \in Running
    <3>1. lock' = Nobody
      BY <2>1, <2>2 DEF StartupIInv, OneDaemon, Unlocked
    <3>2. "killed" \in DaemonState \ {"off", "lock"}
      BY DEF DaemonState
    <3> QED
      BY <2>1, <2>2, <3>1, <3>2, Moved
  <2>3. CASE d \notin Running
    <3>1. daemon[d] = "lock"
      BY <1>8, <2>3 DEF Kill, Running
    <3>2. CASE lock = d
      <4>1. Running = {}
        BY <2>3, <3>2 DEF StartupIInv, OneDaemon
      <4>2. StartupTypeOK'
        BY <2>1, <3>2 DEF StartupIInv, StartupTypeOK, DaemonState, Unlocked
      <4>3. \A e \in Daemons : e # d => daemon'[e] = daemon[e]
        BY <2>1 DEF StartupIInv, StartupTypeOK
      <4>4. daemon'[d] = "killed"
        BY <2>1 DEF StartupIInv, StartupTypeOK
      <4>5. Running' = {}
        BY <4>1, <4>3, <4>4, Zenon DEF Running
      <4>6. BindFindsNoFile' /\ SocketNotForgotten'
        BY <2>1, <4>3, <4>4 DEF StartupIInv, StartupTypeOK, BindFindsNoFile, SocketNotForgotten
      <4> QED
        BY <4>2, <4>5, <4>6 DEF StartupIInv, OneDaemon
    <3>3. CASE lock # d
      BY <2>1, <2>3, <3>1, <3>3, MovedOutside DEF Unlocked, StartupIInv, StartupTypeOK
    <3> QED
      BY <3>2, <3>3
  <2> QED
    BY <2>2, <2>3
<1>9. ASSUME NEW b \in Bootstraps, Call(b) \/ Look(b) \/ BootProbe(b) \/ BootUnlink(b) \/ Poll(b)
      PROVE  StartupIInv'
  <2>1. PICK to \in BootState : boot' = [boot EXCEPT ![b] = to]
    BY <1>9, Zenon DEF Call, Look, BootProbe, BootUnlink, Poll, GoB, BootState
  <2>2. socket' \in {socket, Nobody} /\ UNCHANGED <<lock, daemon>>
    BY <1>9 DEF Call, Look, BootProbe, BootUnlink, Poll
  <2> QED
    BY <2>1, <2>2, MovedBoot
<1>10. ASSUME NEW b \in Bootstraps, Spawn(b) PROVE StartupIInv'
  <2>1. UNCHANGED <<socket, lock>>
    BY <1>10 DEF Spawn
  <2>2. CASE GoB(b, "spawn", "failed") /\ UNCHANGED daemon
    BY <2>1, <2>2, MovedBoot DEF GoB, BootState
  <2>3. CASE GoB(b, "spawn", "poll") /\ \E d \in Daemons : GoD(d, "off", "lock")
    <3>1. PICK d \in Daemons : daemon[d] = "off" /\ daemon' = [daemon EXCEPT ![d] = "lock"]
      BY <2>3 DEF GoD
    <3>2. boot' \in [Bootstraps -> BootState]
      BY <2>3 DEF GoB, StartupIInv, StartupTypeOK, BootState
    <3>3. d \notin Running
      BY <3>1 DEF Running
    <3> QED
      BY <2>1, <3>1, <3>2, <3>3, MovedOutside
  <2> QED
    BY <1>10, <2>2, <2>3 DEF Spawn
<1>11. CASE UNCHANGED startupVars
  BY <1>11 DEF startupVars, StartupIInv, StartupTypeOK, OneDaemon, Running, BindFindsNoFile, SocketNotForgotten
<1> QED
  BY <1>1, <1>2, <1>3, <1>4, <1>5, <1>6, <1>7, <1>8, <1>9, <1>10, <1>11
     DEF StartupNext, DaemonStep, BootStep

-----------------------------------------------------------------------------
\* The inductive invariant holds of run_daemon and run_bootstrap in any number.
THEOREM StartupHolds == StartupSpec => []StartupIInv
BY StartupInitIInv, StartupNextIInv, PTL DEF StartupSpec

\* At most one daemon is past its flock (daemon.rs:71-89), whatever bootstraps do.
THEOREM OneDaemonHolds == StartupSpec => []OneDaemon
<1>1. StartupIInv => OneDaemon
  BY DEF StartupIInv
<1> QED
  BY StartupHolds, <1>1, PTL

\* bind never meets a file: the AddrInUse arm of daemon.rs:109-112 is dead.
THEOREM BindAlone == StartupSpec => []BindFindsNoFile
<1>1. StartupIInv => BindFindsNoFile
  BY DEF StartupIInv
<1> QED
  BY StartupHolds, <1>1, PTL

\* No daemon removes the file under a daemon that serves (daemon.rs:103-105).
THEOREM SpareEachOther == StartupSpec => DaemonsSpareEachOther
<1>1. ASSUME StartupIInv, [StartupNext]_startupVars, NEW d \in Daemons,
             socket = d, daemon[d] = "serving", socket' # d
      PROVE  \E b \in Bootstraps : boot[b] = "unlink" /\ boot'[b] # "unlink"
  <2>1. d \in Running
    BY <1>1 DEF Running
  <2>2. ASSUME NEW e \in Daemons, DaemonUnlink(e) \/ RemoveSocket(e) \/ Bind(e) PROVE FALSE
    <3>1. e \in Running /\ daemon[e] # "serving"
      BY <2>2 DEF DaemonUnlink, RemoveSocket, Bind, GoD, Running
    <3> QED
      BY <1>1, <2>1, <3>1, Alone
  <2>3. ASSUME NEW b \in Bootstraps, BootUnlink(b)
        PROVE  boot[b] = "unlink" /\ boot'[b] # "unlink"
    BY <1>1, <2>3 DEF BootUnlink, GoB, StartupIInv, StartupTypeOK
  <2>4. \/ \E e \in Daemons : DaemonUnlink(e) \/ RemoveSocket(e) \/ Bind(e)
        \/ \E b \in Bootstraps : BootUnlink(b)
    BY <1>1 DEF StartupNext, startupVars, DaemonStep, BootStep, TakeLock, DaemonProbe, Listen, DaemonReturn, Stop,
                Kill, Call, Look, BootProbe, Spawn, Poll
  <2> QED
    BY <2>2, <2>3, <2>4
<1>2. StartupIInv /\ [StartupNext]_startupVars =>
        [\A d \in Daemons :
            (socket = d /\ daemon[d] = "serving" /\ socket' # d) =>
                \E b \in Bootstraps : boot[b] = "unlink" /\ boot'[b] # "unlink"]_startupVars
  BY <1>1
<1> QED
  BY StartupHolds, <1>2, PTL DEF StartupSpec, DaemonsSpareEachOther

\* run_bootstrap returns Ok only when it reached the daemon that holds the lock.
THEOREM OkIsTrue == StartupSpec => OkMeansAnswered
<1>1. ASSUME StartupIInv, [StartupNext]_startupVars, NEW b \in Bootstraps, boot'[b] = "ok", boot[b] # "ok"
      PROVE  lock # Nobody /\ daemon[lock] \in {"serving", "leave"}
  <2>1. \E c \in Bootstraps : BootProbe(c) \/ Poll(c)
    <3>1. ASSUME NEW c \in Bootstraps,
                 Call(c) \/ Look(c) \/ BootUnlink(c) \/ Spawn(c)
          PROVE  FALSE
      BY <1>1, <3>1 DEF Call, Look, BootUnlink, Spawn, GoB, StartupIInv, StartupTypeOK
    <3> QED
      BY <1>1, <3>1 DEF StartupNext, startupVars, DaemonStep, BootStep, TakeLock, DaemonProbe, DaemonUnlink,
                        Bind, Listen, RemoveSocket, DaemonReturn, Stop, Kill
  <2>2. PICK c \in Bootstraps : BootProbe(c) \/ Poll(c)
    BY <2>1
  <2>3. Connectable
    BY <1>1, <2>2 DEF BootProbe, Poll, GoB, StartupIInv, StartupTypeOK
  <2> QED
    BY <1>1, <2>3, AnswersIsHolder DEF Connectable
<1>2. StartupIInv /\ [StartupNext]_startupVars =>
        [\A b \in Bootstraps : boot'[b] = "ok" /\ boot[b] # "ok" =>
            lock # Nobody /\ daemon[lock] \in {"serving", "leave"}]_startupVars
  BY <1>1
<1> QED
  BY StartupHolds, <1>2, PTL DEF StartupSpec, OkMeansAnswered

-----------------------------------------------------------------------------
(* Sessions *)


\* The part of IInv that relates variables; TypeOK is carried separately.
Linked ==
    /\ RunningIsReachable
    /\ RunningIsRead
    /\ ZombieIsNoticed
    /\ DeadIsOver
    /\ EndsInOrder
    /\ Numbered
    /\ KilledIsHungUp

Links == {"insert", "start", "kill"}

LEMMA Split == IInv <=> TypeOK /\ Linked
BY DEF IInv, Linked

\* The daemon starts with no session, no client and every terminal open.
LEMMA InitIInv == Init => IInv
<1> SUFFICES ASSUME Init PROVE IInv
  OBVIOUS
<1>1. TypeOK
  <2>1. Blank \in Frames /\ 1 \in 1..(MaxSessions + 1) /\ 1 \in Sessions /\ 0 \in 0..MaxOut
    BY BoundsAssumption DEF Frames, Blank, Sessions
  <2>2. /\ shell \in [Sessions -> ShellState] /\ reader \in [Sessions -> ReaderState]
        /\ at \in [Clients -> HandlerState]
    BY DEF Init, ShellState, ReaderState, HandlerState
  <2>3. rx \in [Clients -> Seq(Frames)] /\ screen \in [Clients -> Frames]
    BY <2>1 DEF Init
  <2>4. /\ alive \in [Sessions -> BOOLEAN] /\ ring \in [Sessions -> 0..MaxOut]
        /\ subs \in [Sessions -> SUBSET Clients] /\ of \in [Clients -> Sessions]
        /\ terminal \in [Sessions -> {"open", "closed"}]
    BY <2>1 DEF Init
  <2>5. main \in {"serving", "leaving", "gone"} /\ nextId \in 1..(MaxSessions + 1)
        /\ sessions \subseteq Sessions /\ chld \in BOOLEAN /\ cleaner \in {"wait", "reap", "sweep"}
    BY <2>1 DEF Init, FirstId
  <2> QED
    BY <2>2, <2>3, <2>4, <2>5 DEF TypeOK
<1>2. Linked
  BY DEF Init, Linked, RunningIsReachable, RunningIsRead, ZombieIsNoticed, DeadIsOver,
     EndsInOrder, Numbered, KilledIsHungUp, InHand
<1> QED
  BY <1>1, <1>2, Split

-----------------------------------------------------------------------------
(* Types *)

\* The constants among the frames are frames.
LEMMA FramesTyped ==
  /\ Blank \in Frames /\ Exited \in Frames
  /\ \A k \in {"raw", "replay"} : \A i \in 0..MaxOut : [kind |-> k, n |-> i] \in Frames
BY BoundsAssumption DEF Frames, Blank, Exited

\* Sending a frame keeps the channels and the subscriptions well typed.
LEMMA FanOutTyped ==
  ASSUME TypeOK, NEW s \in Sessions, NEW f \in Frames, FanOut(s, f)
  PROVE  rx' \in [Clients -> Seq(Frames)] /\ subs' \in [Sessions -> SUBSET Clients]
BY DEF TypeOK, FanOut

\* A move of a handler, and its end, keep what they touch well typed.
LEMMA GoTyped ==
  ASSUME TypeOK, NEW c \in Clients, NEW from, NEW to \in HandlerState, Go(c, from, to)
  PROVE  at' \in [Clients -> HandlerState]
BY DEF TypeOK, Go

LEMMA EndTyped ==
  ASSUME TypeOK, NEW c \in Clients, NEW from, End(c, from)
  PROVE  /\ at' \in [Clients -> HandlerState] /\ of' \in [Clients -> Sessions]
         /\ rx' \in [Clients -> Seq(Frames)] /\ screen' \in [Clients -> Frames]
<1>1. "gone" \in HandlerState
  BY DEF HandlerState
<1>2. at' \in [Clients -> HandlerState]
  BY <1>1, GoTyped DEF End
<1>3. screen' \in [Clients -> Frames]
  BY FramesTyped DEF End, TypeOK
<1> QED
  BY <1>2, <1>3 DEF End, TypeOK

\* Hanging up keeps the shells well typed.
LEMMA HungUpTyped ==
  ASSUME TypeOK, NEW S
  PROVE  HungUp(S) \in [Sessions -> ShellState]
BY DEF TypeOK, HungUp, ShellState

\* Every action keeps every variable in its set.
LEMMA NextTypeOK == TypeOK /\ [Next]_vars => TypeOK'
<1> SUFFICES ASSUME TypeOK, [Next]_vars PROVE TypeOK'
  OBVIOUS
<1> USE DEF sessionVars, cleanVars, clientVars
<1>0. {"cmd", "insert", "start", "newack", "ack", "replay", "subscribe", "bridge", "kill", "tell",
       "bkill", "btell", "bremove", "leave", "gone"} \subseteq HandlerState
  BY DEF HandlerState
<1>1. ASSUME NEW c \in Clients,
             Connect(c) \/ NoSession(c) \/ SendFails(c) \/ BridgeError(c) \/ Leave(c)
      PROVE  TypeOK'
  <2>1. CASE Connect(c)
    BY <1>0, <2>1, GoTyped DEF Connect, TypeOK
  <2>2. CASE NoSession(c) \/ SendFails(c) \/ BridgeError(c)
    BY <2>2, EndTyped DEF NoSession, SendFails, BridgeError, TypeOK
  <2>3. CASE Leave(c)
    <3>1. subs' \in [Sessions -> SUBSET Clients]
      BY <2>3 DEF Leave, TypeOK
    <3> QED
      BY <2>3, <3>1, EndTyped DEF Leave, TypeOK
  <2> QED
    BY <1>1, <2>1, <2>2, <2>3
<1>2. ASSUME NEW c \in Clients, New(c) PROVE TypeOK'
  <2>1. at' \in [Clients -> HandlerState]
    BY <1>0, <1>2, GoTyped DEF New
  <2>2. nextId' \in 1..(MaxSessions + 1) /\ shell' \in [Sessions -> ShellState]
        /\ of' \in [Clients -> Sessions]
    BY <1>2, BoundsAssumption DEF New, TypeOK, ShellState, Sessions
  <2> QED
    BY <1>2, <2>1, <2>2 DEF New, TypeOK
<1>3. ASSUME NEW c \in Clients,
             Insert(c) \/ StartReader(c) \/ NewAck(c) \/ BridgeEnd(c) \/ BridgeClose(c) \/ BridgeRemove(c)
      PROVE  TypeOK'
  <2>1. at' \in [Clients -> HandlerState]
    BY <1>0, <1>3, GoTyped DEF Insert, StartReader, NewAck, BridgeEnd, BridgeClose, BridgeRemove
  <2>2. sessions' \subseteq Sessions /\ reader' \in [Sessions -> ReaderState]
    BY <1>3 DEF Insert, StartReader, NewAck, BridgeEnd, BridgeClose, BridgeRemove, GoReader, TypeOK,
       ReaderState
  <2> QED
    BY <1>3, <2>1, <2>2
       DEF Insert, StartReader, NewAck, BridgeEnd, BridgeClose, BridgeRemove, TypeOK
<1>4. ASSUME NEW c \in Clients, NEW s \in Sessions, Attach(c, s) \/ CloseRemove(c, s)
      PROVE  TypeOK'
  <2>1. at' \in [Clients -> HandlerState]
    BY <1>0, <1>4, GoTyped DEF Attach, CloseRemove
  <2> QED
    BY <1>4, <2>1 DEF Attach, CloseRemove, TypeOK
<1>5. ASSUME NEW c \in Clients, AttachAck(c) \/ Replay(c) \/ Subscribe(c) PROVE TypeOK'
  <2>1. at' \in [Clients -> HandlerState]
    BY <1>0, <1>5, GoTyped DEF AttachAck, Replay, Subscribe
  <2>2. subs' \in [Sessions -> SUBSET Clients]
    BY <1>5 DEF AttachAck, Replay, Subscribe, TypeOK
  <2>3. screen' \in [Clients -> Frames]
    <3>1. [kind |-> "replay", n |-> ring[of[c]]] \in Frames
      BY FramesTyped DEF TypeOK
    <3> QED
      BY <1>5, <3>1, FramesTyped DEF AttachAck, Replay, Subscribe, TypeOK
  <2> QED
    BY <1>5, <2>1, <2>2, <2>3 DEF AttachAck, Replay, Subscribe, TypeOK
<1>6. ASSUME NEW c \in Clients, CloseKill(c) \/ BridgeKill(c) PROVE TypeOK'
  <2>1. shell' \in [Sessions -> ShellState]
    BY <1>6, HungUpTyped DEF CloseKill, BridgeKill
  <2>2. alive' \in [Sessions -> BOOLEAN]
    BY <1>6 DEF CloseKill, BridgeKill, TypeOK
  <2>3. at' \in [Clients -> HandlerState]
    BY <1>0, <1>6, GoTyped DEF CloseKill, BridgeKill
  <2> QED
    BY <1>6, <2>1, <2>2, <2>3 DEF CloseKill, BridgeKill, TypeOK
<1>7. ASSUME NEW c \in Clients, CloseTell(c) \/ BridgeTell(c) PROVE TypeOK'
  <2>1. rx' \in [Clients -> Seq(Frames)] /\ subs' \in [Sessions -> SUBSET Clients]
    BY <1>7, FanOutTyped, FramesTyped DEF CloseTell, BridgeTell, TypeOK
  <2>2. at' \in [Clients -> HandlerState]
    BY <1>0, <1>7, GoTyped DEF CloseTell, BridgeTell
  <2> QED
    BY <1>7, <2>1, <2>2 DEF CloseTell, BridgeTell, TypeOK
<1>8. ASSUME NEW c \in Clients, Deliver(c) PROVE TypeOK'
  <2>1. rx[c] \in Seq(Frames) /\ rx[c] # <<>>
    BY <1>8 DEF Deliver, TypeOK
  <2>2. Head(rx[c]) \in Frames /\ Tail(rx[c]) \in Seq(Frames)
    BY <2>1
  <2> QED
    BY <1>0, <1>8, <2>2, GoTyped DEF Deliver, TypeOK
<1>10. ASSUME NEW s \in Sessions, ShellExit(s) \/ JobsEnd(s) PROVE TypeOK'
  <2>1. shell' \in [Sessions -> ShellState] /\ terminal' \in [Sessions -> {"open", "closed"}]
    <3>1. CASE ShellExit(s)
      <4>1. PICK t \in {"open", "closed"} : terminal' = [terminal EXCEPT ![s] = t]
        BY <3>1 DEF ShellExit
      <4> QED
        BY <3>1, <4>1 DEF ShellExit, TypeOK, ShellState
    <3>2. CASE JobsEnd(s)
      BY <3>2 DEF JobsEnd, TypeOK
    <3> QED
      BY <1>10, <3>1, <3>2
  <2>2. chld' \in BOOLEAN
    BY <1>10 DEF ShellExit, JobsEnd, TypeOK
  <2> QED
    BY <1>10, <2>1, <2>2 DEF ShellExit, JobsEnd, TypeOK
<1>11. ASSUME NEW s \in Sessions, ReaderExtend(s) \/ ReaderEof(s) \/ ReaderSetDead(s) PROVE TypeOK'
  <2>1. reader' \in [Sessions -> ReaderState]
    BY <1>11 DEF ReaderExtend, ReaderEof, ReaderSetDead, GoReader, TypeOK, ReaderState
  <2>2. ring' \in [Sessions -> 0..MaxOut]
    <3>1. CASE ReaderExtend(s)
      <4>1. ring[s] \in 0..MaxOut /\ ring[s] < MaxOut
        BY <3>1 DEF ReaderExtend, TypeOK
      <4>2. ring[s] + 1 \in 0..MaxOut
        BY <4>1, BoundsAssumption
      <4> QED
        BY <3>1, <4>2 DEF ReaderExtend, TypeOK
    <3>2. CASE ReaderEof(s) \/ ReaderSetDead(s)
      BY <3>2 DEF ReaderEof, ReaderSetDead, TypeOK
    <3> QED
      BY <1>11, <3>1, <3>2
  <2>3. alive' \in [Sessions -> BOOLEAN]
    BY <1>11 DEF ReaderExtend, ReaderEof, ReaderSetDead, TypeOK
  <2> QED
    BY <1>11, <2>1, <2>2, <2>3 DEF ReaderExtend, ReaderEof, ReaderSetDead, TypeOK
<1>12. ASSUME NEW s \in Sessions, ReaderFanOut(s) \/ ReaderTell(s) PROVE TypeOK'
  <2>1. rx' \in [Clients -> Seq(Frames)] /\ subs' \in [Sessions -> SUBSET Clients]
    BY <1>12, FanOutTyped, FramesTyped DEF ReaderFanOut, ReaderTell, TypeOK
  <2> QED
    BY <1>12, <2>1 DEF ReaderFanOut, ReaderTell, GoReader, TypeOK, ReaderState
<1>13. CASE CleanerStep
  BY <1>13 DEF CleanerStep, Wake, Reap, Sweep, TypeOK, ShellState
<1>14. CASE Shutdown
  <2>1. shell' \in [Sessions -> ShellState]
    BY <1>14, HungUpTyped DEF Shutdown
  <2>2. alive' \in [Sessions -> BOOLEAN] /\ subs' \in [Sessions -> SUBSET Clients]
    BY <1>14 DEF Shutdown, TypeOK
  <2>3. rx' \in [Clients -> Seq(Frames)]
    <3>1. \A c \in Clients : rx[c] \in Seq(Frames) /\ Append(rx[c], Exited) \in Seq(Frames)
      BY FramesTyped DEF TypeOK
    <3> QED
      BY <1>14, <3>1 DEF Shutdown
  <2> QED
    BY <1>14, <2>1, <2>2, <2>3 DEF Shutdown, TypeOK
<1>15. CASE Return
  <2>1. shell' \in [Sessions -> ShellState]
    BY <1>15, HungUpTyped DEF Return
  <2> QED
    BY <1>0, <1>15, <2>1, FramesTyped DEF Return, TypeOK
<1>16. CASE UNCHANGED vars
  BY <1>16 DEF vars, TypeOK
<1> QED
  BY <1>1, <1>2, <1>3, <1>4, <1>5, <1>6, <1>7, <1>8, <1>10, <1>11, <1>12, <1>13,
     <1>14, <1>15, <1>16 DEF Next, Command, HandlerStep, ReaderStep

-----------------------------------------------------------------------------
(* The three shapes *)

\* A handler moves on between places where nothing depends on it.
LEMMA HandlerMoves ==
  ASSUME TypeOK, Linked, NEW c \in Clients, NEW to \in HandlerState,
         at' = [at EXCEPT ![c] = to], UNCHANGED of,
         at[c] \notin Links, to \notin Links,
         to \in {"btell", "bremove"} => shell[of[c]] # "running",
         at[c] \in {"off", "cmd"} => to \in {"cmd", "gone"},
         at[c] # "gone",
         UNCHANGED <<main, nextId, sessions, shell, terminal, alive, reader, chld, cleaner>>
  PROVE  Linked'
<1>1. \A e \in Clients : e # c => at'[e] = at[e] /\ of'[e] = of[e]
  BY DEF TypeOK
<1>2. at'[c] = to /\ of'[c] = of[c]
  BY DEF TypeOK
<1>3. ASSUME NEW s \in Sessions, NEW places \in SUBSET Links, InHand(s, places)
      PROVE  InHand(s, places)'
  <2>1. PICK e \in Clients : of[e] = s /\ at[e] \in places
    BY <1>3 DEF InHand
  <2> QED
    BY <1>1, <2>1 DEF InHand
<1>4. RunningIsReachable' /\ RunningIsRead'
  <2>1. {"insert", "kill"} \in SUBSET Links /\ {"start"} \in SUBSET Links
    BY DEF Links
  <2>2. \A s \in Sessions : InHand(s, {"insert", "kill"}) => InHand(s, {"insert", "kill"})'
    BY <1>3, <2>1
  <2>3. \A s \in Sessions : InHand(s, {"start"}) => InHand(s, {"start"})'
    BY <1>3, <2>1
  <2> QED
    BY <2>2, <2>3 DEF Linked, RunningIsReachable, RunningIsRead, TypeOK
<1>5. ZombieIsNoticed' /\ DeadIsOver' /\ EndsInOrder'
  BY DEF Linked, ZombieIsNoticed, DeadIsOver, EndsInOrder
<1>6. Numbered'
  BY <1>1, <1>2 DEF Linked, Numbered
<1>7. KilledIsHungUp'
  BY <1>1, <1>2 DEF Linked, KilledIsHungUp
<1> QED
  BY <1>4, <1>5, <1>6, <1>7 DEF Linked

\* A reader thread moves on: it stops reading when its terminal has closed, and
\* marks the session dead after that.
LEMMA ReaderMoves ==
  ASSUME TypeOK, Linked, NEW s \in Sessions, NEW to \in ReaderState \ {"none"},
         reader[s] # "none", reader' = [reader EXCEPT ![s] = to],
         to \in {"dead", "tell", "done"} => terminal[s] = "closed",
         alive' \in {alive, [alive EXCEPT ![s] = FALSE]},
         alive' # alive => terminal[s] = "closed",
         UNCHANGED <<main, nextId, sessions, shell, terminal, chld, cleaner, at, of>>
  PROVE  Linked'
<1>1. \A t \in Sessions : t # s => reader'[t] = reader[t] /\ alive'[t] = alive[t]
  BY DEF TypeOK
<1>2. reader'[s] = to
  BY DEF TypeOK
<1>3. RunningIsReachable' /\ ZombieIsNoticed' /\ Numbered' /\ KilledIsHungUp'
  BY DEF Linked, RunningIsReachable, ZombieIsNoticed, Numbered, KilledIsHungUp, InHand
<1>4. RunningIsRead'
  <2>1. shell[s] = "running" => to \in {"read", "fanout"}
    BY DEF Linked, EndsInOrder, ReaderState
  <2> QED
    BY <1>1, <1>2, <2>1 DEF Linked, RunningIsRead, InHand, TypeOK
<1>5. DeadIsOver'
  BY <1>1 DEF Linked, DeadIsOver, EndsInOrder, TypeOK
<1>6. EndsInOrder'
  BY <1>1, <1>2 DEF Linked, EndsInOrder
<1> QED
  BY <1>3, <1>4, <1>5, <1>6 DEF Linked

\* Sessions that exist are hung up; some or all of them are marked dead.
LEMMA HangsUp ==
  ASSUME TypeOK, Linked, NEW S \in SUBSET Sessions, shell' = HungUp(S),
         \A s \in S : shell[s] # "none",
         \A s \in Sessions : ~alive'[s] => ~alive[s] \/ s \in S,
         UNCHANGED <<nextId, sessions, terminal, reader, chld, cleaner>>,
         main' # "serving" \/ main' = main
  PROVE  /\ \A s \in Sessions : shell'[s] = "running" => shell[s] = "running" /\ s \notin S
         /\ \A s \in Sessions : shell'[s] = "none" <=> shell[s] = "none"
         /\ ZombieIsNoticed' /\ DeadIsOver' /\ EndsInOrder'
<1>1. \A s \in Sessions : shell'[s] = IF s \in S /\ shell[s] = "running" THEN "hungup" ELSE shell[s]
  BY DEF HungUp
<1>2. \A s \in Sessions : shell[s] \in ShellState
  BY DEF TypeOK
<1>3. ZombieIsNoticed'
  BY <1>1 DEF Linked, ZombieIsNoticed
<1>4. DeadIsOver'
  BY <1>1, <1>2 DEF Linked, DeadIsOver, ShellState
<1>5. EndsInOrder'
  BY <1>1 DEF Linked, EndsInOrder
<1> QED
  BY <1>1, <1>3, <1>4, <1>5

-----------------------------------------------------------------------------
(* The actions that are not of these shapes *)

\* rc.new: the shell of the next id comes into being, in the hand of its handler.
LEMMA NewLinked ==
  ASSUME TypeOK, Linked, NEW c \in Clients, New(c) PROVE Linked'
<1>1. PICK s \in Sessions : s = nextId /\ shell[s] = "none" /\ s \notin sessions
  BY DEF New, Linked, Numbered, Sessions, TypeOK
<1>2. /\ at[c] = "cmd" /\ at' = [at EXCEPT ![c] = "insert"] /\ of' = [of EXCEPT ![c] = s]
      /\ shell' = [shell EXCEPT ![s] = "running"] /\ nextId' = s + 1
      /\ UNCHANGED <<main, sessions, terminal, alive, reader, chld, cleaner>>
  BY <1>1 DEF New, Go, cleanVars
<1>3. \A e \in Clients : e # c => at'[e] = at[e] /\ of'[e] = of[e]
  BY <1>2 DEF TypeOK
<1>4. at'[c] = "insert" /\ of'[c] = s
  BY <1>2 DEF TypeOK
<1>5. shell'[s] = "running" /\ \A t \in Sessions : t # s => shell'[t] = shell[t]
  BY <1>1, <1>2 DEF TypeOK
<1>6. \A t \in Sessions : \A p \in {{"insert", "kill"}, {"start"}} : InHand(t, p) => InHand(t, p)'
  BY <1>2, <1>3 DEF InHand
<1>7. RunningIsReachable'
  <2>1. InHand(s, {"insert", "kill"})'
    BY <1>4 DEF InHand
  <2> QED
    BY <1>2, <1>5, <1>6, <2>1 DEF Linked, RunningIsReachable
<1>8. RunningIsRead'
  BY <1>1, <1>2, <1>5, <1>6 DEF Linked, RunningIsRead, TypeOK
<1>9. ZombieIsNoticed'
  BY <1>2, <1>5 DEF Linked, ZombieIsNoticed
<1>10. DeadIsOver' /\ EndsInOrder'
  BY <1>1, <1>2, <1>5 DEF Linked, DeadIsOver, EndsInOrder
<1>11. Numbered'
  <2>1. \A t \in Sessions : t >= nextId' => t # s /\ t >= s
    BY <1>1, <1>2 DEF Sessions, TypeOK
  <2>2. \A e \in Clients : e # c /\ at[e] \notin {"off", "cmd", "gone"} => shell'[of[e]] # "none"
    BY <1>5 DEF Linked, Numbered, TypeOK
  <2> QED
    BY <1>1, <1>2, <1>3, <1>4, <1>5, <2>1, <2>2 DEF Linked, Numbered, TypeOK
<1>12. KilledIsHungUp'
  <2>1. \A e \in Clients : at[e] \in {"btell", "bremove"} => of[e] # s /\ of[e] \in Sessions
    BY <1>1 DEF Linked, Numbered, TypeOK
  <2> QED
    BY <1>3, <1>4, <1>5, <2>1 DEF Linked, KilledIsHungUp
<1> QED
  BY <1>7, <1>8, <1>9, <1>10, <1>11, <1>12 DEF Linked

\* The handler of rc.new inserts the session, then starts its reader.
LEMMA InsertLinked ==
  ASSUME TypeOK, Linked, NEW c \in Clients, Insert(c) PROVE Linked'
<1> DEFINE s == of[c]
<1>1. /\ at[c] = "insert" /\ at' = [at EXCEPT ![c] = "start"] /\ sessions' = sessions \cup {s}
      /\ UNCHANGED <<main, nextId, shell, terminal, alive, reader, chld, cleaner, of>>
  BY DEF Insert, Go, sessionVars, cleanVars
<1>2. s \in Sessions /\ shell[s] # "none"
  BY <1>1 DEF Linked, Numbered, TypeOK
<1>3. at'[c] = "start" /\ \A e \in Clients : e # c => at'[e] = at[e]
  BY <1>1 DEF TypeOK
<1>4. RunningIsReachable'
  <2>1. ASSUME NEW t \in Sessions, t # s, InHand(t, {"insert", "kill"})
        PROVE  InHand(t, {"insert", "kill"})'
    BY <1>1, <1>3, <2>1 DEF InHand
  <2> QED
    BY <1>1, <2>1 DEF Linked, RunningIsReachable
<1>5. RunningIsRead'
  <2>1. InHand(s, {"start"})'
    BY <1>1, <1>3 DEF InHand
  <2>2. \A t \in Sessions : InHand(t, {"start"}) => InHand(t, {"start"})'
    BY <1>1, <1>3 DEF InHand
  <2> QED
    BY <1>1, <2>1, <2>2 DEF Linked, RunningIsRead, TypeOK
<1>6. ZombieIsNoticed' /\ DeadIsOver' /\ EndsInOrder'
  BY <1>1 DEF Linked, ZombieIsNoticed, DeadIsOver, EndsInOrder
<1>7. Numbered' /\ KilledIsHungUp'
  BY <1>1, <1>2, <1>3 DEF Linked, Numbered, KilledIsHungUp
<1> QED
  BY <1>4, <1>5, <1>6, <1>7 DEF Linked

LEMMA StartLinked ==
  ASSUME TypeOK, Linked, NEW c \in Clients, StartReader(c) PROVE Linked'
<1> DEFINE s == of[c]
<1>1. /\ at[c] = "start" /\ at' = [at EXCEPT ![c] = "newack"]
      /\ reader' = [reader EXCEPT ![s] = "read"]
      /\ UNCHANGED <<main, nextId, sessions, shell, terminal, alive, chld, cleaner, of>>
  BY DEF StartReader, Go, GoReader, cleanVars
<1>2. at'[c] = "newack" /\ \A e \in Clients : e # c => at'[e] = at[e]
  BY <1>1 DEF TypeOK
<1>3. s \in Sessions /\ reader'[s] = "read" /\ \A t \in Sessions : t # s => reader'[t] = reader[t]
  BY <1>1 DEF TypeOK
<1>4. RunningIsReachable'
  <2>1. \A t \in Sessions : InHand(t, {"insert", "kill"}) => InHand(t, {"insert", "kill"})'
    BY <1>1, <1>2 DEF InHand
  <2> QED
    BY <1>1, <2>1 DEF Linked, RunningIsReachable
<1>5. RunningIsRead'
  <2>1. ASSUME NEW t \in Sessions, t # s, InHand(t, {"start"}) PROVE InHand(t, {"start"})'
    BY <1>1, <1>2, <2>1 DEF InHand
  <2> QED
    BY <1>1, <1>3, <2>1 DEF Linked, RunningIsRead, TypeOK
<1>6. ZombieIsNoticed' /\ DeadIsOver' /\ EndsInOrder'
  BY <1>1, <1>3 DEF Linked, ZombieIsNoticed, DeadIsOver, EndsInOrder
<1>7. Numbered' /\ KilledIsHungUp'
  BY <1>1, <1>2 DEF Linked, Numbered, KilledIsHungUp
<1> QED
  BY <1>4, <1>5, <1>6, <1>7 DEF Linked

\* rc.attach and rc.close take a listed session in hand; rc.close takes it out.
LEMMA TakeLinked ==
  ASSUME TypeOK, Linked, NEW c \in Clients, NEW s \in Sessions, Attach(c, s) \/ CloseRemove(c, s)
  PROVE  Linked'
<1>1. PICK to \in {"ack", "kill"} :
        /\ at[c] = "cmd" /\ at' = [at EXCEPT ![c] = to] /\ of' = [of EXCEPT ![c] = s]
        /\ s \in sessions /\ sessions' = IF to = "kill" THEN sessions \ {s} ELSE sessions
        /\ UNCHANGED <<main, nextId, shell, terminal, alive, reader, chld, cleaner>>
  BY DEF Attach, CloseRemove, Go, sessionVars, cleanVars
<1>2. at'[c] = to /\ of'[c] = s
  BY <1>1 DEF TypeOK
<1>3. \A e \in Clients : e # c => at'[e] = at[e] /\ of'[e] = of[e]
  BY <1>1 DEF TypeOK
<1>4. \A t \in Sessions : \A p \in {{"insert", "kill"}, {"start"}} : InHand(t, p) => InHand(t, p)'
  BY <1>1, <1>3 DEF InHand
<1>5. RunningIsReachable'
  <2>1. to = "kill" => InHand(s, {"insert", "kill"})'
    BY <1>2 DEF InHand
  <2> QED
    BY <1>1, <1>4, <2>1 DEF Linked, RunningIsReachable
<1>6. RunningIsRead'
  BY <1>1, <1>4 DEF Linked, RunningIsRead, TypeOK
<1>7. ZombieIsNoticed' /\ DeadIsOver' /\ EndsInOrder'
  BY <1>1 DEF Linked, ZombieIsNoticed, DeadIsOver, EndsInOrder
<1>8. Numbered' /\ KilledIsHungUp'
  BY <1>1, <1>2, <1>3 DEF Linked, Numbered, KilledIsHungUp
<1> QED
  BY <1>5, <1>6, <1>7, <1>8 DEF Linked

\* Both ways of closing hang the session up before they forget it.
LEMMA KillLinked ==
  ASSUME TypeOK, Linked, NEW c \in Clients, CloseKill(c) \/ BridgeKill(c) PROVE Linked'
<1> DEFINE s == of[c]
<1>1. PICK to \in {"tell", "btell"} :
        /\ at[c] \in {"kill", "bkill"} /\ at' = [at EXCEPT ![c] = to]
        /\ shell' = HungUp({s}) /\ alive' = [alive EXCEPT ![s] = FALSE]
        /\ UNCHANGED <<main, nextId, sessions, terminal, reader, chld, cleaner, of>>
  BY DEF CloseKill, BridgeKill, Go, cleanVars
<1>2. s \in Sessions /\ shell[s] # "none"
  BY <1>1 DEF Linked, Numbered, TypeOK
<1>3. /\ \A t \in Sessions : shell'[t] = "running" => shell[t] = "running" /\ t # s
      /\ \A t \in Sessions : shell'[t] = "none" <=> shell[t] = "none"
      /\ ZombieIsNoticed' /\ DeadIsOver' /\ EndsInOrder'
  <2>1. \A t \in Sessions : ~alive'[t] => ~alive[t] \/ t \in {s}
    BY <1>1 DEF TypeOK
  <2>2. {s} \in SUBSET Sessions /\ \A t \in {s} : shell[t] # "none"
    BY <1>2
  <2>3. /\ \A t \in Sessions : shell'[t] = "running" => shell[t] = "running" /\ t \notin {s}
        /\ \A t \in Sessions : shell'[t] = "none" <=> shell[t] = "none"
        /\ ZombieIsNoticed' /\ DeadIsOver' /\ EndsInOrder'
    BY <1>1, <2>1, <2>2, HangsUp
  <2> QED
    BY <2>3
<1>4. at'[c] = to /\ \A e \in Clients : e # c => at'[e] = at[e]
  BY <1>1 DEF TypeOK
<1>5. RunningIsReachable'
  <2>1. ASSUME NEW t \in Sessions, t # s, InHand(t, {"insert", "kill"})
        PROVE  InHand(t, {"insert", "kill"})'
    BY <1>1, <1>4, <2>1 DEF InHand
  <2> QED
    BY <1>1, <1>3, <2>1 DEF Linked, RunningIsReachable
<1>6. RunningIsRead'
  <2>1. \A t \in Sessions : InHand(t, {"start"}) => InHand(t, {"start"})'
    BY <1>1, <1>4 DEF InHand
  <2> QED
    BY <1>1, <1>3, <2>1 DEF Linked, RunningIsRead, TypeOK
<1>7. Numbered'
  BY <1>1, <1>2, <1>3, <1>4 DEF Linked, Numbered, TypeOK
<1>8. KilledIsHungUp'
  <2>1. \A e \in Clients : of[e] \in Sessions
    BY DEF TypeOK
  <2>2. shell'[s] # "running"
    BY <1>2, <1>3
  <2>3. ASSUME NEW e \in Clients, e # c, at[e] \in {"btell", "bremove"}
        PROVE  shell'[of[e]] # "running"
    BY <1>3, <2>1, <2>3 DEF Linked, KilledIsHungUp
  <2> QED
    BY <1>1, <1>4, <2>2, <2>3 DEF KilledIsHungUp
<1> QED
  BY <1>3, <1>5, <1>6, <1>7, <1>8 DEF Linked

\* Forgetting a session: one whose shell does not run, or the dead ones.
LEMMA ForgetLinked ==
  ASSUME TypeOK, Linked, sessions' \subseteq sessions,
         \A s \in sessions \ sessions' : shell[s] # "running",
         UNCHANGED <<main, nextId, shell, terminal, alive, reader, of>>,
         ZombieIsNoticed',
         \A c \in Clients : at'[c] = at[c] \/ (at[c] = "bremove" /\ at'[c] = "leave")
  PROVE  Linked'
<1>1. \A t \in Sessions : \A p \in {{"insert", "kill"}, {"start"}} : InHand(t, p) => InHand(t, p)'
  BY DEF InHand
<1>2. RunningIsReachable' /\ RunningIsRead'
  BY <1>1 DEF Linked, RunningIsReachable, RunningIsRead, TypeOK
<1>3. DeadIsOver' /\ EndsInOrder' /\ Numbered' /\ KilledIsHungUp'
  BY DEF Linked, DeadIsOver, EndsInOrder, Numbered, KilledIsHungUp
<1> QED
  BY <1>2, <1>3 DEF Linked

\* The shell exits and SIGCHLD is sent; the terminal closes now or later.
LEMMA ExitLinked ==
  ASSUME TypeOK, Linked, NEW s \in Sessions, ShellExit(s) \/ JobsEnd(s) PROVE Linked'
<1> USE DEF ShellExit, JobsEnd, clientVars, cleanVars
<1>1. \A t \in Sessions : t # s => shell'[t] = shell[t] /\ terminal'[t] = terminal[t]
  BY DEF TypeOK
<1>2. shell'[s] \in {"zombie", "reaped"} /\ shell[s] # "none"
  BY DEF TypeOK
<1>3. UNCHANGED <<main, nextId, sessions, alive, reader, cleaner, at, of>>
  OBVIOUS
<1>4. RunningIsReachable' /\ RunningIsRead'
  <2>1. \A t \in Sessions : shell'[t] = "running" => shell[t] = "running"
    BY <1>1, <1>2
  <2>2. \A t \in Sessions : \A p \in {{"insert", "kill"}, {"start"}} : InHand(t, p) => InHand(t, p)'
    BY <1>3 DEF InHand
  <2>3. sessions \subseteq Sessions
    BY DEF TypeOK
  <2> QED
    BY <1>3, <2>1, <2>2, <2>3 DEF Linked, RunningIsReachable, RunningIsRead
<1>5. ZombieIsNoticed'
  BY <1>1, <1>3 DEF Linked, ZombieIsNoticed
<1>6. DeadIsOver' /\ EndsInOrder'
  <2>1. \A t \in Sessions : shell'[t] \in {"zombie", "reaped"} \/ (t # s /\ shell'[t] = shell[t])
    BY <1>1, <1>2
  <2>2. reader[s] \in {"dead", "tell", "done"} => terminal'[s] = "closed"
    <3>1. reader[s] \in {"dead", "tell", "done"} =>
            terminal[s] = "closed" /\ shell[s] \in {"zombie", "reaped"}
      BY DEF Linked, EndsInOrder
    <3> QED
      BY <3>1 DEF TypeOK
  <2> QED
    BY <1>1, <1>2, <1>3, <2>1, <2>2 DEF Linked, DeadIsOver, EndsInOrder
<1>7. Numbered'
  BY <1>1, <1>2, <1>3 DEF Linked, Numbered, TypeOK
<1>8. KilledIsHungUp'
  BY <1>1, <1>2, <1>3 DEF Linked, KilledIsHungUp, TypeOK
<1> QED
  BY <1>4, <1>5, <1>6, <1>7, <1>8 DEF Linked

\* Wake and Reap: the cleanup task takes the signal, then the zombies.
LEMMA ReapLinked ==
  ASSUME TypeOK, Linked, Wake \/ Reap PROVE Linked'
<1> USE DEF Wake, Reap, clientVars, sessionVars
<1>1. UNCHANGED <<main, nextId, sessions, terminal, alive, reader, at, of>>
  OBVIOUS
<1>2. \A s \in Sessions : shell'[s] = shell[s] \/ (shell[s] = "zombie" /\ shell'[s] = "reaped")
  <2>1. CASE Wake
    BY <2>1
  <2>2. CASE Reap
    BY <2>2
  <2> QED
    BY <2>1, <2>2
<1>3. RunningIsReachable' /\ RunningIsRead'
  BY <1>1, <1>2 DEF Linked, RunningIsReachable, RunningIsRead, InHand, TypeOK
<1>4. ZombieIsNoticed'
  BY DEF Linked, ZombieIsNoticed
<1>5. DeadIsOver' /\ EndsInOrder'
  BY <1>1, <1>2 DEF Linked, DeadIsOver, EndsInOrder
<1>6. Numbered' /\ KilledIsHungUp'
  BY <1>1, <1>2 DEF Linked, Numbered, KilledIsHungUp, TypeOK
<1> QED
  BY <1>3, <1>4, <1>5, <1>6 DEF Linked

\* The shutdown hangs up what is listed, the end of run_daemon what is not read.
LEMMA LeaveLinked ==
  ASSUME TypeOK, Linked, Shutdown \/ Return PROVE Linked'
<1>1. CASE Shutdown
  <2>1. /\ main' = "leaving" /\ main # "gone" /\ shell' = HungUp(sessions)
        /\ alive' = [s \in Sessions |-> alive[s] /\ s \notin sessions]
        /\ UNCHANGED <<nextId, sessions, terminal, reader, chld, cleaner, at, of>>
    BY <1>1 DEF Shutdown, cleanVars
  <2>2. /\ \A t \in Sessions : shell'[t] = "running" => shell[t] = "running" /\ t \notin sessions
        /\ \A t \in Sessions : shell'[t] = "none" <=> shell[t] = "none"
        /\ ZombieIsNoticed' /\ DeadIsOver' /\ EndsInOrder'
    <3>1. sessions \in SUBSET Sessions /\ \A t \in sessions : shell[t] # "none"
      BY DEF TypeOK, Linked, Numbered
    <3>2. \A t \in Sessions : ~alive'[t] => ~alive[t] \/ t \in sessions
      BY <2>1
    <3> QED
      BY <2>1, <3>1, <3>2, HangsUp
  <2>3. RunningIsReachable' /\ RunningIsRead'
    BY <2>1, <2>2 DEF Linked, RunningIsReachable, RunningIsRead, InHand, TypeOK
  <2>4. Numbered' /\ KilledIsHungUp'
    BY <2>1, <2>2 DEF Linked, Numbered, KilledIsHungUp, TypeOK
  <2> QED
    BY <2>2, <2>3, <2>4 DEF Linked
<1>2. CASE Return
  <2>1. /\ main' = "gone" /\ at' = [c \in Clients |-> "gone"]
        /\ shell' = HungUp({s \in Sessions : reader[s] = "none"})
        /\ UNCHANGED <<nextId, sessions, terminal, alive, reader, chld, cleaner, of>>
    BY <1>2 DEF Return, cleanVars
  <2>2. \A s \in Sessions : shell'[s] = shell[s] \/ (shell[s] = "running" /\ shell'[s] = "hungup")
    BY <2>1 DEF HungUp
  <2>3. RunningIsReachable' /\ RunningIsRead' /\ ZombieIsNoticed' /\ KilledIsHungUp'
    BY <2>1 DEF RunningIsReachable, RunningIsRead, ZombieIsNoticed, KilledIsHungUp
  <2>4. DeadIsOver' /\ EndsInOrder'
    BY <2>1, <2>2 DEF Linked, DeadIsOver, EndsInOrder
  <2>5. Numbered'
    BY <2>1, <2>2 DEF Linked, Numbered, TypeOK
  <2> QED
    BY <2>3, <2>4, <2>5 DEF Linked
<1> QED
  BY <1>1, <1>2

-----------------------------------------------------------------------------
\* Every step keeps the links: each action is one of the cases above.
LEMMA NextLinked == TypeOK /\ Linked /\ [Next]_vars => Linked'
<1> SUFFICES ASSUME TypeOK, Linked, [Next]_vars PROVE Linked'
  OBVIOUS
<1>1. ASSUME NEW c \in Clients,
             \/ Connect(c) \/ NoSession(c) \/ NewAck(c) \/ AttachAck(c) \/ Replay(c) \/ SendFails(c)
             \/ CloseTell(c) \/ Subscribe(c) \/ Deliver(c) \/ BridgeEnd(c) \/ BridgeError(c)
             \/ BridgeClose(c) \/ BridgeTell(c) \/ Leave(c)
      PROVE  Linked'
  <2>1. UNCHANGED <<main, nextId, sessions, shell, terminal, alive, reader, chld, cleaner, of>>
    BY <1>1 DEF Connect, NoSession, NewAck, AttachAck, Replay, SendFails, CloseTell, Subscribe,
       Deliver, BridgeEnd, BridgeError, BridgeClose, BridgeTell, Leave, End, sessionVars, cleanVars
  <2>2. at[c] \notin {"insert", "start", "kill", "gone"}
    BY <1>1 DEF Connect, NoSession, NewAck, AttachAck, Replay, SendFails, CloseTell, Subscribe,
       Deliver, BridgeEnd, BridgeError, BridgeClose, BridgeTell, Leave, End, Go
  <2>3. CASE BridgeTell(c)
    <3>1. at[c] = "btell" /\ at' = [at EXCEPT ![c] = "bremove"]
      BY <2>3 DEF BridgeTell, Go
    <3>2. shell[of[c]] # "running"
      BY <3>1 DEF Linked, KilledIsHungUp
    <3>3. "bremove" \in HandlerState /\ "bremove" \notin Links /\ at[c] \notin Links
      BY <3>1 DEF HandlerState, Links
    <3> QED
      BY <2>1, <3>1, <3>2, <3>3, HandlerMoves
  <2>4. CASE ~BridgeTell(c)
    <3>1. PICK to \in {"cmd", "subscribe", "replay", "bridge", "leave", "bkill", "gone"} :
            /\ at' = [at EXCEPT ![c] = to]
            /\ at[c] \in {"off", "cmd"} => to \in {"cmd", "gone"}
      BY <1>1, <2>4, Zenon
         DEF Connect, NoSession, NewAck, AttachAck, Replay, SendFails, CloseTell, Subscribe,
             Deliver, BridgeEnd, BridgeError, BridgeClose, Leave, End, Go
    <3>2. to \in HandlerState /\ to \notin Links /\ at[c] \notin Links
      BY <2>2 DEF HandlerState, Links
    <3> QED
      BY <2>1, <2>2, <3>1, <3>2, HandlerMoves
  <2> QED
    BY <2>3, <2>4
<1>2. ASSUME NEW c \in Clients, BridgeRemove(c) PROVE Linked'
  <2>1. /\ at[c] = "bremove" /\ at' = [at EXCEPT ![c] = "leave"] /\ sessions' = sessions \ {of[c]}
        /\ UNCHANGED <<main, nextId, shell, terminal, alive, reader, chld, cleaner, of>>
    BY <1>2 DEF BridgeRemove, Go, sessionVars, cleanVars
  <2>2. shell[of[c]] # "running"
    BY <2>1 DEF Linked, KilledIsHungUp
  <2>3. ZombieIsNoticed'
    BY <2>1 DEF Linked, ZombieIsNoticed
  <2>4. \A e \in Clients : at'[e] = at[e] \/ (at[e] = "bremove" /\ at'[e] = "leave")
    BY <2>1 DEF TypeOK
  <2> QED
    BY <2>1, <2>2, <2>3, <2>4, ForgetLinked
<1>3. ASSUME NEW s \in Sessions, ReaderExtend(s) \/ ReaderStep(s) PROVE Linked'
  <2>1. UNCHANGED <<main, nextId, sessions, shell, terminal, chld, cleaner, at, of>>
    BY <1>3 DEF ReaderStep, ReaderExtend, ReaderFanOut, ReaderEof, ReaderSetDead, ReaderTell,
       cleanVars, clientVars
  <2>2. PICK to \in ReaderState \ {"none"} :
          /\ reader' = [reader EXCEPT ![s] = to] /\ reader[s] # "none"
          /\ to \in {"dead", "tell", "done"} => terminal[s] = "closed"
    BY <1>3 DEF ReaderStep, ReaderExtend, ReaderFanOut, ReaderEof, ReaderSetDead, ReaderTell,
       GoReader, ReaderState, Linked, EndsInOrder
  <2>3. /\ alive' \in {alive, [alive EXCEPT ![s] = FALSE]}
        /\ alive' # alive => terminal[s] = "closed"
    BY <1>3 DEF ReaderStep, ReaderExtend, ReaderFanOut, ReaderEof, ReaderSetDead, ReaderTell,
       GoReader, Linked, EndsInOrder
  <2> QED
    BY <2>1, <2>2, <2>3, ReaderMoves
<1>4. CASE Sweep
  <2>1. /\ sessions' = {s \in sessions : alive[s]} /\ cleaner = "sweep"
        /\ UNCHANGED <<main, nextId, shell, terminal, alive, reader, chld, at, of>>
    BY <1>4 DEF Sweep, sessionVars, clientVars
  <2>2. \A s \in sessions \ sessions' : shell[s] # "running"
    BY <2>1 DEF Linked, DeadIsOver, TypeOK
  <2>3. ZombieIsNoticed'
    BY <2>1 DEF Linked, ZombieIsNoticed
  <2> QED
    BY <2>1, <2>2, <2>3, ForgetLinked
<1>5. CASE UNCHANGED vars
  BY <1>5 DEF vars, sessionVars, cleanVars, clientVars, Linked, RunningIsReachable, RunningIsRead,
     ZombieIsNoticed, DeadIsOver, EndsInOrder, Numbered, KilledIsHungUp, InHand
<1> QED
  BY <1>1, <1>2, <1>3, <1>4, <1>5, NewLinked, InsertLinked, StartLinked, TakeLinked, KillLinked,
     ExitLinked, ReapLinked, LeaveLinked
     DEF Next, Command, HandlerStep, CleanerStep

-----------------------------------------------------------------------------
(* The output a client draws *)

Draws == Subscribed /\ UpToDate /\ DrawsInOrder

\* What the parts say of a client, one by one.
LEMMA ClientDraws ==
  ASSUME Draws, NEW c \in Clients
  PROVE  /\ at[c] \in Watching => c \in subs[of[c]]
         /\ at[c] \notin Watching => rx[c] = <<>> /\ screen[c].kind # "raw"
         /\ at[c] \in {"off", "cmd"} => screen[c].kind = "blank"
         /\ LastFrame(c).kind = "raw" => LastFrame(c).n = SentUpTo(of[c])
         /\ LastFrame(c).kind = "replay" => LastFrame(c).n <= ring[of[c]]
BY DEF Draws, Subscribed, UpToDate

LEMMA InitDraws == Init => Draws
<1> SUFFICES ASSUME Init PROVE Draws
  OBVIOUS
<1>1. \A c \in Clients : at[c] = "off" /\ rx[c] = <<>> /\ screen[c].kind = "blank"
  BY DEF Init, Blank
<1>2. \A s \in Sessions : subs[s] = {} /\ reader[s] = "none"
  BY DEF Init
<1>3. Subscribed
  BY <1>1, <1>2 DEF Subscribed, Watching
<1>4. UpToDate
  BY <1>1, <1>2 DEF UpToDate, LastFrame, Watching
<1>5. DrawsInOrder
  <2>1. \A c \in Clients : Len(rx[c]) = 0
    BY <1>1
  <2> QED
    BY <1>1, <2>1 DEF DrawsInOrder
<1> QED
  BY <1>3, <1>4, <1>5 DEF Draws

\* A handler moves on, in or out of sight of its session, or a reader with nothing to
\* send or a chunk more to send.
LEMMA NothingSent ==
  ASSUME TypeOK, Draws, UNCHANGED <<rx, screen, subs>>,
         \A s \in Sessions : /\ SentUpTo(s)' = SentUpTo(s)
                             /\ ring'[s] \in Nat /\ ring'[s] >= ring[s]
                             /\ reader'[s] = "fanout" => ring'[s] >= 1,
         \A c \in Clients : /\ at'[c] \in Watching <=> at[c] \in Watching
                            /\ at'[c] \in {"off", "cmd"} => at[c] \in {"off", "cmd"}
                            /\ at[c] = "gone" => at'[c] = "gone"
                            /\ of'[c] = of[c] \/ at[c] = "cmd"
  PROVE  Draws'
<1>1. "cmd" \notin Watching \cup {"gone"}
  BY DEF Watching
<1>2. Subscribed'
  <2>1. \A s \in Sessions : \A c \in subs'[s] : of'[c] = s /\ at'[c] \in Watching \cup {"gone"}
    <3>1. \A s \in Sessions : \A c \in subs[s] : /\ c \in Clients /\ of[c] = s
                                               /\ at[c] \in Watching \cup {"gone"}
      BY DEF Draws, Subscribed, TypeOK
    <3> QED
      BY <1>1, <3>1
  <2>2. \A c \in Clients : at'[c] \in Watching => c \in subs'[of'[c]]
    BY <1>1 DEF Draws, Subscribed
  <2> QED
    BY <2>1, <2>2 DEF Subscribed
<1>3. DrawsInOrder'
  BY DEF Draws, DrawsInOrder
<1>4. ASSUME NEW c \in Clients
      PROVE  /\ LastFrame(c)'.kind = "raw" => LastFrame(c)'.n = SentUpTo(of[c])'
             /\ LastFrame(c)'.kind = "replay" => LastFrame(c)'.n <= ring'[of'[c]]
  <2>1. LastFrame(c)' = LastFrame(c)
    BY DEF LastFrame
  <2>2. CASE at[c] = "cmd"
    <3>1. LastFrame(c).kind = "blank"
      BY <1>1, <2>2, ClientDraws DEF LastFrame
    <3> QED
      BY <2>1, <3>1
  <2>3. CASE at[c] # "cmd"
    <3>1. of'[c] = of[c] /\ of[c] \in Sessions
      BY <2>3 DEF TypeOK
    <3>2. ring[of[c]] \in Nat /\ ring'[of[c]] \in Nat /\ ring'[of[c]] >= ring[of[c]]
      BY <3>1 DEF TypeOK
    <3>3. LastFrame(c) \in Frames
      BY DEF LastFrame, TypeOK
    <3>4. LastFrame(c).n \in Nat
      BY <3>3 DEF Frames
    <3>5. SentUpTo(of[c])' = SentUpTo(of[c])
      BY <3>1
    <3> QED
      BY <2>1, <3>1, <3>2, <3>4, <3>5, ClientDraws
  <2> QED
    BY <2>2, <2>3
<1>5. UpToDate'
  BY <1>4 DEF Draws, UpToDate
<1> QED
  BY <1>2, <1>3, <1>5 DEF Draws

\* A handler ends; its session may still list it.
LEMMA EndDraws ==
  ASSUME TypeOK, Draws, NEW c \in Clients, NEW from, End(c, from),
         subs' = subs \/ subs' = [subs EXCEPT ![of[c]] = @ \ {c}],
         UNCHANGED <<ring, reader>>
  PROVE  Draws'
<1>1. /\ at' = [at EXCEPT ![c] = "gone"] /\ rx' = [rx EXCEPT ![c] = <<>>]
      /\ screen' = [screen EXCEPT ![c] = Blank] /\ of' = of
  BY DEF End, Go
<1>2. at'[c] = "gone" /\ rx'[c] = <<>> /\ screen'[c] = Blank /\ "gone" \notin Watching
  BY <1>1 DEF TypeOK, Watching
<1>3. \A e \in Clients : e # c => at'[e] = at[e] /\ rx'[e] = rx[e] /\ screen'[e] = screen[e]
  BY <1>1 DEF TypeOK
<1>4. \A s \in Sessions : \A e \in Clients : e # c => (e \in subs'[s] <=> e \in subs[s])
  BY DEF TypeOK
<1>5. \A s \in Sessions : subs'[s] \subseteq subs[s] /\ subs[s] \subseteq Clients
  BY DEF TypeOK
<1>6. Subscribed'
  <2>1. \A e \in Clients : of[e] \in Sessions
    BY DEF TypeOK
  <2>2. \A e \in Clients : at'[e] \in Watching => e \in subs'[of'[e]]
    BY <1>1, <1>2, <1>3, <1>4, <2>1 DEF Draws, Subscribed
  <2>3. \A s \in Sessions : \A e \in subs'[s] : of'[e] = s /\ at'[e] \in Watching \cup {"gone"}
    BY <1>1, <1>2, <1>3, <1>5 DEF Draws, Subscribed
  <2> QED
    BY <2>2, <2>3 DEF Subscribed
<1>7. UpToDate'
  <2>1. \A s \in Sessions : SentUpTo(s)' = SentUpTo(s)
    BY DEF SentUpTo
  <2>2. \A e \in Clients : e # c => LastFrame(e)' = LastFrame(e)
    BY <1>3 DEF LastFrame
  <2>3. LastFrame(c)' = Blank /\ Blank.kind = "blank"
    BY <1>2 DEF LastFrame, Blank
  <2>4. \A e \in Clients : of[e] \in Sessions
    BY DEF TypeOK
  <2>5. ASSUME NEW e \in Clients
        PROVE  /\ at'[e] \notin Watching => rx'[e] = <<>> /\ screen'[e].kind # "raw"
               /\ at'[e] \in {"off", "cmd"} => screen'[e].kind = "blank"
               /\ LastFrame(e)'.kind = "raw" => LastFrame(e)'.n = SentUpTo(of[e])'
               /\ LastFrame(e)'.kind = "replay" => LastFrame(e)'.n <= ring'[of'[e]]
    <3>1. CASE e = c
      BY <1>2, <2>3, <3>1
    <3>2. CASE e # c
      BY <1>1, <1>3, <2>1, <2>2, <2>4, <3>2, ClientDraws
    <3> QED
      BY <3>1, <3>2
  <2> QED
    BY <2>5 DEF Draws, UpToDate
<1>8. DrawsInOrder'
  <2>1. Len(rx'[c]) = 0
    BY <1>2
  <2> QED
    BY <1>2, <1>3, <2>1 DEF Draws, DrawsInOrder
<1> QED
  BY <1>6, <1>7, <1>8 DEF Draws

LEMMA EmptyIsShort ==
  ASSUME NEW q \in Seq(Frames)
  PROVE  q = <<>> <=> Len(q) = 0
OBVIOUS

\* A frame behind the last one keeps the order if it follows it.
LEMMA OrderAppended ==
  ASSUME NEW x \in Frames, NEW q \in Seq(Frames), NEW f \in Frames,
         q # <<>> => Follows(x, q[1]),
         \A i \in 1..(Len(q) - 1) : Follows(q[i], q[i + 1]),
         Follows(IF q = <<>> THEN x ELSE q[Len(q)], f)
  PROVE  /\ Append(q, f) # <<>> /\ Follows(x, Append(q, f)[1])
         /\ \A i \in 1..(Len(Append(q, f)) - 1) : Follows(Append(q, f)[i], Append(q, f)[i + 1])
         /\ Append(q, f)[Len(Append(q, f))] = f
<1> DEFINE r == Append(q, f)
<1>1. Len(q) \in Nat /\ Len(r) = Len(q) + 1 /\ r[Len(q) + 1] = f /\ \A i \in 1..Len(q) : r[i] = q[i]
  OBVIOUS
<1>2. r # <<>> /\ (q = <<>> <=> Len(q) = 0)
  <2>1. q = <<>> <=> Len(q) = 0
    BY EmptyIsShort
  <2>2. Len(<<>>) = 0
    OBVIOUS
  <2> HIDE DEF r
  <2>3. r # <<>>
    BY <1>1, <2>2
  <2> QED
    BY <2>1, <2>3
<1> HIDE DEF r
<1>3. Follows(x, r[1])
  <2>1. CASE q = <<>>
    <3>1. r[1] = f
      BY <1>1, <1>2, <2>1
    <3> QED
      BY <2>1, <3>1
  <2>2. CASE q # <<>>
    <3>1. r[1] = q[1]
      BY <1>1, <1>2, <2>2
    <3> QED
      BY <2>2, <3>1
  <2> QED
    BY <2>1, <2>2
<1>4. ASSUME NEW i \in 1..(Len(r) - 1) PROVE Follows(r[i], r[i + 1])
  <2>1. CASE i = Len(q)
    <3>1. q # <<>> /\ r[i] = q[Len(q)] /\ r[i + 1] = f
      BY <1>1, <1>2, <2>1
    <3> QED
      BY <3>1
  <2>2. CASE i # Len(q)
    <3>1. i \in 1..(Len(q) - 1) /\ r[i] = q[i] /\ r[i + 1] = q[i + 1]
      BY <1>1, <2>2
    <3> QED
      BY <3>1
  <2> QED
    BY <2>1, <2>2
<1> QED
  BY <1>1, <1>2, <1>3, <1>4 DEF r

\* A frame goes to some of those who watch: the next chunk, or the end.
LEMMA FrameSent ==
  ASSUME TypeOK, Draws, NEW R \in SUBSET Clients, NEW f \in Frames, f.kind \in {"raw", "exited"},
         rx' = [c \in Clients |-> IF c \in R THEN Append(rx[c], f) ELSE rx[c]], screen' = screen,
         \A c \in R : f.kind = "raw" => reader[of[c]] = "fanout" /\ f.n = ring[of[c]]
  PROVE  /\ DrawsInOrder'
         /\ \A c \in Clients : LastFrame(c)' = IF c \in R THEN f ELSE LastFrame(c)
         /\ \A c \in Clients : c \notin R => rx'[c] = rx[c]
<1>1. ASSUME NEW c \in Clients, c \in R
      PROVE  /\ rx'[c] # <<>> /\ Follows(screen[c], rx'[c][1]) /\ LastFrame(c)' = f
             /\ \A i \in 1..(Len(rx'[c]) - 1) : Follows(rx'[c][i], rx'[c][i + 1])
  <2>1. rx'[c] = Append(rx[c], f) /\ rx[c] \in Seq(Frames) /\ screen[c] \in Frames
    BY <1>1 DEF TypeOK
  <2>2. Follows(LastFrame(c), f)
    <3>1. of[c] \in Sessions /\ ring[of[c]] \in Nat
      BY DEF TypeOK
    <3>2. CASE f.kind = "raw"
      <4>1. f.n = ring[of[c]] /\ SentUpTo(of[c]) = ring[of[c]] - 1
        BY <1>1, <3>2 DEF SentUpTo
      <4>2. LastFrame(c) \in Frames
        BY DEF LastFrame, TypeOK
      <4>3. LastFrame(c).n \in Nat
        BY <4>2 DEF Frames
      <4> QED
        BY <3>1, <4>1, <4>3, ClientDraws DEF Follows
    <3>3. CASE f.kind # "raw"
      BY <3>3 DEF Follows
    <3> QED
      BY <3>2, <3>3
  <2>3. /\ rx[c] # <<>> => Follows(screen[c], rx[c][1])
        /\ \A i \in 1..(Len(rx[c]) - 1) : Follows(rx[c][i], rx[c][i + 1])
    BY DEF Draws, DrawsInOrder
  <2>4. /\ rx'[c] # <<>> /\ Follows(screen[c], rx'[c][1]) /\ rx'[c][Len(rx'[c])] = f
        /\ \A i \in 1..(Len(rx'[c]) - 1) : Follows(rx'[c][i], rx'[c][i + 1])
    BY <2>1, <2>2, <2>3, OrderAppended DEF LastFrame
  <2> QED
    BY <2>4 DEF LastFrame
<1>2. ASSUME NEW c \in Clients, c \notin R
      PROVE  rx'[c] = rx[c] /\ LastFrame(c)' = LastFrame(c)
  BY <1>2 DEF LastFrame
<1>3. DrawsInOrder'
  BY <1>1, <1>2 DEF Draws, DrawsInOrder
<1> QED
  BY <1>1, <1>2, <1>3

\* A session's chunk, or its end, goes out to whoever watches it.
LEMMA FanOutDraws ==
  ASSUME TypeOK, Draws, NEW s \in Sessions, NEW f \in Frames, FanOut(s, f),
         f.kind \in {"raw", "exited"},
         f.kind = "raw" => reader[s] = "fanout" /\ reader'[s] = "read" /\ f.n = ring[s],
         f.kind = "exited" => (reader'[s] = "fanout" <=> reader[s] = "fanout"),
         \A t \in Sessions : t # s => reader'[t] = reader[t],
         UNCHANGED <<ring, of, screen>>,
         \A c \in Clients : \/ at'[c] = at[c]
                            \/ at[c] = "tell" /\ at'[c] = "gone"
                            \/ at[c] = "btell" /\ at'[c] = "bremove"
  PROVE  Draws'
<1> DEFINE R == {c \in subs[s] : at[c] # "gone"}
<1>1. /\ rx' = [c \in Clients |-> IF c \in R THEN Append(rx[c], f) ELSE rx[c]]
      /\ \A t \in Sessions : subs'[t] = IF t = s THEN R ELSE subs[t]
  BY DEF FanOut, Receiving, TypeOK
<1>2. /\ R \in SUBSET Clients
      /\ \A c \in R : of[c] = s /\ at[c] \in Watching
      /\ \A c \in Clients : of[c] = s /\ at[c] \in Watching => c \in R
  BY DEF TypeOK, Draws, Subscribed, Watching
<1>3. \A c \in Clients : /\ at'[c] \in Watching <=> at[c] \in Watching
                         /\ at'[c] \in {"off", "cmd"} => at[c] \in {"off", "cmd"}
                         /\ at[c] = "gone" => at'[c] = "gone"
  BY DEF Watching
<1>4. /\ \A t \in Sessions : subs'[t] \subseteq subs[t] /\ subs[t] \subseteq Clients
      /\ \A c \in Clients : at[c] \in Watching => c \in subs'[of[c]]
  <2>1. \A c \in Clients : of[c] \in Sessions
    BY DEF TypeOK
  <2>2. "gone" \notin Watching
    BY DEF Watching
  <2> QED
    BY <1>1, <2>1, <2>2, ClientDraws DEF TypeOK
<1> HIDE DEF R
<1>5. /\ DrawsInOrder'
      /\ \A c \in Clients : LastFrame(c)' = IF c \in R THEN f ELSE LastFrame(c)
      /\ \A c \in Clients : c \notin R => rx'[c] = rx[c]
  <2>1. \A c \in R : f.kind = "raw" => reader[of[c]] = "fanout" /\ f.n = ring[of[c]]
    BY <1>2
  <2>2. /\ R \in SUBSET Clients /\ screen' = screen
        /\ rx' = [c \in Clients |-> IF c \in R THEN Append(rx[c], f) ELSE rx[c]]
    BY <1>1, <1>2
  <2> QED
    BY <2>1, <2>2, FrameSent
<1>6. Subscribed'
  BY <1>3, <1>4 DEF Draws, Subscribed
<1>7. ASSUME NEW c \in Clients
      PROVE  /\ LastFrame(c)'.kind = "raw" => LastFrame(c)'.n = SentUpTo(of[c])'
             /\ LastFrame(c)'.kind = "replay" => LastFrame(c)'.n <= ring'[of'[c]]
  <2>1. CASE c \in R
    BY <1>2, <1>5, <2>1 DEF SentUpTo
  <2>2. CASE c \notin R
    <3>1. LastFrame(c)' = LastFrame(c) /\ of[c] \in Sessions
      BY <1>5, <2>2 DEF TypeOK
    <3>2. LastFrame(c).kind = "raw" => at[c] \in Watching
      BY ClientDraws DEF LastFrame
    <3>3. LastFrame(c).kind = "raw" => of[c] # s
      BY <1>2, <2>2, <3>2
    <3>4. of[c] # s => SentUpTo(of[c])' = SentUpTo(of[c])
      BY <3>1 DEF SentUpTo
    <3> QED
      BY <3>1, <3>3, <3>4, ClientDraws
  <2> QED
    BY <2>1, <2>2
<1>8. UpToDate'
  <2>1. ASSUME NEW c \in Clients
        PROVE  /\ at'[c] \notin Watching => rx'[c] = <<>> /\ screen'[c].kind # "raw"
               /\ at'[c] \in {"off", "cmd"} => screen'[c].kind = "blank"
    BY <1>2, <1>3, <1>5, ClientDraws
  <2>2. \A t \in Sessions : reader'[t] = "fanout" => ring'[t] >= 1
    BY DEF Draws, UpToDate
  <2> QED
    BY <1>7, <2>1, <2>2 DEF UpToDate
<1> QED
  BY <1>5, <1>6, <1>8 DEF Draws

\* The client reads a frame.
LEMMA DeliverDraws ==
  ASSUME TypeOK, Draws, NEW c \in Clients, Deliver(c) PROVE Draws'
<1> DEFINE q == rx[c]
<1>1. /\ q \in Seq(Frames) /\ q # <<>> /\ at[c] = "bridge" /\ at' = at /\ UNCHANGED <<subs, of, ring, reader>>
      /\ rx' = [rx EXCEPT ![c] = Tail(q)] /\ screen' = [screen EXCEPT ![c] = Head(q)]
  BY DEF Deliver, Go, TypeOK, sessionVars
<1>2. rx'[c] = Tail(q) /\ screen'[c] = Head(q)
  BY <1>1 DEF TypeOK
<1>3. \A e \in Clients : e # c => rx'[e] = rx[e] /\ screen'[e] = screen[e]
  BY <1>1 DEF TypeOK
<1>4. /\ Len(q) \in Nat \ {0} /\ Len(Tail(q)) = Len(q) - 1 /\ Head(q) = q[1]
      /\ \A i \in 1..(Len(q) - 1) : Tail(q)[i] = q[i + 1]
  BY <1>1
<1>5. Tail(q) = <<>> <=> Len(q) = 1
  <2>1. Tail(q) \in Seq(Frames)
    BY <1>1
  <2>2. Tail(q) = <<>> <=> Len(Tail(q)) = 0
    BY <2>1, EmptyIsShort
  <2> QED
    BY <1>4, <2>2
<1>6. /\ \A i \in 1..(Len(q) - 1) : Follows(q[i], q[i + 1])
      /\ LastFrame(c) = q[Len(q)]
  BY <1>1 DEF Draws, DrawsInOrder, LastFrame
<1> HIDE DEF q
<1>7. LastFrame(c)' = LastFrame(c)
  <2>1. CASE Len(q) = 1
    <3>1. LastFrame(c)' = Head(q)
      BY <1>2, <1>5, <2>1 DEF LastFrame
    <3> QED
      BY <1>4, <1>6, <2>1, <3>1
  <2>2. CASE Len(q) # 1
    <3>1. LastFrame(c)' = Tail(q)[Len(Tail(q))]
      BY <1>2, <1>5, <2>2 DEF LastFrame
    <3>2. Len(Tail(q)) \in 1..(Len(q) - 1) /\ Len(Tail(q)) + 1 = Len(q)
      BY <1>4, <2>2
    <3>3. Tail(q)[Len(Tail(q))] = q[Len(q)]
      BY <1>4, <3>2
    <3> QED
      BY <1>6, <3>1, <3>3
  <2> QED
    BY <2>1, <2>2
<1>8. DrawsInOrder'
  <2>1. Tail(q) # <<>> => Follows(Head(q), Tail(q)[1])
    <3>1. Tail(q) # <<>> => 1 \in 1..(Len(q) - 1) /\ 1 + 1 = 2
      BY <1>4, <1>5
    <3>2. Tail(q) # <<>> => Tail(q)[1] = q[1 + 1] /\ Follows(q[1], q[1 + 1])
      BY <1>4, <1>6, <3>1
    <3> QED
      BY <1>4, <3>2
  <2>2. ASSUME NEW i \in 1..(Len(Tail(q)) - 1) PROVE Follows(Tail(q)[i], Tail(q)[i + 1])
    <3>1. i \in 1..(Len(q) - 1) /\ i + 1 \in 1..(Len(q) - 1)
      BY <1>4
    <3>2. Tail(q)[i] = q[i + 1] /\ Tail(q)[i + 1] = q[(i + 1) + 1] /\ Follows(q[i + 1], q[(i + 1) + 1])
      BY <1>4, <1>6, <3>1
    <3> QED
      BY <3>2
  <2>3. ASSUME NEW e \in Clients
        PROVE  /\ rx'[e] # <<>> => Follows(screen'[e], rx'[e][1])
               /\ \A i \in 1..(Len(rx'[e]) - 1) : Follows(rx'[e][i], rx'[e][i + 1])
    <3>1. CASE e = c
      BY <1>2, <2>1, <2>2, <3>1
    <3>2. CASE e # c
      BY <1>3, <3>2 DEF Draws, DrawsInOrder
    <3> QED
      BY <3>1, <3>2
  <2> QED
    BY <2>3 DEF DrawsInOrder
<1>9. Subscribed'
  BY <1>1 DEF Draws, Subscribed
<1>10. UpToDate'
  <2>1. \A e \in Clients : LastFrame(e)' = LastFrame(e)
    BY <1>3, <1>7 DEF LastFrame
  <2>2. \A s \in Sessions : SentUpTo(s)' = SentUpTo(s)
    BY <1>1 DEF SentUpTo
  <2>3. at[c] \in Watching /\ at[c] \notin {"off", "cmd"}
    BY <1>1 DEF Watching
  <2>4. \A e \in Clients : of[e] \in Sessions
    BY DEF TypeOK
  <2>5. ASSUME NEW e \in Clients
        PROVE  /\ at'[e] \notin Watching => rx'[e] = <<>> /\ screen'[e].kind # "raw"
               /\ at'[e] \in {"off", "cmd"} => screen'[e].kind = "blank"
               /\ LastFrame(e)'.kind = "raw" => LastFrame(e)'.n = SentUpTo(of[e])'
               /\ LastFrame(e)'.kind = "replay" => LastFrame(e)'.n <= ring'[of'[e]]
    BY <1>1, <1>3, <2>1, <2>2, <2>3, <2>4, ClientDraws
  <2> QED
    BY <1>1, <2>5 DEF Draws, UpToDate
<1> QED
  BY <1>8, <1>9, <1>10 DEF Draws

\* The client gets the acknowledgement or the replay, before it is subscribed.
LEMMA ShownDraws ==
  ASSUME TypeOK, Draws, NEW c \in Clients, AttachAck(c) \/ Replay(c) PROVE Draws'
<1>1. /\ at[c] \in {"ack", "replay"} /\ at' = [at EXCEPT ![c] = IF at[c] = "ack" THEN "replay" ELSE "subscribe"]
      /\ UNCHANGED <<subs, of, ring, reader, rx>>
  BY DEF AttachAck, Replay, Go, sessionVars
<1> DEFINE f == screen'[c]
<1>2. /\ screen' = [screen EXCEPT ![c] = f]
      /\ f = screen[c] \/ f.kind = "exited" \/ (f.kind = "replay" /\ f.n = ring[of[c]])
  <2>1. CASE AttachAck(c)
    <3>1. screen' = [screen EXCEPT ![c] = IF alive[of[c]] THEN @ ELSE Exited] /\ Exited.kind = "exited"
      BY <2>1 DEF AttachAck, Exited
    <3> QED
      BY <3>1 DEF TypeOK
  <2>2. CASE Replay(c)
    <3>1. screen' = [screen EXCEPT ![c] =
                       IF Stays(c) THEN [kind |-> "replay", n |-> ring[of[c]]] ELSE @]
      BY <2>2 DEF Replay
    <3> QED
      BY <3>1 DEF TypeOK
  <2> QED
    BY <2>1, <2>2
<1> HIDE DEF f
<1>3. /\ at'[c] \notin Watching \cup {"off", "cmd", "gone"} /\ at[c] \notin Watching \cup {"off", "cmd", "gone"}
      /\ screen'[c] = f /\ rx[c] = <<>>
      /\ \A e \in Clients : e # c => at'[e] = at[e] /\ screen'[e] = screen[e]
  <2>1. at'[c] \in {"replay", "subscribe"} /\ screen'[c] = f
    BY <1>1 DEF TypeOK, f
  <2>2. \A e \in Clients : e # c => at'[e] = at[e] /\ screen'[e] = screen[e]
    BY <1>1, <1>2 DEF TypeOK
  <2>3. at[c] \notin Watching
    BY <1>1 DEF Watching
  <2> QED
    BY <1>1, <2>1, <2>2, <2>3, ClientDraws DEF Watching
<1>4. Subscribed'
  BY <1>1, <1>3 DEF Draws, Subscribed
<1>5. DrawsInOrder'
  <2>1. Len(rx[c]) = 0
    BY <1>3
  <2> QED
    BY <1>1, <1>3, <2>1 DEF Draws, DrawsInOrder
<1>6. UpToDate'
  <2>1. \A s \in Sessions : SentUpTo(s)' = SentUpTo(s)
    BY <1>1 DEF SentUpTo
  <2>2. \A e \in Clients : of[e] \in Sessions /\ ring[of[e]] \in Nat
    BY DEF TypeOK
  <2>3. \A e \in Clients : e # c => LastFrame(e)' = LastFrame(e)
    BY <1>1, <1>3 DEF LastFrame
  <2>4. LastFrame(c)' = f /\ LastFrame(c) = screen[c] /\ screen[c].kind # "raw"
    BY <1>1, <1>3, ClientDraws DEF LastFrame
  <2>5. ASSUME NEW e \in Clients
        PROVE  /\ at'[e] \notin Watching => rx'[e] = <<>> /\ screen'[e].kind # "raw"
               /\ at'[e] \in {"off", "cmd"} => screen'[e].kind = "blank"
               /\ LastFrame(e)'.kind = "raw" => LastFrame(e)'.n = SentUpTo(of[e])'
               /\ LastFrame(e)'.kind = "replay" => LastFrame(e)'.n <= ring'[of'[e]]
    <3>1. CASE e = c
      BY <1>1, <1>2, <1>3, <2>2, <2>4, <3>1, ClientDraws
    <3>2. CASE e # c
      BY <1>1, <1>3, <2>1, <2>2, <2>3, <3>2, ClientDraws
    <3> QED
      BY <3>1, <3>2
  <2> QED
    BY <1>1, <2>5 DEF Draws, UpToDate
<1> QED
  BY <1>4, <1>5, <1>6 DEF Draws

LEMMA SubscribeDraws ==
  ASSUME TypeOK, Draws, NEW c \in Clients, Subscribe(c) PROVE Draws'
<1>1. /\ at[c] = "subscribe" /\ at' = [at EXCEPT ![c] = "bridge"]
      /\ subs' = [subs EXCEPT ![of[c]] = @ \cup {c}]
      /\ UNCHANGED <<of, ring, reader, rx, screen>>
  BY DEF Subscribe, Go, sessionVars
<1>2. /\ at'[c] = "bridge" /\ \A e \in Clients : e # c => at'[e] = at[e]
      /\ of[c] \in Sessions
      /\ \A s \in Sessions : subs'[s] = (IF s = of[c] THEN subs[s] \cup {c} ELSE subs[s])
  BY <1>1 DEF TypeOK
<1>3. "bridge" \in Watching /\ at[c] \notin Watching
  BY <1>1 DEF Watching
<1>4. Subscribed'
  <2>1. \A s \in Sessions : subs[s] \subseteq Clients
    BY DEF TypeOK
  <2>2. \A s \in Sessions : \A e \in subs'[s] : of'[e] = s /\ at'[e] \in Watching \cup {"gone"}
    BY <1>1, <1>2, <1>3, <2>1 DEF Draws, Subscribed
  <2>3. \A e \in Clients : at'[e] \in Watching => e \in subs'[of'[e]]
    BY <1>1, <1>2 DEF Draws, Subscribed, TypeOK
  <2> QED
    BY <2>2, <2>3 DEF Subscribed
<1>5. DrawsInOrder'
  BY <1>1 DEF Draws, DrawsInOrder
<1>6. UpToDate'
  <2>1. \A s \in Sessions : SentUpTo(s)' = SentUpTo(s)
    BY <1>1 DEF SentUpTo
  <2>2. \A e \in Clients : LastFrame(e)' = LastFrame(e) /\ of[e] \in Sessions
    BY <1>1 DEF LastFrame, TypeOK
  <2>3. ASSUME NEW e \in Clients
        PROVE  /\ at'[e] \notin Watching => rx'[e] = <<>> /\ screen'[e].kind # "raw"
               /\ at'[e] \in {"off", "cmd"} => screen'[e].kind = "blank"
               /\ LastFrame(e)'.kind = "raw" => LastFrame(e)'.n = SentUpTo(of[e])'
               /\ LastFrame(e)'.kind = "replay" => LastFrame(e)'.n <= ring'[of'[e]]
    BY <1>1, <1>2, <1>3, <2>1, <2>2, ClientDraws
  <2> QED
    BY <1>1, <2>3 DEF Draws, UpToDate
<1> QED
  BY <1>4, <1>5, <1>6 DEF Draws

\* The shutdown tells those who watch a listed session, the end of run_daemon drops
\* every client.
LEMMA ShutdownDraws ==
  ASSUME TypeOK, Draws, Shutdown PROVE Draws'
<1> DEFINE R == {c \in Clients : at[c] # "gone" /\ \E s \in sessions : c \in subs[s]}
<1>1. /\ rx' = [c \in Clients |-> IF c \in R THEN Append(rx[c], Exited) ELSE rx[c]]
      /\ UNCHANGED <<ring, reader, at, of, screen>>
  BY DEF Shutdown, Receiving
<1>2. /\ \A s \in Sessions : subs'[s] \subseteq subs[s]
      /\ \A s \in Sessions : \A c \in subs[s] : at[c] # "gone" => c \in subs'[s]
  BY DEF Shutdown, Receiving, TypeOK
<1>3. \A c \in Clients : at[c] \notin Watching => c \notin R
  BY DEF Draws, Subscribed, TypeOK
<1>4. Exited \in Frames /\ Exited.kind = "exited" /\ R \in SUBSET Clients
  BY FramesTyped DEF Exited
<1> HIDE DEF R
<1>5. /\ DrawsInOrder'
      /\ \A c \in Clients : LastFrame(c)' = IF c \in R THEN Exited ELSE LastFrame(c)
      /\ \A c \in Clients : c \notin R => rx'[c] = rx[c]
  BY <1>1, <1>4, FrameSent
<1>6. Subscribed'
  <2>1. \A c \in Clients : at[c] \in Watching => of[c] \in Sessions /\ at[c] # "gone"
    BY DEF TypeOK, Watching
  <2>2. \A c \in Clients : at[c] \in Watching => c \in subs'[of[c]]
    BY <1>2, <2>1, ClientDraws
  <2>3. \A s \in Sessions : \A c \in subs'[s] : of[c] = s /\ at[c] \in Watching \cup {"gone"}
    BY <1>2 DEF Draws, Subscribed
  <2> QED
    BY <1>1, <2>2, <2>3 DEF Subscribed
<1>7. UpToDate'
  <2>1. \A s \in Sessions : SentUpTo(s)' = SentUpTo(s)
    BY <1>1 DEF SentUpTo
  <2>2. \A c \in Clients : of[c] \in Sessions
    BY DEF TypeOK
  <2>3. ASSUME NEW c \in Clients
        PROVE  /\ at'[c] \notin Watching => rx'[c] = <<>> /\ screen'[c].kind # "raw"
               /\ at'[c] \in {"off", "cmd"} => screen'[c].kind = "blank"
               /\ LastFrame(c)'.kind = "raw" => LastFrame(c)'.n = SentUpTo(of[c])'
               /\ LastFrame(c)'.kind = "replay" => LastFrame(c)'.n <= ring'[of'[c]]
    <3>1. CASE c \in R
      BY <1>1, <1>3, <1>4, <1>5, <3>1, ClientDraws
    <3>2. CASE c \notin R
      BY <1>1, <1>5, <2>1, <2>2, <3>2, ClientDraws
    <3> QED
      BY <3>1, <3>2
  <2> QED
    BY <1>1, <2>3 DEF Draws, UpToDate
<1> QED
  BY <1>5, <1>6, <1>7 DEF Draws

LEMMA ReturnDraws ==
  ASSUME TypeOK, Draws, Return PROVE Draws'
<1>1. /\ \A c \in Clients : at'[c] = "gone" /\ rx'[c] = <<>> /\ screen'[c] = Blank
      /\ UNCHANGED <<ring, reader, of, subs>>
  BY DEF Return
<1>2. "gone" \notin Watching /\ Blank.kind = "blank"
  BY DEF Watching, Blank
<1>3. Subscribed'
  <2>1. \A s \in Sessions : \A c \in subs[s] : c \in Clients
    BY DEF TypeOK
  <2> QED
    BY <1>1, <1>2, <2>1 DEF Draws, Subscribed
<1>4. DrawsInOrder'
  <2>1. \A c \in Clients : Len(rx'[c]) = 0
    BY <1>1
  <2> QED
    BY <1>1, <2>1 DEF DrawsInOrder
<1>5. UpToDate'
  <2>1. \A c \in Clients : LastFrame(c)' = Blank
    BY <1>1 DEF LastFrame
  <2>2. \A c \in Clients : /\ rx'[c] = <<>> /\ screen'[c].kind = "blank"
                           /\ LastFrame(c)'.kind = "blank"
    BY <1>1, <1>2, <2>1
  <2> QED
    BY <1>1, <2>2 DEF Draws, UpToDate
<1> QED
  BY <1>3, <1>4, <1>5 DEF Draws

LEMMA NextDraws == TypeOK /\ Draws /\ [Next]_vars => Draws'
<1> SUFFICES ASSUME TypeOK, Draws, [Next]_vars PROVE Draws'
  OBVIOUS
<1> USE DEF sessionVars, cleanVars, clientVars
<1>1. /\ \A s \in Sessions : ring[s] \in Nat
      /\ \A s \in Sessions : reader[s] = "fanout" => ring[s] >= 1
  BY DEF TypeOK, Draws, UpToDate
<1>2. ASSUME NEW c \in Clients,
             \/ Connect(c) \/ New(c) \/ Insert(c) \/ StartReader(c) \/ NewAck(c)
             \/ (\E s \in Sessions : Attach(c, s) \/ CloseRemove(c, s))
             \/ CloseKill(c) \/ BridgeEnd(c) \/ BridgeClose(c) \/ BridgeKill(c) \/ BridgeRemove(c)
      PROVE  Draws'
  <2>1. UNCHANGED <<rx, screen, subs, ring>>
    BY <1>2 DEF Connect, New, Insert, StartReader, NewAck, Attach, CloseRemove, CloseKill, BridgeEnd,
       BridgeClose, BridgeKill, BridgeRemove
  <2>2. \A s \in Sessions : reader'[s] = "fanout" <=> reader[s] = "fanout"
    BY <1>2 DEF Connect, New, Insert, StartReader, NewAck, Attach, CloseRemove, CloseKill, BridgeEnd,
       BridgeClose, BridgeKill, BridgeRemove, GoReader, TypeOK
  <2>3. \A s \in Sessions : /\ SentUpTo(s)' = SentUpTo(s) /\ ring'[s] \in Nat /\ ring'[s] >= ring[s]
                            /\ reader'[s] = "fanout" => ring'[s] >= 1
    BY <1>1, <2>1, <2>2 DEF SentUpTo
  <2>4. \E to \in {"cmd", "insert", "start", "newack", "subscribe", "ack", "kill", "tell",
                   "leave", "bkill", "btell"} :
          /\ at' = [at EXCEPT ![c] = to]
          /\ to \in Watching <=> at[c] \in Watching
          /\ to = "cmd" => at[c] = "off"
          /\ at[c] # "gone"
    BY <1>2 DEF Connect, New, Insert, StartReader, NewAck, Attach, CloseRemove, CloseKill, BridgeEnd,
       BridgeClose, BridgeKill, BridgeRemove, Go, Watching
  <2>5. of' = of \/ (at[c] = "cmd" /\ \E s : of' = [of EXCEPT ![c] = s])
    BY <1>2 DEF Connect, New, Insert, StartReader, NewAck, Attach, CloseRemove, CloseKill, BridgeEnd,
       BridgeClose, BridgeKill, BridgeRemove, Go
  <2>6. \A e \in Clients : /\ at'[e] \in Watching <=> at[e] \in Watching
                           /\ at'[e] \in {"off", "cmd"} => at[e] \in {"off", "cmd"}
                           /\ at[e] = "gone" => at'[e] = "gone"
    BY <2>4 DEF TypeOK
  <2>7. \A e \in Clients : of'[e] = of[e] \/ at[e] = "cmd"
    BY <2>5 DEF TypeOK
  <2> QED
    BY <2>1, <2>3, <2>6, <2>7, NothingSent
<1>3. ASSUME NEW c \in Clients, NoSession(c) \/ SendFails(c) \/ BridgeError(c) \/ Leave(c)
      PROVE  Draws'
  <2>1. \E from \in HandlerState : End(c, from)
    BY <1>3 DEF NoSession, SendFails, BridgeError, Leave, HandlerState
  <2>2. /\ subs' = subs \/ subs' = [subs EXCEPT ![of[c]] = @ \ {c}]
        /\ UNCHANGED <<ring, reader>>
    BY <1>3 DEF NoSession, SendFails, BridgeError, Leave
  <2> QED
    BY <2>1, <2>2, EndDraws
<1>4. ASSUME NEW s \in Sessions, ReaderFanOut(s) \/ ReaderTell(s)
      PROVE  Draws'
  <2>1. CASE ReaderFanOut(s)
    <3> DEFINE f == [kind |-> "raw", n |-> ring[s]]
    <3>1. f \in Frames /\ f.kind = "raw" /\ f.n = ring[s]
      BY FramesTyped DEF TypeOK
    <3>2. /\ reader[s] = "fanout" /\ reader'[s] = "read" /\ FanOut(s, f)
          /\ \A t \in Sessions : t # s => reader'[t] = reader[t]
          /\ UNCHANGED <<ring, at, of, screen>>
      BY <2>1 DEF ReaderFanOut, GoReader, TypeOK
    <3> HIDE DEF f
    <3> QED
      BY <3>1, <3>2, FanOutDraws
  <2>2. CASE ReaderTell(s)
    <3>1. Exited \in Frames /\ Exited.kind = "exited"
      BY FramesTyped DEF Exited
    <3>2. /\ reader[s] # "fanout" /\ reader'[s] # "fanout" /\ FanOut(s, Exited)
          /\ \A t \in Sessions : t # s => reader'[t] = reader[t]
          /\ UNCHANGED <<ring, at, of, screen>>
      BY <2>2 DEF ReaderTell, GoReader, TypeOK
    <3> QED
      BY <3>1, <3>2, FanOutDraws
  <2> QED
    BY <1>4, <2>1, <2>2
<1>5. ASSUME NEW c \in Clients, CloseTell(c) \/ BridgeTell(c)
      PROVE  Draws'
  <2>1. Exited \in Frames /\ Exited.kind = "exited" /\ of[c] \in Sessions
    BY FramesTyped DEF Exited, TypeOK
  <2>2. FanOut(of[c], Exited) /\ UNCHANGED <<ring, reader, of, screen>>
    BY <1>5 DEF CloseTell, BridgeTell
  <2>3. \A e \in Clients : \/ at'[e] = at[e]
                           \/ at[e] = "tell" /\ at'[e] = "gone"
                           \/ at[e] = "btell" /\ at'[e] = "bremove"
    BY <1>5 DEF CloseTell, BridgeTell, Go, TypeOK
  <2> QED
    BY <2>1, <2>2, <2>3, FanOutDraws
<1>6. ASSUME NEW s \in Sessions, ReaderExtend(s) PROVE Draws'
  <2>1. /\ UNCHANGED <<rx, screen, subs, at, of>>
        /\ reader[s] = "read" /\ reader'[s] = "fanout" /\ ring'[s] = ring[s] + 1
        /\ \A t \in Sessions : t # s => reader'[t] = reader[t] /\ ring'[t] = ring[t]
    BY <1>6 DEF ReaderExtend, GoReader, TypeOK
  <2>2. \A t \in Sessions : /\ SentUpTo(t)' = SentUpTo(t) /\ ring'[t] \in Nat /\ ring'[t] >= ring[t]
                            /\ reader'[t] = "fanout" => ring'[t] >= 1
    BY <1>1, <2>1 DEF SentUpTo
  <2> QED
    BY <2>1, <2>2, NothingSent
<1>7. ASSUME \/ (\E s \in Sessions : ShellExit(s) \/ JobsEnd(s) \/ ReaderEof(s) \/ ReaderSetDead(s))
             \/ CleanerStep \/ UNCHANGED vars
      PROVE  Draws'
  <2>1. UNCHANGED <<rx, screen, subs, at, of, ring>>
    BY <1>7 DEF ShellExit, JobsEnd, ReaderEof, ReaderSetDead, CleanerStep, Wake, Reap, Sweep, vars
  <2>2. \A s \in Sessions : reader'[s] = "fanout" <=> reader[s] = "fanout"
    BY <1>7 DEF ShellExit, JobsEnd, ReaderEof, ReaderSetDead, CleanerStep, Wake, Reap, Sweep, vars,
       GoReader, TypeOK
  <2>3. \A s \in Sessions : /\ SentUpTo(s)' = SentUpTo(s) /\ ring'[s] \in Nat /\ ring'[s] >= ring[s]
                            /\ reader'[s] = "fanout" => ring'[s] >= 1
    BY <1>1, <2>1, <2>2 DEF SentUpTo
  <2> QED
    BY <2>1, <2>3, NothingSent
<1> QED
  BY <1>2, <1>3, <1>4, <1>5, <1>6, <1>7, DeliverDraws, ShownDraws, SubscribeDraws, ShutdownDraws,
     ReturnDraws DEF Next, Command, HandlerStep, ReaderStep

-----------------------------------------------------------------------------
\* The bookkeeping of DaemonState and RootSession holds in every state.
THEOREM SessionsHold == Spec => []IInv
<1>1. IInv /\ [Next]_vars => IInv'
  BY NextTypeOK, NextLinked DEF IInv, Linked
<1> QED
  BY InitIInv, <1>1, PTL DEF Spec

\* A root shell nobody has hung up is in the map or about to be inserted or killed.
THEOREM Reachable == Spec => []RunningIsReachable
<1>1. IInv => RunningIsReachable
  BY DEF IInv
<1> QED
  BY SessionsHold, <1>1, PTL

\* A listed session that runs is read from.
THEOREM Read == Spec => []RunningIsRead
<1>1. IInv => RunningIsRead
  BY DEF IInv
<1> QED
  BY SessionsHold, <1>1, PTL

\* No SIGCHLD is lost between recv and waitpid, however many shells end at once.
THEOREM Noticed == Spec => []ZombieIsNoticed
<1>1. IInv => ZombieIsNoticed
  BY DEF IInv
<1> QED
  BY SessionsHold, <1>1, PTL

\* Of the output, too: who watches is subscribed, and the last chunk of everybody who
\* watches is the last one sent.
THEOREM OutputHolds == Spec => []DInv
<1>1. Init => Draws
  BY InitDraws
<1>2. IInv => TypeOK
  BY DEF IInv
<1>3. DInv <=> IInv /\ Draws
  BY DEF DInv, Draws
<1> QED
  BY <1>1, <1>2, <1>3, NextDraws, SessionsHold, PTL DEF Spec

\* A client draws consecutive chunks, from its replay or later to the frame that ends
\* it, whoever comes, goes, closes or fails (session.rs:117-179, daemon.rs:506-580).
THEOREM InOrder == Spec => []DrawsInOrder
<1>1. DInv => DrawsInOrder
  BY DEF DInv
<1> QED
  BY <1>1, OutputHolds, PTL

===============================================================================

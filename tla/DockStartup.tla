----------------------------- MODULE DockStartup -----------------------------
(***************************************************************************)
(* How easytidy-dock's daemon comes to run in a container and goes away    *)
(* again (crates/dock/src): bootstrap processes, daemon processes, the     *)
(* socket file they find each other by, and the flock on dock.sock.lock    *)
(* that is to admit one daemon at a time.                                  *)
(*                                                                         *)
(* A step is one system call on the socket file or the lock.  The file is  *)
(* the daemon that bound it: connecting succeeds while that daemon         *)
(* listens.  Daemons and bootstraps are processes, each runs once.         *)
(***************************************************************************)
EXTENDS Naturals, FiniteSets

CONSTANTS Daemons,      \* daemon processes over the container's life
          Bootstraps,   \* bootstrap processes over the container's life
          Nobody        \* no daemon

ASSUME NobodyAssumption == Nobody \notin Daemons

VARIABLES
    socket,   \* whose listener the file dock.sock names, or Nobody: no file
    lock,     \* who holds the flock, or Nobody
    daemon,   \* where each daemon process is
    boot      \* where each bootstrap process is

startupVars == <<socket, lock, daemon, boot>>

DaemonState == {"off", "lock", "probe", "unlink", "bind", "listen", "serving", "leave",
                "release", "exited", "killed"}
BootState   == {"off", "look", "probe", "unlink", "spawn", "poll", "ok", "failed"}

StartupTypeOK ==
    /\ socket \in Daemons \cup {Nobody}
    /\ lock \in Daemons \cup {Nobody}
    /\ daemon \in [Daemons -> DaemonState]
    /\ boot \in [Bootstraps -> BootState]

StartupInit ==
    /\ socket = Nobody
    /\ lock = Nobody
    /\ daemon = [d \in Daemons |-> "off"]
    /\ boot = [b \in Bootstraps |-> "off"]

-----------------------------------------------------------------------------
(* The kernel *)

\* connect() on the path: the file is there and its listener still accepts.
Connectable == socket # Nobody /\ daemon[socket] \in {"serving", "leave"}

\* A process that ends lets go of its lock.
Unlocked(d) == IF lock = d THEN Nobody ELSE lock

GoD(d, from, to) == daemon[d] = from /\ daemon' = [daemon EXCEPT ![d] = to]
GoB(b, from, to) == boot[b] = from /\ boot' = [boot EXCEPT ![b] = to]

-----------------------------------------------------------------------------
(* The daemon: run_daemon *)

\* flock(LOCK_EX | LOCK_NB); whoever does not get it exits.
\* Mutant: the result of flock is not looked at.
TakeLock_Ignored(d) ==
    /\ GoD(d, "lock", "probe")
    /\ lock' = IF lock = Nobody THEN d ELSE lock
    /\ UNCHANGED <<socket, boot>>

TakeLock(d) ==
    /\ \/ lock = Nobody /\ GoD(d, "lock", "probe") /\ lock' = d
       \/ lock # Nobody /\ GoD(d, "lock", "exited") /\ UNCHANGED lock
    /\ UNCHANGED <<socket, boot>>

\* Somebody answers on the socket: leave it alone.
DaemonProbe(d) ==
    /\ \/ Connectable /\ GoD(d, "probe", "exited") /\ lock' = Unlocked(d)
       \/ ~Connectable /\ GoD(d, "probe", "unlink") /\ UNCHANGED lock
    /\ UNCHANGED <<socket, boot>>

DaemonUnlink(d) ==
    /\ GoD(d, "unlink", "bind")
    /\ socket' = Nobody
    /\ UNCHANGED <<lock, boot>>

\* bind() makes the file, or finds it there and the daemon exits.
Bind(d) ==
    /\ \/ /\ socket = Nobody
          /\ GoD(d, "bind", "listen")
          /\ socket' = d
          /\ UNCHANGED lock
       \/ /\ socket # Nobody
          /\ GoD(d, "bind", "exited")
          /\ lock' = Unlocked(d)
          /\ UNCHANGED socket
    /\ UNCHANGED boot

\* UnixListener::bind is bind() and then listen().
Listen(d) == GoD(d, "listen", "serving") /\ UNCHANGED <<socket, lock, boot>>

\* A signal, or accept fails: the accept loop ends.
Stop(d) == GoD(d, "serving", "leave") /\ UNCHANGED <<socket, lock, boot>>

\* The file is removed by its path, whoever bound it; then the listener closes.
RemoveSocket(d) ==
    /\ GoD(d, "leave", "release")
    /\ socket' = Nobody
    /\ UNCHANGED <<lock, boot>>

\* run_daemon returns: _daemon_lock is dropped last.
DaemonReturn(d) ==
    /\ GoD(d, "release", "exited")
    /\ lock' = Unlocked(d)
    /\ UNCHANGED <<socket, boot>>

\* The process is killed; the file stays.
Kill(d) ==
    /\ daemon[d] \notin {"off", "exited", "killed"}
    /\ daemon' = [daemon EXCEPT ![d] = "killed"]
    /\ lock' = Unlocked(d)
    /\ UNCHANGED <<socket, boot>>

-----------------------------------------------------------------------------
(* Bootstrap: run_bootstrap *)

Call(b) == GoB(b, "off", "look") /\ UNCHANGED <<socket, lock, daemon>>

\* The fast path is for a file that exists.
Look(b) ==
    /\ \/ socket # Nobody /\ GoB(b, "look", "probe")
       \/ socket = Nobody /\ GoB(b, "look", "spawn")
    /\ UNCHANGED <<socket, lock, daemon>>

BootProbe(b) ==
    /\ \/ Connectable /\ GoB(b, "probe", "ok")
       \/ ~Connectable /\ GoB(b, "probe", "unlink")
    /\ UNCHANGED <<socket, lock, daemon>>

\* The file that refused a moment ago is removed, without the lock.
BootUnlink(b) ==
    /\ GoB(b, "unlink", "spawn")
    /\ socket' = Nobody
    /\ UNCHANGED <<lock, daemon>>

\* setsid <exe> daemon; without setsid the bootstrap fails.
Spawn(b) ==
    \/ /\ GoB(b, "spawn", "poll")
       /\ \E d \in Daemons : GoD(d, "off", "lock")
       /\ UNCHANGED <<socket, lock>>
    \/ /\ GoB(b, "spawn", "failed")
       /\ UNCHANGED <<socket, lock, daemon>>

\* The file exists and answers; or it does not, and the deadline may have passed.
\* Mutant: there is no deadline.
Poll_Forever(b) == Connectable /\ GoB(b, "poll", "ok") /\ UNCHANGED <<socket, lock, daemon>>
Poll(b) ==
    /\ \/ Connectable /\ GoB(b, "poll", "ok")
       \/ ~Connectable /\ GoB(b, "poll", "failed")
    /\ UNCHANGED <<socket, lock, daemon>>

-----------------------------------------------------------------------------
DaemonStep(d) ==
    \/ TakeLock(d) \/ DaemonProbe(d) \/ DaemonUnlink(d) \/ Bind(d) \/ Listen(d)
    \/ RemoveSocket(d) \/ DaemonReturn(d)

BootStep(b) == Look(b) \/ BootProbe(b) \/ BootUnlink(b) \/ Spawn(b) \/ Poll(b)

StartupNext ==
    \/ \E d \in Daemons : DaemonStep(d) \/ Stop(d) \/ Kill(d)
    \/ \E b \in Bootstraps : Call(b) \/ BootStep(b)

StartupSpec == StartupInit /\ [][StartupNext]_startupVars

(* Fairness: a process that can take its next system call takes it.  Nobody  *)
(* is obliged to call bootstrap or to stop a daemon.                         *)
FairStartup ==
    /\ StartupSpec
    /\ \A d \in Daemons : WF_startupVars(DaemonStep(d))
    /\ \A b \in Bootstraps : WF_startupVars(BootStep(b))

-----------------------------------------------------------------------------
(* Safety *)

Running == {d \in Daemons : daemon[d] \notin {"off", "lock", "exited", "killed"}}

\* The flock admits one daemon at a time, and it is the holder.
OneDaemon == Running \subseteq {lock}

\* Between its unlink and its bind nobody can bind the path again: AddrInUse
\* cannot happen (daemon.rs:107), however many bootstraps meddle.
BindFindsNoFile == \A d \in Daemons : daemon[d] = "bind" => socket = Nobody

\* The file never names a daemon that has left in good order: what a daemon
\* finds and removes is a file it bound, or the leftover of a killed one.
SocketNotForgotten ==
    socket # Nobody => daemon[socket] \in {"listen", "serving", "leave", "killed"}

\* What the flock is worth: the file of a daemon that serves is removed by that
\* daemon on its way out or by a bootstrap, never by another daemon.
DaemonsSpareEachOther ==
    [][\A d \in Daemons :
          (socket = d /\ daemon[d] = "serving" /\ socket' # d) =>
              \E b \in Bootstraps : boot[b] = "unlink" /\ boot'[b] # "unlink"]_startupVars

\* A bootstrap that reports success has met a daemon that answers.
OkMeansAnswered ==
    [][\A b \in Bootstraps : boot'[b] = "ok" /\ boot[b] # "ok" =>
          lock # Nobody /\ daemon[lock] \in {"serving", "leave"}]_startupVars

\* The inductive invariant: the flock's holder is the running daemon, and the
\* file belongs to it or to one that was killed.
StartupIInv == StartupTypeOK /\ OneDaemon /\ BindFindsNoFile /\ SocketNotForgotten

-----------------------------------------------------------------------------
(* Liveness *)

\* A bootstrap that was called ends, one way or the other.
BootstrapReturns ==
    \A b \in Bootstraps : boot[b] = "look" ~> boot[b] \in {"ok", "failed"}

-----------------------------------------------------------------------------
(* What a comment says and the code does not do *)

\* daemon.rs:65-70: with the flock no later process unlinks the file a daemon
\* is listening on and leaves it an orphan with a dangling inode.
NoOrphanDaemon == \A d \in Daemons : daemon[d] = "serving" => socket = d

=============================================================================

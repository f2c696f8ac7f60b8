----------------------------- MODULE DockSessions -----------------------------
(***************************************************************************)
(* The root sessions of easytidy-dock's daemon while it runs               *)
(* (crates/dock/src/daemon.rs, session.rs): the session map, one root      *)
(* shell, terminal and reader thread per session, one handler task per     *)
(* client, the SIGCHLD cleanup task and the shutdown.                      *)
(*                                                                         *)
(* A step is what runs between two awaits or under one lock.  rc.list,     *)
(* rc.ping, resizing and input change none of this state.  Output is       *)
(* counted in chunks, a frame says up to which chunk its reader drew.      *)
(***************************************************************************)
EXTENDS Naturals, Sequences, FiniteSets

CONSTANTS Clients,       \* client connections, each with a token of its own
          MaxSessions,   \* bound: sessions the daemon creates
          MaxOut         \* bound: chunks of output per session

ASSUME BoundsAssumption == MaxSessions \in Nat \ {0} /\ MaxOut \in Nat

Sessions == 1..MaxSessions

VARIABLES
    main,      \* run_daemon: accepting, past its clean-up, or returned
    nextId,    \* NEXT_SESSION_ID
    sessions,  \* the keys of DaemonState.sessions
    shell,     \* the root shell of a session; hungup: SIGHUP was sent to its group
    terminal,  \* whether somebody still holds the slave side
    alive,     \* RootSession.alive
    ring,      \* chunks in the replay ring
    subs,      \* the tokens in RootSession.subs
    reader,    \* where the session's reader thread is
    chld,      \* a SIGCHLD the cleanup task has not received
    cleaner,   \* where the cleanup task is
    at, of,    \* where each client's handler is, and the session it has in hand
    rx,        \* frames in the handler's channel
    screen     \* the last frame the client has read; it leaves after "exited"

sessionVars == <<shell, terminal, alive, ring, reader>>
cleanVars   == <<chld, cleaner>>
clientVars  == <<at, of, rx, screen>>
vars == <<main, nextId, sessions, sessionVars, subs, cleanVars, clientVars>>

ShellState   == {"none", "running", "hungup", "zombie", "reaped"}
ReaderState  == {"none", "read", "fanout", "dead", "tell", "done"}
HandlerState == {"off", "cmd", "insert", "start", "newack", "ack", "replay", "subscribe",
                 "bridge", "kill", "tell", "bkill", "btell", "bremove", "leave", "gone"}
Frames == [kind : {"blank", "raw", "replay", "exited"}, n : 0..MaxOut]
Blank  == [kind |-> "blank", n |-> 0]
Exited == [kind |-> "exited", n |-> 0]

TypeOK ==
    /\ main \in {"serving", "leaving", "gone"}
    /\ nextId \in 1..(MaxSessions + 1)
    /\ sessions \subseteq Sessions
    /\ shell \in [Sessions -> ShellState]
    /\ terminal \in [Sessions -> {"open", "closed"}]
    /\ alive \in [Sessions -> BOOLEAN]
    /\ ring \in [Sessions -> 0..MaxOut]
    /\ subs \in [Sessions -> SUBSET Clients]
    /\ reader \in [Sessions -> ReaderState]
    /\ chld \in BOOLEAN
    /\ cleaner \in {"wait", "reap", "sweep"}
    /\ at \in [Clients -> HandlerState]
    /\ of \in [Clients -> Sessions]
    /\ rx \in [Clients -> Seq(Frames)]
    /\ screen \in [Clients -> Frames]

\* What NEXT_SESSION_ID starts with.
FirstId == 1

Init ==
    /\ main = "serving"
    /\ nextId = FirstId
    /\ sessions = {}
    /\ shell = [s \in Sessions |-> "none"]
    /\ terminal = [s \in Sessions |-> "open"]
    /\ alive = [s \in Sessions |-> TRUE]
    /\ ring = [s \in Sessions |-> 0]
    /\ subs = [s \in Sessions |-> {}]
    /\ reader = [s \in Sessions |-> "none"]
    /\ chld = FALSE
    /\ cleaner = "wait"
    /\ at = [c \in Clients |-> "off"]
    /\ of = [c \in Clients |-> 1]
    /\ rx = [c \in Clients |-> <<>>]
    /\ screen = [c \in Clients |-> Blank]

-----------------------------------------------------------------------------
(* RootSession *)

\* The handler moves; the tasks run until run_daemon returns.
Go(c, from, to) == main # "gone" /\ at[c] = from /\ at' = [at EXCEPT ![c] = to]

GoReader(s, from, to) == reader[s] = from /\ reader' = [reader EXCEPT ![s] = to]

\* SIGHUP to the shell's process group; one that is gone does not mind.
HungUp(S) == [s \in Sessions |-> IF s \in S /\ shell[s] = "running" THEN "hungup" ELSE shell[s]]

\* The handler returns and drops the connection and its receiver.
End(c, from) ==
    /\ Go(c, from, "gone")
    /\ rx' = [rx EXCEPT ![c] = <<>>]
    /\ screen' = [screen EXCEPT ![c] = Blank]
    /\ UNCHANGED of

\* The client has no reason to close its end; for one of its own it may at any time.
Stays(c) == screen[c] # Exited

\* A handler that has ended has dropped its receiver.
Receiving(c) == at[c] # "gone"

\* Send to every subscriber and drop the entries whose send failed.
FanOut(s, f) ==
    /\ rx' = [c \in Clients |-> IF c \in subs[s] /\ Receiving(c) THEN Append(rx[c], f) ELSE rx[c]]
    /\ subs' = [subs EXCEPT ![s] = {c \in @ : Receiving(c)}]

-----------------------------------------------------------------------------
(* A client's connection and the first command: handle_client *)

Connect(c) ==
    /\ main = "serving"
    /\ Go(c, "off", "cmd")
    /\ UNCHANGED <<main, nextId, sessions, sessionVars, subs, cleanVars, of, rx, screen>>

\* Nothing, or nothing readable, arrives in time; a command that asks for none
\* of the below is answered; a session is asked for that is not there.
NoSession(c) ==
    /\ End(c, "cmd")
    /\ UNCHANGED <<main, nextId, sessions, sessionVars, subs, cleanVars>>

\* rc.new: spawn_root_shell allocates the id and spawns the shell.
New(c) ==
    /\ Go(c, "cmd", "insert")
    /\ nextId \in Sessions
    /\ of' = [of EXCEPT ![c] = nextId]
    /\ nextId' = nextId + 1
    /\ shell' = [shell EXCEPT ![nextId] = "running"]
    /\ UNCHANGED <<main, sessions, terminal, alive, ring, reader, subs, cleanVars, rx, screen>>

Insert(c) ==
    /\ Go(c, "insert", "start")
    /\ sessions' = sessions \cup {of[c]}
    /\ UNCHANGED <<main, nextId, sessionVars, subs, cleanVars, of, rx, screen>>

\* spawn_blocking of the reader thread.
StartReader(c) ==
    /\ Go(c, "start", "newack")
    /\ GoReader(of[c], "none", "read")
    /\ UNCHANGED <<main, nextId, sessions, shell, terminal, alive, ring, subs, cleanVars,
                   of, rx, screen>>

\* Send the acknowledgement of rc.new, alive: true.
NewAck(c) ==
    /\ Go(c, "newack", "subscribe")
    /\ UNCHANGED <<main, nextId, sessions, sessionVars, subs, cleanVars, of, rx, screen>>

\* rc.attach: find the session.
Attach(c, s) ==
    /\ s \in sessions
    /\ Go(c, "cmd", "ack")
    /\ of' = [of EXCEPT ![c] = s]
    /\ UNCHANGED <<main, nextId, sessions, sessionVars, subs, cleanVars, rx, screen>>

\* Its acknowledgement says whether the session is alive; if not, the client
\* leaves, and the handler goes on.
AttachAck(c) ==
    /\ Go(c, "ack", "replay")
    /\ screen' = [screen EXCEPT ![c] = IF alive[of[c]] THEN @ ELSE Exited]
    /\ UNCHANGED <<main, nextId, sessions, sessionVars, subs, cleanVars, of, rx>>

\* Send the ring in one frame.
Replay(c) ==
    /\ Go(c, "replay", "subscribe")
    /\ screen' = [screen EXCEPT ![c] =
                     IF Stays(c) THEN [kind |-> "replay", n |-> ring[of[c]]] ELSE @]
    /\ UNCHANGED <<main, nextId, sessions, sessionVars, subs, cleanVars, of, rx>>

\* Sending to a client that has left fails, and the handler with it.
SendFails(c) ==
    /\ \E from \in {"newack", "ack", "replay"} : End(c, from)
    /\ UNCHANGED <<main, nextId, sessions, sessionVars, subs, cleanVars>>

\* rc.close of a session nobody need be attached to: out of the map,
CloseRemove(c, s) ==
    /\ s \in sessions
    /\ Go(c, "cmd", "kill")
    /\ of' = [of EXCEPT ![c] = s]
    /\ sessions' = sessions \ {s}
    /\ UNCHANGED <<main, nextId, sessionVars, subs, cleanVars, rx, screen>>

\* kill its process group and mark it dead,
CloseKill(c) ==
    /\ Go(c, "kill", "tell")
    /\ shell' = HungUp({of[c]})
    /\ alive' = [alive EXCEPT ![of[c]] = FALSE]
    /\ UNCHANGED <<main, nextId, sessions, terminal, ring, reader, subs, cleanVars,
                   of, rx, screen>>

\* and tell whoever watches it.
CloseTell(c) ==
    /\ Go(c, "tell", "gone")
    /\ FanOut(of[c], Exited)
    /\ UNCHANGED <<main, nextId, sessions, sessionVars, cleanVars, of, screen>>

-----------------------------------------------------------------------------
(* The bridge between a client and a session: attach_session *)

Subscribe(c) ==
    /\ Go(c, "subscribe", "bridge")
    /\ subs' = [subs EXCEPT ![of[c]] = @ \cup {c}]
    /\ UNCHANGED <<main, nextId, sessions, sessionVars, cleanVars, of, rx, screen>>

\* The next frame goes to the client, if it has not closed.
Deliver(c) ==
    /\ Go(c, "bridge", "bridge")
    /\ Stays(c)
    /\ rx[c] # <<>>
    /\ rx' = [rx EXCEPT ![c] = Tail(@)]
    /\ screen' = [screen EXCEPT ![c] = Head(rx[c])]
    /\ UNCHANGED <<main, nextId, sessions, sessionVars, subs, cleanVars, of>>

\* The connection is closed or broken: leave the loop.
BridgeEnd(c) ==
    /\ Go(c, "bridge", "leave")
    /\ UNCHANGED <<main, nextId, sessions, sessionVars, subs, cleanVars, of, rx, screen>>

\* A frame whose payload does not parse: ? leaves the function, subscription and all.
BridgeError(c) ==
    /\ End(c, "bridge")
    /\ UNCHANGED <<main, nextId, sessions, sessionVars, subs, cleanVars>>

\* rc.close on the bridge.
BridgeClose(c) ==
    /\ Go(c, "bridge", "bkill")
    /\ UNCHANGED <<main, nextId, sessions, sessionVars, subs, cleanVars, of, rx, screen>>

\* Mutant: the session is marked dead and its shell left alone.
BridgeKill_MarksOnly(c) ==
    /\ Go(c, "bkill", "btell")
    /\ alive' = [alive EXCEPT ![of[c]] = FALSE]
    /\ UNCHANGED <<main, nextId, sessions, shell, terminal, ring, reader, subs, cleanVars,
                   of, rx, screen>>
BridgeKill(c) ==
    /\ Go(c, "bkill", "btell")
    /\ shell' = HungUp({of[c]})
    /\ alive' = [alive EXCEPT ![of[c]] = FALSE]
    /\ UNCHANGED <<main, nextId, sessions, terminal, ring, reader, subs, cleanVars,
                   of, rx, screen>>

BridgeTell(c) ==
    /\ Go(c, "btell", "bremove")
    /\ FanOut(of[c], Exited)
    /\ UNCHANGED <<main, nextId, sessions, sessionVars, cleanVars, of, screen>>

BridgeRemove(c) ==
    /\ Go(c, "bremove", "leave")
    /\ sessions' = sessions \ {of[c]}
    /\ UNCHANGED <<main, nextId, sessionVars, subs, cleanVars, of, rx, screen>>

\* Unsubscribe; the receiver goes with the handler.
Leave(c) ==
    /\ End(c, "leave")
    /\ subs' = [subs EXCEPT ![of[c]] = @ \ {c}]
    /\ UNCHANGED <<main, nextId, sessions, sessionVars, cleanVars>>

-----------------------------------------------------------------------------
(* The shell and its reader thread *)

\* The shell exits; jobs it leaves behind may hold its terminal.
ShellExit(s) ==
    /\ shell[s] \in {"running", "hungup"}
    /\ shell' = [shell EXCEPT ![s] = "zombie"]
    /\ \E t \in {"open", "closed"} : terminal' = [terminal EXCEPT ![s] = t]
    /\ chld' = TRUE
    /\ UNCHANGED <<main, nextId, sessions, alive, ring, reader, subs, cleaner, clientVars>>

JobsEnd(s) ==
    /\ shell[s] \in {"zombie", "reaped"}
    /\ terminal[s] = "open"
    /\ terminal' = [terminal EXCEPT ![s] = "closed"]
    /\ UNCHANGED <<main, nextId, sessions, shell, alive, ring, reader, subs, cleanVars, clientVars>>

\* push_output: into the ring, then to the subscribers.
ReaderExtend(s) ==
    /\ GoReader(s, "read", "fanout")
    /\ ring[s] < MaxOut
    /\ ring' = [ring EXCEPT ![s] = @ + 1]
    /\ UNCHANGED <<main, nextId, sessions, shell, terminal, alive, subs, cleanVars, clientVars>>

\* Mutant: when a send has failed the chunk goes out to everybody once more.
ReaderFanOut_Retries(s) ==
    /\ \/ GoReader(s, "fanout", "read")
       \/ (\E c \in subs[s] : ~Receiving(c)) /\ GoReader(s, "fanout", "fanout")
    /\ FanOut(s, [kind |-> "raw", n |-> ring[s]])
    /\ UNCHANGED <<main, nextId, sessions, shell, terminal, alive, ring, cleanVars, at, of, screen>>
ReaderFanOut(s) ==
    /\ GoReader(s, "fanout", "read")
    /\ FanOut(s, [kind |-> "raw", n |-> ring[s]])
    /\ UNCHANGED <<main, nextId, sessions, shell, terminal, alive, ring, cleanVars, at, of, screen>>

\* End of file.
ReaderEof(s) ==
    /\ terminal[s] = "closed"
    /\ GoReader(s, "read", "dead")
    /\ UNCHANGED <<main, nextId, sessions, shell, terminal, alive, ring, subs, cleanVars, clientVars>>

ReaderSetDead(s) ==
    /\ GoReader(s, "dead", "tell")
    /\ alive' = [alive EXCEPT ![s] = FALSE]
    /\ UNCHANGED <<main, nextId, sessions, shell, terminal, ring, subs, cleanVars, clientVars>>

\* broadcast_exited.
\* Mutant: a session that was marked dead before is taken to have been told.
ReaderTell_Silent(s) ==
    /\ GoReader(s, "tell", "done")
    /\ UNCHANGED <<main, nextId, sessions, shell, terminal, alive, ring, subs, cleanVars, clientVars>>
ReaderTell(s) ==
    /\ GoReader(s, "tell", "done")
    /\ FanOut(s, Exited)
    /\ UNCHANGED <<main, nextId, sessions, shell, terminal, alive, ring, cleanVars, at, of, screen>>

-----------------------------------------------------------------------------
(* The cleanup task and the shutdown: run_daemon *)

\* sigchld.recv(): signals that came since count as one.
\* Mutant: the sessions are swept, the children not waited for.
Wake_SweepsOnly ==
    /\ main = "serving" /\ cleaner = "wait" /\ chld
    /\ cleaner' = "sweep"
    /\ chld' = FALSE
    /\ UNCHANGED <<main, nextId, sessions, sessionVars, subs, clientVars>>
Wake ==
    /\ main = "serving" /\ cleaner = "wait" /\ chld
    /\ cleaner' = "reap"
    /\ chld' = FALSE
    /\ UNCHANGED <<main, nextId, sessions, sessionVars, subs, clientVars>>

\* reap_zombie_children: waitpid until there is none.
\* Mutant: a status other than an exit ends the loop at once.
Reap_None ==
    /\ main = "serving" /\ cleaner = "reap"
    /\ cleaner' = "sweep"
    /\ UNCHANGED <<main, nextId, sessions, sessionVars, subs, chld, clientVars>>
Reap ==
    /\ main = "serving" /\ cleaner = "reap"
    /\ cleaner' = "sweep"
    /\ shell' = [s \in Sessions |-> IF shell[s] = "zombie" THEN "reaped" ELSE shell[s]]
    /\ UNCHANGED <<main, nextId, sessions, terminal, alive, ring, reader, subs, chld, clientVars>>

\* reap_dead_sessions.
Sweep ==
    /\ main = "serving" /\ cleaner = "sweep"
    /\ cleaner' = "wait"
    /\ sessions' = {s \in sessions : alive[s]}
    /\ UNCHANGED <<main, nextId, sessionVars, subs, chld, clientVars>>

\* A signal: stop accepting, abort the cleanup task, close every session in the map.
Shutdown ==
    /\ main = "serving"
    /\ main' = "leaving"
    /\ shell' = HungUp(sessions)
    /\ alive' = [s \in Sessions |-> alive[s] /\ s \notin sessions]
    /\ rx' = [c \in Clients |->
                 IF Receiving(c) /\ \E s \in sessions : c \in subs[s] THEN Append(rx[c], Exited)
                                                                   ELSE rx[c]]
    /\ subs' = [s \in Sessions |-> IF s \in sessions THEN {c \in subs[s] : Receiving(c)} ELSE subs[s]]
    /\ UNCHANGED <<nextId, sessions, terminal, ring, reader, cleanVars, at, of, screen>>

\* run_daemon returns: the runtime drops every handler, and with it the terminal
\* of a session no reader thread has.
Return ==
    /\ main = "leaving"
    /\ main' = "gone"
    /\ shell' = HungUp({s \in Sessions : reader[s] = "none"})
    /\ at' = [c \in Clients |-> "gone"]
    /\ rx' = [c \in Clients |-> <<>>]
    /\ screen' = [c \in Clients |-> Blank]
    /\ UNCHANGED <<nextId, sessions, terminal, alive, ring, reader, subs, cleanVars, of>>

-----------------------------------------------------------------------------
HandlerStep(c) ==
    \/ Insert(c) \/ StartReader(c) \/ NewAck(c)
    \/ AttachAck(c) \/ Replay(c) \/ Subscribe(c)
    \/ CloseKill(c) \/ CloseTell(c)
    \/ (~Stays(c) /\ BridgeEnd(c)) \/ BridgeKill(c) \/ BridgeTell(c) \/ BridgeRemove(c) \/ Leave(c)

Command(c) ==
    \/ NoSession(c) \/ New(c)
    \/ \E s \in Sessions : Attach(c, s) \/ CloseRemove(c, s)

ReaderStep(s) == ReaderFanOut(s) \/ ReaderEof(s) \/ ReaderSetDead(s) \/ ReaderTell(s)

CleanerStep == Wake \/ Reap \/ Sweep

Next ==
    \/ \E c \in Clients :
          \/ Connect(c) \/ Command(c) \/ HandlerStep(c)
          \/ Deliver(c) \/ BridgeClose(c) \/ BridgeError(c) \/ BridgeEnd(c) \/ SendFails(c)
    \/ \E s \in Sessions : ShellExit(s) \/ JobsEnd(s) \/ ReaderExtend(s) \/ ReaderStep(s)
    \/ CleanerStep \/ Shutdown \/ Return

Spec == Init /\ [][Next]_vars

(* Fairness: handlers, reader threads and the cleanup task are scheduled, the *)
(* client reads its socket, so the bridge gets to send, and a shell that is   *)
(* hung up exits.  No client is obliged to leave, no shell to end on its own, *)
(* no job to let go of a terminal.                                            *)
FairSpec ==
    /\ Spec
    /\ \A c \in Clients : WF_vars(HandlerStep(c)) /\ WF_vars(Deliver(c))
    /\ \A s \in Sessions : /\ WF_vars(ReaderStep(s))
                           /\ WF_vars(shell[s] = "hungup" /\ ShellExit(s))
    /\ WF_vars(CleanerStep)

-----------------------------------------------------------------------------
(* Safety *)

InHand(s, places) == \E c \in Clients : of[c] = s /\ at[c] \in places

\* A root shell nobody has hung up can still be reached: it is in the map, or a
\* handler is about to insert it or to kill it.
RunningIsReachable ==
    main # "gone" => \A s \in Sessions :
        shell[s] = "running" => s \in sessions \/ InHand(s, {"insert", "kill"})

\* A listed session that runs has a reader thread that reads.
RunningIsRead ==
    main # "gone" => \A s \in sessions :
        shell[s] = "running" => reader[s] \in {"read", "fanout"} \/ InHand(s, {"start"})

\* While the daemon serves, no zombie goes unnoticed: a SIGCHLD is pending or the
\* cleanup task is about to wait for children.
ZombieIsNoticed ==
    main = "serving" =>
        \A s \in Sessions : shell[s] = "zombie" => chld \/ cleaner = "reap"

(* The inductive invariant. *)

\* Only what has been hung up or has exited is marked dead: no sweep drops a
\* session whose shell goes on.
DeadIsOver == \A s \in Sessions : ~alive[s] => shell[s] \in {"hungup", "zombie", "reaped"}

\* The terminal closes after its shell, the reader ends after the terminal.
EndsInOrder == \A s \in Sessions :
    /\ terminal[s] = "closed" => shell[s] \in {"zombie", "reaped"}
    /\ reader[s] \in {"dead", "tell", "done"} => terminal[s] = "closed"

\* Shells exist for the ids given out, and only those are listed or in hand.
Numbered ==
    /\ \A s \in Sessions : s >= nextId => shell[s] = "none" /\ s \notin sessions
    /\ \A s \in sessions : shell[s] # "none"
    /\ \A c \in Clients : at[c] \notin {"off", "cmd", "gone"} => shell[of[c]] # "none"

\* A handler that has hung a session up has hung it up.
KilledIsHungUp ==
    \A c \in Clients : at[c] \in {"btell", "bremove"} => shell[of[c]] # "running"

IInv ==
    /\ TypeOK
    /\ RunningIsReachable
    /\ RunningIsRead
    /\ ZombieIsNoticed
    /\ DeadIsOver
    /\ EndsInOrder
    /\ Numbered
    /\ KilledIsHungUp

(* The output *)

\* A chunk comes right after the chunk before it; the first is at or after the replay.
Follows(f, g) ==
    g.kind = "raw" => /\ f.kind = "raw" => g.n = f.n + 1
                      /\ f.kind = "replay" => g.n >= f.n

\* What a client draws and is about to draw are consecutive chunks, the first at
\* or after its replay, up to the frame that ends it.
DrawsInOrder ==
    \A c \in Clients :
        /\ rx[c] # <<>> => Follows(screen[c], rx[c][1])
        /\ \A i \in 1..(Len(rx[c]) - 1) : Follows(rx[c][i], rx[c][i + 1])

(* The inductive invariant behind it. *)

Watching == {"bridge", "bkill", "btell", "bremove", "leave"}

\* The last frame on its way to the client.
LastFrame(c) == IF rx[c] = <<>> THEN screen[c] ELSE rx[c][Len(rx[c])]

\* The last chunk the subscribers of a session have been sent.
SentUpTo(s) == IF reader[s] = "fanout" THEN ring[s] - 1 ELSE ring[s]

\* A handler is subscribed to the session in its hand while it watches it; one that
\* left without unsubscribing may stay listed.
Subscribed ==
    /\ \A s \in Sessions : \A c \in subs[s] : of[c] = s /\ at[c] \in Watching \cup {"gone"}
    /\ \A c \in Clients : at[c] \in Watching => c \in subs[of[c]]

\* Nothing arrives before the subscription; the last chunk of a client is the last
\* one sent, its replay no further than the ring; a reader with a chunk to send has it.
UpToDate ==
    /\ \A c \in Clients :
        /\ at[c] \notin Watching => rx[c] = <<>> /\ screen[c].kind # "raw"
        /\ at[c] \in {"off", "cmd"} => screen[c].kind = "blank"
        /\ LastFrame(c).kind = "raw" => LastFrame(c).n = SentUpTo(of[c])
        /\ LastFrame(c).kind = "replay" => LastFrame(c).n <= ring[of[c]]
    /\ \A s \in Sessions : reader[s] = "fanout" => ring[s] >= 1

DInv == IInv /\ Subscribed /\ UpToDate /\ DrawsInOrder

-----------------------------------------------------------------------------
(* Liveness, as long as the daemon serves *)

\* A shell that was hung up, by whichever close, does not stay a zombie.
CloseReclaims ==
    \A s \in Sessions : shell[s] \in {"hungup", "zombie"} ~> (shell[s] = "reaped" \/ main # "serving")

\* Whoever is subscribed when the terminal has reached its end is told, and leaves.
ExitIsHeard ==
    \A s \in Sessions : \A c \in Clients :
        (c \in subs[s] /\ terminal[s] = "closed" /\ reader[s] # "done")
            ~> (c \notin subs[s] \/ at[c] = "gone" \/ main # "serving")

-----------------------------------------------------------------------------
(* What comments say and the code does not do *)

\* daemon.rs:574: the client is to get rc.exited when the session is over and to
\* leave by itself.
BridgeEnds ==
    \A c \in Clients :
        (at[c] = "bridge" /\ reader[of[c]] = "done") ~> (at[c] # "bridge" \/ main # "serving")

=============================================================================

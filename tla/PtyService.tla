------------------------------ MODULE PtyService ------------------------------
(***************************************************************************)
(* The terminal service of easytidy-server (crates/server/src): PTY        *)
(* sessions shared by connection tasks and by one reader thread per        *)
(* session.  An action is the work an actor does between two points where  *)
(* another actor may run: an await, a lock release, a thread switch.       *)
(*                                                                         *)
(* Abstracted: bytes become numbered chunks, so the replay ring is the     *)
(* number of chunks read so far; a working directory is a number; window   *)
(* sizes and environments are left out, and with them pty.list, pty.cwd    *)
(* and pty.resize, which change none of this state.  A connection's token  *)
(* is the connection itself: tokens are never reused, nor is a Conns       *)
(* element.                                                                *)
(***************************************************************************)
EXTENDS Naturals, Sequences

CONSTANTS Conns,        \* client connections over the server's life
          NoConn,       \* owner of a stream no connection has spawned yet
          MaxStreams,   \* bound: terminals spawned over the server's life
          MaxTalking,   \* bound: terminals 1..MaxTalking write output,
          MaxOut,       \* and this many chunks each
          MaxCwd,       \* bound: directory changes per terminal
          MaxOpens      \* bound: pty.open requests per connection

ASSUME ConnsAssumption == NoConn \notin Conns
ASSUME BoundsAssumption ==
    /\ MaxStreams \in Nat /\ MaxTalking \in Nat /\ MaxOut \in Nat /\ MaxCwd \in Nat /\ MaxOpens \in Nat

Streams == 1..MaxStreams    \* stream ids, from next_stream_id
None    == 0                \* no stream
FirstStream == 1
StreamOrNone == Streams \cup {None}

VARIABLES
    nextStream,  \* ServerState.next_stream_id
    sessions,    \* key set of ServerState.sessions
    default,     \* ServerState.default_terminal["user"], or None
    pty,         \* the PtySession structs, by stream id
    subs,        \* PtySession.subs: how many entries each connection has
    child,       \* the process on the slave side
    reader,      \* where each reader thread is
    pc,          \* where each connection task is
    call,        \* the locals of the request being handled
    opens,       \* pty.open requests a connection has made (input bound)
    connPtys,    \* conn_ptys of each connection task
    doomed,      \* to_remove of close_conn_ptys
    queue,       \* each connection's event channel, event_tx to event_rx
    screen,      \* what the client has drawn: its last chunk, by stream
    told         \* streams whose pty.exited has reached the client

tables     == <<nextStream, sessions, default>>
connVars   == <<pc, call, opens, connPtys, doomed>>
streamVars == <<pty, subs, child, reader>>
clientVars == <<queue, screen, told>>
vars == <<tables, streamVars, connVars, clientVars>>

-----------------------------------------------------------------------------
(* Types *)

\* What a PtySession keeps that matters here.  owner and home are history:
\* the spawning connection, and whether an attach request made it.
Pty == [owner : Conns \cup {NoConn}, persistent : BOOLEAN, home : BOOLEAN,
        writer : BOOLEAN, ring : 0..MaxOut, cwd : 0..MaxCwd]

\* pty.open's attach, persistent and attach_stream.
Request == [attach : BOOLEAN, persistent : BOOLEAN, target : StreamOrNone]

\* A request with default_sid as it was read first, and the stream it acts on.
Call == [req : Request, dflt : StreamOrNone, sid : StreamOrNone]

Frame == [kind : {"replay", "raw", "cwd", "exited"}, sid : Streams, n : 0..MaxOut]

ChildState  == {"none", "running", "detached", "exited"}
ReaderState == {"none", "read", "broadcast", "reap", "report", "remove",
                "undefault", "done"}
ConnState   == {"off", "idle", "lookup", "subscribe", "spawn", "register",
                "insert", "start", "write", "close", "leave", "reap",
                "closed", "crashed"}

TypeOK ==
    /\ nextStream \in 1..(MaxStreams + 1)
    /\ sessions \in SUBSET Streams
    /\ default \in StreamOrNone
    /\ pty \in [Streams -> Pty]
    /\ subs \in [Streams -> [Conns -> Nat]]
    /\ child \in [Streams -> ChildState]
    /\ reader \in [Streams -> ReaderState]
    /\ pc \in [Conns -> ConnState]
    /\ call \in [Conns -> Call]
    /\ opens \in [Conns -> 0..MaxOpens]
    /\ connPtys \in [Conns -> SUBSET Streams]
    /\ doomed \in [Conns -> SUBSET Streams]
    /\ queue \in [Conns -> Seq(Frame)]
    /\ screen \in [Conns -> [Streams -> 0..MaxOut]]
    /\ told \in [Conns -> SUBSET Streams]

NoCall == [req  |-> [attach |-> FALSE, persistent |-> FALSE, target |-> None],
           dflt |-> None, sid |-> None]

Init ==
    /\ nextStream = FirstStream
    /\ sessions = {}
    /\ default = None
    /\ pty = [s \in Streams |-> [owner |-> NoConn, persistent |-> FALSE, home |-> FALSE,
                                 writer |-> TRUE, ring |-> 0, cwd |-> 0]]
    /\ subs = [s \in Streams |-> [c \in Conns |-> 0]]
    /\ child = [s \in Streams |-> "none"]
    /\ reader = [s \in Streams |-> "none"]
    /\ pc = [c \in Conns |-> "off"]
    /\ call = [c \in Conns |-> NoCall]
    /\ opens = [c \in Conns |-> 0]
    /\ connPtys = [c \in Conns |-> {}]
    /\ doomed = [c \in Conns |-> {}]
    /\ queue = [c \in Conns |-> <<>>]
    /\ screen = [c \in Conns |-> [s \in Streams |-> 0]]
    /\ told = [c \in Conns |-> {}]

-----------------------------------------------------------------------------
(* Helpers *)

Go(c, from, to) == pc[c] = from /\ pc' = [pc EXCEPT ![c] = to]

\* Back in the select! of connection_loop: the handler's locals are gone.
Answer(c, from) == Go(c, from, "idle") /\ call' = [call EXCEPT ![c] = NoCall]

\* The connection task is over: its locals are dropped, its client has left.
Finish(c) ==
    /\ call' = [call EXCEPT ![c] = NoCall]
    /\ connPtys' = [connPtys EXCEPT ![c] = {}]
    /\ doomed' = [doomed EXCEPT ![c] = {}]
    /\ queue' = [queue EXCEPT ![c] = <<>>]
    /\ screen' = [screen EXCEPT ![c] = [s \in Streams |-> 0]]
    /\ told' = [told EXCEPT ![c] = {}]

GoReader(s, from, to) == reader[s] = from /\ reader' = [reader EXCEPT ![s] = to]

\* The receiver of c's event channel lives until handle_connection returns:
\* sends before that succeed even when nobody will drain the channel.
Receiving(c) == pc[c] \notin {"off", "closed", "crashed"}

\* The tokio lock around the sessions map: attach_to_session holds it for
\* reading from its lookup to its last statement, handle_raw_data across the
\* awaited PTY write.  Everything else takes and releases it within one step.
\* Mutant: the guard of the lookup that missed lives on while the open inserts.
WriteLockFree_GuardKept == \A c \in Conns : pc[c] \notin {"subscribe", "write", "insert"}
WriteLockFree == \A c \in Conns : pc[c] \notin {"subscribe", "write"}

\* Stream ids a client can have learnt from a response or from pty.list.
Published == {s \in Streams : /\ s < nextStream
                              /\ \A c \in Conns : ~(/\ pc[c] \in {"register", "insert"}
                                                    /\ call[c].sid = s)}

\* One send per entry in subs.
Send(s, f) ==
    queue' = [c \in Conns |-> IF Receiving(c) THEN queue[c] \o [i \in 1..subs[s][c] |-> f]
                                              ELSE queue[c]]

\* Send, and drop the entries whose send failed.
Broadcast(s, f) ==
    /\ Send(s, f)
    /\ subs' = [subs EXCEPT ![s] = [c \in Conns |-> IF Receiving(c) THEN @[c] ELSE 0]]

\* The connection loop enters the stream of a pty.open answer in conn_ptys.
\* Mutant: it does not.
Own_Not(c, s) == UNCHANGED connPtys
Own(c, s) == connPtys' = [connPtys EXCEPT ![c] = @ \cup {s}]

\* The id after s: what fetch_add leaves in next_stream_id.
\* Mutant: the id is read but not advanced.
NextId_Same(s) == s
NextId(s) == s + 1

\* PtySession::shutdown_writer: the child's input ends.
\* Mutant: the session is dropped without it.
ShutdownWriter_Not(s) == UNCHANGED pty
ShutdownWriter(s) == pty' = [pty EXCEPT ![s].writer = FALSE]

-----------------------------------------------------------------------------
(* A connection's life: handle_connection and the select! of connection_loop *)

Connect(c) ==
    /\ Go(c, "off", "idle")
    /\ UNCHANGED <<tables, streamVars, call, opens, connPtys, doomed, clientVars>>

\* The event_rx branch: a queued frame goes to the client, which draws it.
Deliver(c) ==
    /\ pc[c] = "idle"
    /\ queue[c] # <<>>
    /\ LET f == Head(queue[c]) IN
        /\ queue' = [queue EXCEPT ![c] = Tail(@)]
        /\ IF f.kind = "exited"
           THEN /\ connPtys' = [connPtys EXCEPT ![c] = @ \ {f.sid}]
                /\ told' = [told EXCEPT ![c] = @ \cup {f.sid}]
           ELSE UNCHANGED <<connPtys, told>>
        /\ IF f.kind \in {"replay", "raw"}
           THEN screen' = [screen EXCEPT ![c][f.sid] = f.n]
           ELSE UNCHANGED screen
    /\ UNCHANGED <<tables, streamVars, pc, call, opens, doomed>>

\* The loop ends: end of file, a frame or send error, the idle timeout, or
\* the shutdown flag.
Disconnect(c) ==
    /\ Go(c, "idle", "leave")
    /\ UNCHANGED <<tables, streamVars, call, opens, connPtys, doomed, clientVars>>

\* The sessions of the connection that outlive it.
\* Mutant: the persistent flag is not looked at.
Kept_None(c) == {}
Kept(c) == {s \in connPtys[c] \cap sessions : pty[s].persistent}

\* Mutant: the retain is inverted, everybody else is unsubscribed.
Unsubscribed_Others(s, c) == [d \in Conns |-> IF d = c THEN subs[s][d] ELSE 0]
Unsubscribed(s, c) == [subs[s] EXCEPT ![c] = 0]

\* close_conn_ptys under the read lock: unsubscribe from the persistent
\* sessions, collect the others; nothing to collect ends the task.
LeaveCollect(c) ==
    LET rest == (connPtys[c] \cap sessions) \ Kept(c) IN
    /\ subs' = [s \in Streams |-> IF s \in Kept(c) THEN Unsubscribed(s, c) ELSE subs[s]]
    /\ \/ /\ Go(c, "leave", "closed")
          /\ rest = {}
          /\ Finish(c)
       \/ /\ Go(c, "leave", "reap")
          /\ rest # {}
          /\ doomed' = [doomed EXCEPT ![c] = rest]
          /\ UNCHANGED <<call, connPtys, clientVars>>
    /\ UNCHANGED <<tables, pty, child, reader, opens>>

\* close_conn_ptys under the write lock: the collected sessions leave the
\* map.  Their readers still hold them, so no writer closes here.
LeaveRemove(c) ==
    /\ WriteLockFree
    /\ Go(c, "reap", "closed")
    /\ sessions' = sessions \ doomed[c]
    /\ Finish(c)
    /\ UNCHANGED <<nextStream, default, streamVars, opens>>

-----------------------------------------------------------------------------
(* pty.open: handle_pty_open and attach_to_session *)

\* The default terminal is read before anything else is looked at.
OpenBegin(c, r) ==
    /\ Go(c, "idle", "lookup")
    /\ opens[c] < MaxOpens
    /\ opens' = [opens EXCEPT ![c] = @ + 1]
    /\ call' = [call EXCEPT ![c] = [req |-> r, dflt |-> default, sid |-> None]]
    /\ UNCHANGED <<tables, streamVars, connPtys, doomed, clientVars>>

\* The sessions the request may attach to, in order of preference.  The code
\* looks the two up one after the other; a published stream that is not in the
\* map never comes back to it, so one look at both sees the same.
AttachTarget(c) ==
    IF call[c].req.target \in sessions THEN call[c].req.target
    ELSE IF call[c].req.attach /\ call[c].dflt \in sessions THEN call[c].dflt
    ELSE None

\* attach_to_session, first half: copy the ring into one replay frame.
\* Mutant: the attacher is subscribed here as well.
AttachReplay_Subscribes(c) ==
    LET s == AttachTarget(c) IN
    /\ Go(c, "lookup", "subscribe")
    /\ s # None
    /\ call' = [call EXCEPT ![c] = [NoCall EXCEPT !.sid = s]]
    /\ queue' = [queue EXCEPT ![c] = Append(@, [kind |-> "replay", sid |-> s, n |-> pty[s].ring])]
    /\ subs' = [subs EXCEPT ![s][c] = @ + 1]
    /\ UNCHANGED <<tables, pty, child, reader, opens, connPtys, doomed, screen, told>>

AttachReplay(c) ==
    LET s == AttachTarget(c) IN
    /\ Go(c, "lookup", "subscribe")
    /\ s # None
    /\ call' = [call EXCEPT ![c] = [NoCall EXCEPT !.sid = s]]
    /\ queue' = [queue EXCEPT ![c] = Append(@, [kind |-> "replay", sid |-> s, n |-> pty[s].ring])]
    /\ UNCHANGED <<tables, streamVars, opens, connPtys, doomed, screen, told>>

\* Second half: subscribe and answer.  The ring lock was released in between.
AttachSubscribe(c) ==
    LET s == call[c].sid IN
    /\ Answer(c, "subscribe")
    /\ subs' = [subs EXCEPT ![s][c] = @ + 1]
    /\ Own(c, s)
    /\ UNCHANGED <<tables, pty, child, reader, opens, doomed, clientVars>>

OpenMiss(c) ==
    /\ Go(c, "lookup", "spawn")
    /\ AttachTarget(c) = None
    /\ UNCHANGED <<tables, streamVars, call, opens, connPtys, doomed, clientVars>>

\* openpty, the writer, the reader clone or the spawn fails: an error answer.
SpawnFails(c) ==
    /\ Answer(c, "spawn")
    /\ UNCHANGED <<tables, streamVars, opens, connPtys, doomed, clientVars>>

\* The child runs and the stream id is taken; no map knows of it yet.
Spawn(c) ==
    LET s == nextStream
        r == call[c].req
    IN  /\ Go(c, "spawn", IF r.attach THEN "register" ELSE "insert")
        /\ s \in Streams
        /\ nextStream' = NextId(s)
        /\ call' = [call EXCEPT ![c] = [NoCall EXCEPT !.sid = s]]
        /\ child' = [child EXCEPT ![s] = "running"]
        /\ pty' = [pty EXCEPT ![s].owner = c, ![s].home = r.attach,
                              ![s].persistent = r.attach \/ r.persistent]
        /\ UNCHANGED <<sessions, default, subs, reader, opens, connPtys, doomed, clientVars>>

\* An attach request's new terminal becomes the default one, whatever the
\* default has become since it was read.
RegisterDefault(c) ==
    /\ Go(c, "register", "insert")
    /\ default' = call[c].sid
    /\ UNCHANGED <<nextStream, sessions, streamVars, call, opens, connPtys, doomed, clientVars>>

Insert(c) ==
    LET s == call[c].sid IN
    /\ WriteLockFree
    /\ Go(c, "insert", "start")
    /\ sessions' = sessions \cup {s}
    /\ subs' = [subs EXCEPT ![s][c] = 1]
    /\ UNCHANGED <<nextStream, default, pty, child, reader, call, opens, connPtys, doomed,
                   clientVars>>

\* The session is looked up again for its reader thread, then the answer.
StartReader(c) ==
    LET s == call[c].sid IN
    /\ Answer(c, "start")
    /\ s \in sessions
    /\ GoReader(s, "none", "read")
    /\ Own(c, s)
    /\ UNCHANGED <<tables, pty, subs, child, opens, doomed, clientVars>>

\* Another connection has closed the terminal meanwhile: the unwrap panics and
\* takes the connection task down, its cleanup included.
StartPanics(c) ==
    /\ Go(c, "start", "crashed")
    /\ call[c].sid \notin sessions
    /\ Finish(c)
    /\ UNCHANGED <<tables, streamVars, opens>>

-----------------------------------------------------------------------------
(* pty.close: handle_pty_close *)

CloseBegin(c, s) ==
    /\ Go(c, "idle", "close")
    /\ call' = [call EXCEPT ![c].sid = s]
    /\ default' = IF default = s THEN None ELSE default
    /\ UNCHANGED <<nextStream, sessions, streamVars, opens, connPtys, doomed, clientVars>>

\* Remove the session, if there is one, and close its writer; the connection
\* loop forgets the stream either way.
CloseEnd(c) ==
    LET s == call[c].sid IN
    /\ WriteLockFree
    /\ Answer(c, "close")
    /\ sessions' = sessions \ {s}
    /\ IF s \in sessions THEN ShutdownWriter(s) ELSE UNCHANGED pty
    /\ connPtys' = [connPtys EXCEPT ![c] = @ \ {s}]
    /\ UNCHANGED <<nextStream, default, subs, child, reader, opens, doomed, clientVars>>

-----------------------------------------------------------------------------
(* Raw input: handle_raw_data *)

InputBegin(c, s) ==
    /\ Go(c, "idle", "write")
    /\ s \in sessions
    /\ call' = [call EXCEPT ![c].sid = s]
    /\ UNCHANGED <<tables, streamVars, opens, connPtys, doomed, clientVars>>

\* The PTY has taken the bytes.  An Enter that changed the shell's directory
\* is announced to the subscribers.
InputEnd(c) ==
    LET s == call[c].sid IN
    /\ Answer(c, "write")
    /\ \/ UNCHANGED <<pty, queue, subs>>
       \/ /\ pty[s].cwd < MaxCwd
          /\ pty' = [pty EXCEPT ![s].cwd = @ + 1]
          /\ Broadcast(s, [kind |-> "cwd", sid |-> s, n |-> 0])
    /\ UNCHANGED <<tables, child, reader, opens, connPtys, doomed, screen, told>>

-----------------------------------------------------------------------------
(* The child process and the reader thread: pty_reader_thread *)

\* The process ends, for a reason of its own or because its input did.
ChildExit(s) ==
    /\ child[s] \in {"running", "detached"}
    /\ child' = [child EXCEPT ![s] = "exited"]
    /\ UNCHANGED <<tables, pty, subs, reader, connVars, clientVars>>

\* The slave side closes while the spawned process lives on (su).
ChildDetach(s) ==
    /\ child[s] = "running"
    /\ child' = [child EXCEPT ![s] = "detached"]
    /\ UNCHANGED <<tables, pty, subs, reader, connVars, clientVars>>

ChildSeesEof(s) == ~pty[s].writer /\ ChildExit(s)

\* A chunk goes into the ring; the subscribers get it in a second step, under
\* another lock.  The kernel may still hold output of a process that is gone.
ReaderExtend(s) ==
    /\ GoReader(s, "read", "broadcast")
    /\ s <= MaxTalking /\ pty[s].ring < MaxOut
    /\ pty' = [pty EXCEPT ![s].ring = @ + 1]
    /\ UNCHANGED <<tables, subs, child, connVars, clientVars>>

ReaderBroadcast(s) ==
    /\ GoReader(s, "broadcast", "read")
    /\ Broadcast(s, [kind |-> "raw", sid |-> s, n |-> pty[s].ring])
    /\ UNCHANGED <<tables, pty, child, connVars, screen, told>>

ReaderEof(s) ==
    /\ GoReader(s, "read", "reap")
    /\ child[s] \in {"detached", "exited"}
    /\ UNCHANGED <<tables, pty, subs, child, connVars, clientVars>>

\* Wait out the grace period, then kill what still runs; either way it is reaped.
ReaderReap(s) ==
    /\ GoReader(s, "reap", "report")
    /\ child' = [child EXCEPT ![s] = "exited"]
    /\ UNCHANGED <<tables, pty, subs, connVars, clientVars>>

\* pty.exited to every subscriber, then subs.clear() under the same lock.
\* Mutant: the subscribers are cleared without a word.
ReaderReport_Silent(s) ==
    /\ GoReader(s, "report", "remove")
    /\ subs' = [subs EXCEPT ![s] = [c \in Conns |-> 0]]
    /\ UNCHANGED <<tables, pty, child, connVars, clientVars>>

ReaderReport(s) ==
    /\ GoReader(s, "report", "remove")
    /\ Send(s, [kind |-> "exited", sid |-> s, n |-> 0])
    /\ subs' = [subs EXCEPT ![s] = [c \in Conns |-> 0]]
    /\ UNCHANGED <<tables, pty, child, connVars, screen, told>>

\* Mutant: the dead session stays in the map.
ReaderRemove_Not(s) ==
    /\ GoReader(s, "remove", "undefault")
    /\ UNCHANGED <<tables, pty, subs, child, connVars, clientVars>>

ReaderRemove(s) ==
    /\ WriteLockFree
    /\ GoReader(s, "remove", "undefault")
    /\ sessions' = sessions \ {s}
    /\ UNCHANGED <<nextStream, default, pty, subs, child, connVars, clientVars>>

\* Mutant: the dead default terminal stays registered.
ReaderUndefault_Not(s) ==
    /\ GoReader(s, "undefault", "done")
    /\ UNCHANGED <<tables, pty, subs, child, connVars, clientVars>>

ReaderUndefault(s) ==
    /\ GoReader(s, "undefault", "done")
    /\ default' = IF default = s THEN None ELSE default
    /\ UNCHANGED <<nextStream, sessions, pty, subs, child, connVars, clientVars>>

-----------------------------------------------------------------------------
Requests == [attach : BOOLEAN, persistent : BOOLEAN, target : Published \cup {None}]

\* The steps of a connection task that need nothing from its client, and those
\* of a reader thread that need no more output from its child.
ConnStep(c) ==
    \/ AttachReplay(c) \/ AttachSubscribe(c) \/ OpenMiss(c) \/ SpawnFails(c) \/ Spawn(c)
    \/ RegisterDefault(c) \/ Insert(c) \/ StartReader(c) \/ StartPanics(c)
    \/ CloseEnd(c) \/ LeaveCollect(c) \/ LeaveRemove(c)

ReaderStep(s) ==
    \/ ReaderBroadcast(s) \/ ReaderEof(s) \/ ReaderReap(s)
    \/ ReaderReport(s) \/ ReaderRemove(s) \/ ReaderUndefault(s)

ClientStep(c) ==
    \/ Connect(c) \/ Disconnect(c)
    \/ \E r \in Requests : OpenBegin(c, r)
    \/ \E s \in Published : CloseBegin(c, s) \/ InputBegin(c, s)

Next ==
    \/ \E c \in Conns : ClientStep(c) \/ ConnStep(c) \/ Deliver(c) \/ InputEnd(c)
    \/ \E s \in Streams : ReaderExtend(s) \/ ReaderStep(s) \/ ChildExit(s) \/ ChildDetach(s)

Spec == Init /\ [][Next]_vars

(* Fairness.  A task that can run is polled and a reader thread is scheduled. *)
(* tokio's RwLock is fair: it serves waiters in arrival order, so a writer    *)
(* gets it if the readers keep letting go (SF; each task and each thread is   *)
(* at one step at a time).  select! polls its branches in random order, so    *)
(* frames are delivered however busy the client keeps the connection (SF),    *)
(* if the client reads its socket.  A shell whose input ends exits.  Nothing  *)
(* else a client or a child does is assumed.                                  *)
ServerFairness ==
    /\ \A c \in Conns : SF_vars(ConnStep(c)) /\ SF_vars(Deliver(c))
    /\ \A s \in Streams : SF_vars(ReaderStep(s)) /\ WF_vars(ChildSeesEof(s))

\* Every child keeps reading its terminal, so no PTY write blocks for ever.
ChildrenReadInput == \A c \in Conns : WF_vars(InputEnd(c))

ServerFairSpec == Spec /\ ServerFairness
FairSpec == Spec /\ ServerFairness /\ ChildrenReadInput

-----------------------------------------------------------------------------
(* Safety *)

Opening(c, s) == pc[c] \in {"register", "insert"} /\ call[c].sid = s

\* The default terminal is never a dangling id: it names a persistent session
\* that is in the map, or is about to be put there by the open that registered
\* it, or whose reader is about to withdraw it (handle_pty_open registers
\* before it inserts, the reader removes before it withdraws).
DefaultTerminalIsReal ==
    default # None =>
        /\ pty[default].persistent
        /\ \/ default \in sessions
           \/ \E c \in Conns : Opening(c, default)
           \/ reader[default] = "undefault"

\* Every session in the map has somebody who will take it out when its process
\* ends: its reader thread, or the open that is about to start one.
ListedSessionIsWatched ==
    \A s \in sessions :
        \/ reader[s] \notin {"none", "undefault", "done"}
        \/ \E c \in Conns : pc[c] = "start" /\ call[c].sid = s

\* A temporary session leaves the map with the connection that opened it.
TemporaryGoesWithItsOwner ==
    \A s \in sessions : pc[pty[s].owner] = "closed" =>
        pty[s].persistent \/ reader[s] = "remove"

\* The frames about s in a channel q that its client will draw, by position,
\* and the chunks among them.
Drawn(q, s) == {i \in DOMAIN q : q[i].kind \in {"replay", "raw"} /\ q[i].sid = s}
Raw(q, s)   == {i \in DOMAIN q : q[i].kind = "raw" /\ q[i].sid = s}

\* The last chunk of s the reader has broadcast: the ring is one ahead of it
\* while the reader stands between its two locks.
Sent(s) == pty[s].ring - (IF reader[s] = "broadcast" THEN 1 ELSE 0)

\* Exactly the chunks after lo up to hi wait in q, in order.
Waiting(q, s, lo, hi) ==
    /\ lo <= hi
    /\ {q[i].n : i \in Raw(q, s)} = (lo + 1)..hi
    /\ \A i, j \in Raw(q, s) : i < j => q[i].n < q[j].n

\* Of two neighbours among the drawn frames the later is a chunk: the one after
\* a chunk, or one that is not older than the ring that was replayed.
Seamless(q, s) ==
    \A i, j \in Drawn(q, s) : (i < j /\ \A k \in Drawn(q, s) : k <= i \/ j <= k) =>
        /\ q[j].kind = "raw"
        /\ IF q[i].kind = "raw" THEN q[j].n = q[i].n + 1 ELSE q[j].n >= q[i].n

\* The connection that opened a terminal, and did nothing else with it, gets
\* every chunk the reader has broadcast, once and in order, whoever attaches,
\* inputs or disconnects meanwhile.
OwnerSeesAllOutput ==
    \A s \in Streams : LET c == pty[s].owner IN
        (c \in Conns /\ s \in connPtys[c] /\ opens[c] = 1 /\ pc[c] \in {"idle", "write", "leave"}) =>
            Waiting(queue[c], s, screen[c][s], Sent(s))

\* A connection that attached once draws the ring and then consecutive chunks,
\* none of them older than the ring it drew: output is lost at the seam between
\* the replay and the subscription (a chunk read there reaches it never, although
\* pty.rs:22 and 336 promise all of it), and nowhere else.
AttachedSeesTheRest ==
    \A c \in Conns : \A s \in Streams : opens[c] = 1 => Seamless(queue[c], s)

\* Only pty.close or the end of its process takes a persistent session out of
\* the map; a connection that goes away does not.
PersistentSurvivesDisconnect ==
    [][\A s \in sessions \ sessions' : pty[s].persistent =>
          \/ reader[s] = "remove"
          \/ \E c \in Conns : pc[c] = "close" /\ call[c].sid = s]_vars

-----------------------------------------------------------------------------
(* Why the default terminal is real and every listed session watched: the    *)
(* inductive invariant                                                       *)

\* The stations at which a connection task acts on the stream in call.sid, and
\* those at which it holds a terminal it has spawned and not handed over yet.
Acting  == {"subscribe", "register", "insert", "start", "write", "close"}
Holding == {"register", "insert", "start"}

ActsOnStream == \A c \in Conns : pc[c] \in Acting => call[c].sid \in Streams

\* Nothing refers to an id that has not been issued.
IssuedOnly ==
    /\ default < nextStream
    /\ \A s \in sessions : s < nextStream
    /\ \A s \in Streams : reader[s] # "none" => s < nextStream
    /\ \A c \in Conns : pc[c] \in Acting => call[c].sid < nextStream
    /\ \A c \in Conns : \A s \in doomed[c] : s < nextStream

\* A terminal that is not listed yet is known to its opener alone; until its
\* opener has handed it over it has no reader.
OpenerAlone ==
    \A c \in Conns : pc[c] \in Holding =>
        /\ reader[call[c].sid] = "none"
        /\ \A d \in Conns \ {c} : pc[d] \in Holding => call[d].sid # call[c].sid
        /\ pc[c] # "start" =>
              /\ call[c].sid \notin sessions
              /\ \A d \in Conns \ {c} : pc[d] \in Acting => call[d].sid # call[c].sid

\* Only a persistent terminal is registered or about to be, only a temporary
\* one is collected, and a terminal somebody is closing is not the default.
KindsAgree ==
    /\ \A c \in Conns : pc[c] = "register" => pty[call[c].sid].persistent
    /\ \A c \in Conns : \A s \in doomed[c] : ~pty[s].persistent
    /\ \A c \in Conns : pc[c] = "close" => default # call[c].sid

Bookkeeping ==
    /\ ActsOnStream
    /\ IssuedOnly
    /\ OpenerAlone
    /\ KindsAgree
    /\ DefaultTerminalIsReal
    /\ ListedSessionIsWatched

IInv == TypeOK /\ Bookkeeping

\* The registry of terminals the service implements: a terminal is retired once
\* it has been published and is in the map no more.
Registry == INSTANCE TerminalRegistry WITH
    Ids <- Streams, Nobody <- None, issued <- 1..(nextStream - 1), listed <- sessions,
    retired <- Published \ sessions, home <- default

ImplementsRegistry == Registry!Spec

-----------------------------------------------------------------------------
(* Why a client sees what it should, and why a temporary session goes: the   *)
(* inductive invariant about the channels, which rests on IInv               *)

\* A terminal has no owner before it is spawned, and no output before its reader
\* runs, which broadcasts what it has put in the ring.
RingFills ==
    /\ \A s \in Streams : s >= nextStream => pty[s].owner = NoConn
    /\ \A s \in Streams : /\ reader[s] = "none" => pty[s].ring = 0
                          /\ reader[s] = "broadcast" => pty[s].ring >= 1

\* A temporary session is on the list of the connection that spawned it: the
\* list it has, the one it leaves behind, or the one it has collected.
OwnerAnswers ==
    \A s \in sessions : LET c == pty[s].owner IN
        /\ c \in Conns
        /\ \/ pty[s].persistent
           \/ reader[s] = "remove"
           \/ pc[c] = "start" /\ call[c].sid = s
           \/ pc[c] \notin {"reap", "closed"} /\ s \in connPtys[c]
           \/ pc[c] = "reap" /\ s \in doomed[c]
           \/ pc[c] = "crashed"

\* The stations of a reader thread that has reported its process's exit.
Ended == {"remove", "undefault", "done"}

\* The client has drawn, and will draw, only chunks the reader has put in the
\* ring; an exit in the channel is one its reader has reported.
Bounded(c) ==
    /\ \A s \in Streams : screen[c][s] <= pty[s].ring
    /\ \A i \in DOMAIN queue[c] : LET f == queue[c][i] IN
          /\ f.kind \in {"replay", "raw"} => f.n <= pty[f.sid].ring
          /\ f.kind = "raw" => f.n >= 1
          /\ f.kind = "exited" => reader[f.sid] \in Ended

\* A connection that is opening has begun to; it holds what it has spawned, and is
\* subscribed to it by the time its reader starts; one that is gone has no list.
Holds(c) ==
    /\ pc[c] \in Holding \cup {"lookup", "subscribe", "spawn"} => opens[c] >= 1
    /\ pc[c] \in Holding => pty[call[c].sid].owner = c
    /\ pc[c] = "start" => subs[call[c].sid][c] = 1
    /\ ~Receiving(c) => connPtys[c] = {}

\* c has opened nothing yet: its first open, if there is one, is still looking.
Fresh(c) == opens[c] = 0 \/ (opens[c] = 1 /\ pc[c] \in {"lookup", "spawn"})

\* How far the first open of a connection has come is what it is subscribed to,
\* what it owns and what is in its channel.
FirstOpen(c) ==
    /\ Fresh(c) => queue[c] = <<>> /\ connPtys[c] = {}
    /\ Fresh(c) \/ (opens[c] = 1 /\ pc[c] = "subscribe") =>
          \A s \in Streams : pty[s].owner # c /\ subs[s][c] = 0
    /\ opens[c] = 1 =>
          /\ pc[c] \in Holding => connPtys[c] = {}
          /\ pc[c] \in {"register", "insert"} => queue[c] = <<>> /\ \A s \in Streams : subs[s][c] = 0
          /\ pc[c] = "subscribe" => \A i \in DOMAIN queue[c] : queue[c][i].kind # "raw"
          /\ \A s \in Streams : subs[s][c] <= 1

\* The last frame of s to be drawn, if it is a chunk, is chunk n.
EndsWith(q, s, n) ==
    \A j \in Drawn(q, s) : (q[j].kind = "raw" /\ \A k \in Drawn(q, s) : k <= j) => q[j].n = n

\* Having opened once, c draws without gaps, has been sent the last chunk of what
\* it is subscribed to, and of what it owns replays nothing and misses nothing.
OneOpenView(c) ==
    opens[c] = 1 => \A s \in Streams :
        /\ Seamless(queue[c], s)
        /\ subs[s][c] > 0 => EndsWith(queue[c], s, Sent(s))
        /\ pty[s].owner = c =>
              /\ \A i \in DOMAIN queue[c] : queue[c][i].kind # "replay"
              /\ (s \in connPtys[c] /\ pc[c] # "reap") =>
                    /\ reader[s] \in {"read", "broadcast"} => subs[s][c] = 1
                    /\ Waiting(queue[c], s, screen[c][s], Sent(s))

ConnInv(c) == Bounded(c) /\ Holds(c) /\ FirstOpen(c) /\ OneOpenView(c)

CInv == IInv /\ RingFills /\ OwnerAnswers /\ \A c \in Conns : ConnInv(c)

-----------------------------------------------------------------------------
(* Liveness *)

\* A persistent terminal somebody closes is gone altogether in the end: its
\* process has exited and its reader thread has reaped it and finished.
CloseReclaims ==
    \A s \in Streams :
        (/\ \E c \in Conns : pc[c] = "close" /\ call[c].sid = s
         /\ s \in sessions /\ pty[s].persistent /\ reader[s] # "none")
        ~> (child[s] = "exited" /\ reader[s] = "done")

\* Whoever is subscribed when the process has ended hears of it, or leaves.
ExitIsReported ==
    \A c \in Conns : \A s \in Streams :
        (subs[s][c] > 0 /\ child[s] = "exited" /\ reader[s] \in {"read", "broadcast"})
        ~> (s \in told[c] \/ pc[c] \in {"leave", "reap", "closed", "crashed"})

\* Every request is answered and every departure completed.
TasksReturn ==
    \A c \in Conns : []<>(pc[c] \in {"off", "idle", "closed", "crashed"})

-----------------------------------------------------------------------------
(* What comments and documents say and the code does not do *)

\* connection.rs:168: the process of a temporary session ends when the
\* connection cleans the session up.
DisconnectReclaims ==
    \A c \in Conns : \A s \in Streams :
        (pc[c] = "reap" /\ s \in doomed[c]) ~> child[s] = "exited"

\* pty.rs:650: once its writer is shut down the shell exits, and the reader
\* thread sees the end of file and reaps it.
ShutdownIsReaped ==
    \A s \in Streams : ~pty[s].writer ~> reader[s] = "done"

=============================================================================

----------------------------- MODULE GuiClient -----------------------------
(***************************************************************************)
(* The requests of a GUI window and the connection they share.             *)
(*                                                                         *)
(* Every command of a window that talks to the server of its container     *)
(* goes through one connection.  It is made on demand, under the mutex of  *)
(* GuiSession.socket, which stays locked through connect and handshake; a  *)
(* reader task owns its read side and hands each answer to whoever waits   *)
(* for its id in `pending`; a keep-alive task pings.  A request that       *)
(* cannot be sent, or gets no answer in 30 s, is sent a second time under  *)
(* the same id.                                                            *)
(*                                                                         *)
(* Left out: what a request asks for, the error answers (an answer like    *)
(* any other: not retried), pings and the events the server pushes.        *)
(***************************************************************************)
EXTENDS Naturals, Sequences, FiniteSets

CONSTANTS Ops,       \* requests issued by commands, each once
          NoOp,      \* nobody holds the mutex
          MaxConns   \* connections numbered 1..MaxConns

ASSUME ClientAssumption == MaxConns \in Nat /\ NoOp \notin Ops

VARIABLES
  socket,     \* GuiSession.socket: the current connection, 0 for None
  connState,  \* GuiSession.conn_state
  lock,       \* who keeps the mutex of socket across an await
  conns,      \* connections made so far
  up,         \* the server's side of a connection is open
  reader,     \* the reader task of a connection
  keeper,     \* its keep-alive task
  toServer, toGui,   \* frames in flight
  pc, try, via,      \* a request: where it is, which attempt, on which connection
  pending,    \* GuiSession.pending: requests whose sender is registered
  heard,      \* the oneshot of the request holds an answer
  ran         \* how often the server carried the request out

requestVars == <<pc, try, via, pending, heard, ran>>
wire == <<toServer, toGui>>
taskVars == <<up, reader, keeper>>
clientVars == <<socket, connState, lock, conns, taskVars, wire, requestVars>>

Conn == 1..MaxConns

ClientTypeOK ==
  /\ socket \in 0..MaxConns /\ conns \in 0..MaxConns
  /\ connState \in {"unconnected", "connecting", "connected"}
  /\ lock \in Ops \cup {NoOp}
  /\ up \in [Conn -> BOOLEAN]
  /\ reader \in [Conn -> {"none", "reading", "leaving", "gone"}]
  /\ keeper \in [Conn -> {"none", "pinging", "gone"}]
  /\ toServer \in [Conn -> Seq(Ops)] /\ toGui \in [Conn -> Seq(Ops)]
  /\ pc \in [Ops -> {"new", "connect", "connecting", "register", "send", "wait",
                     "invalidate", "answered", "failed"}]
  /\ try \in [Ops -> 1..2]
  /\ via \in [Ops -> 0..MaxConns]
  /\ pending \subseteq Ops /\ heard \subseteq Ops
  /\ ran \in [Ops -> Nat]

ClientInit ==
  /\ socket = 0 /\ connState = "unconnected" /\ lock = NoOp /\ conns = 0
  /\ up = [k \in Conn |-> FALSE]
  /\ reader = [k \in Conn |-> "none"] /\ keeper = [k \in Conn |-> "none"]
  /\ toServer = [k \in Conn |-> <<>>] /\ toGui = [k \in Conn |-> <<>>]
  /\ pc = [o \in Ops |-> "new"] /\ try = [o \in Ops |-> 1]
  /\ via = [o \in Ops |-> 0]
  /\ pending = {} /\ heard = {} /\ ran = [o \in Ops |-> 0]

Goto(o, where) == pc' = [pc EXCEPT ![o] = where]

GiveUp_Forever(o) == Goto(o, "connect") /\ UNCHANGED try

\* An attempt ended without an answer: the second one or the error.
GiveUp(o) ==
  IF try[o] = 1 THEN /\ try' = [try EXCEPT ![o] = 2] /\ Goto(o, "connect")
                ELSE /\ Goto(o, "failed") /\ UNCHANGED try

(***************************************************************************)
(* ensure_connect                                                          *)
(***************************************************************************)
Issue(o) ==
  /\ pc[o] = "new" /\ Goto(o, "connect")
  /\ UNCHANGED <<socket, connState, lock, conns, taskVars, wire, try, via, pending, heard, ran>>

UseConnection(o) ==
  /\ pc[o] = "connect" /\ lock = NoOp /\ socket # 0
  /\ via' = [via EXCEPT ![o] = socket] /\ Goto(o, "register")
  /\ UNCHANGED <<socket, connState, lock, conns, taskVars, wire, try, pending, heard, ran>>

\* connect_to_container keeps trying for up to ten attempts with the mutex held.
ConnectBegin(o) ==
  /\ pc[o] = "connect" /\ lock = NoOp /\ socket = 0
  /\ lock' = o /\ connState' = "connecting" /\ Goto(o, "connecting")
  /\ UNCHANGED <<socket, conns, taskVars, wire, try, via, pending, heard, ran>>

ConnectOk(o) ==
  /\ pc[o] = "connecting" /\ conns < MaxConns
  /\ LET k == conns + 1 IN
       /\ conns' = k /\ socket' = k /\ via' = [via EXCEPT ![o] = k]
       /\ up' = [up EXCEPT ![k] = TRUE]
       /\ reader' = [reader EXCEPT ![k] = "reading"]
       /\ keeper' = [keeper EXCEPT ![k] = "pinging"]
  /\ connState' = "connected" /\ lock' = NoOp /\ Goto(o, "register")
  /\ UNCHANGED <<wire, try, pending, heard, ran>>

ConnectFails_Locked(o) ==
  /\ pc[o] = "connecting"
  /\ connState' = "unconnected" /\ GiveUp(o)
  /\ UNCHANGED <<lock, socket, conns, taskVars, wire, via, pending, heard, ran>>

ConnectFails(o) ==
  /\ pc[o] = "connecting"
  /\ connState' = "unconnected" /\ lock' = NoOp /\ GiveUp(o)
  /\ UNCHANGED <<socket, conns, taskVars, wire, via, pending, heard, ran>>

(***************************************************************************)
(* try_send_json_request                                                   *)
(***************************************************************************)
Register(o) ==
  /\ pc[o] = "register"
  /\ pending' = pending \cup {o} /\ heard' = heard \ {o} /\ Goto(o, "send")
  /\ UNCHANGED <<socket, connState, lock, conns, taskVars, wire, try, via, ran>>

\* A frame written while the server's side is open may still never be read.
Send(o) ==
  /\ pc[o] = "send" /\ up[via[o]]
  /\ toServer' = [toServer EXCEPT ![via[o]] = Append(@, o)] /\ Goto(o, "wait")
  /\ UNCHANGED <<socket, connState, lock, conns, taskVars, toGui, try, via, pending, heard, ran>>

SendFails(o) ==
  /\ pc[o] = "send" /\ ~up[via[o]]
  /\ pending' = pending \ {o} /\ Goto(o, "invalidate")
  /\ UNCHANGED <<socket, connState, lock, conns, taskVars, wire, try, via, heard, ran>>

Answered(o) ==
  /\ pc[o] = "wait" /\ o \in heard /\ Goto(o, "answered")
  /\ heard' = heard \ {o} /\ via' = [via EXCEPT ![o] = 0]
  /\ UNCHANGED <<socket, connState, lock, conns, taskVars, wire, try, pending, ran>>

\* RESP_TIMEOUT; nothing but the timer ends a wait whose connection is gone,
\* since the end of the reader leaves the senders in `pending`.
Timeout(o) ==
  /\ pc[o] = "wait" /\ o \notin heard
  /\ pending' = pending \ {o} /\ Goto(o, "invalidate")
  /\ UNCHANGED <<socket, connState, lock, conns, taskVars, wire, try, via, heard, ran>>

\* invalidate: the connection only if it is still this one, the state always.
Invalidate(o) ==
  /\ pc[o] = "invalidate" /\ lock = NoOp
  /\ socket' = IF socket = via[o] THEN 0 ELSE socket
  /\ connState' = "unconnected" /\ GiveUp(o) /\ via' = [via EXCEPT ![o] = 0]
  /\ UNCHANGED <<lock, conns, taskVars, wire, pending, heard, ran>>

(***************************************************************************)
(* The reader and keep-alive tasks of a connection                         *)
(***************************************************************************)
\* An answer nobody waits for is dropped.  The id is that of the request, not of
\* the attempt: the answer to a first attempt may reach the second one's waiter.
ReaderTakes(k) ==
  /\ reader[k] = "reading" /\ toGui[k] # <<>>
  /\ LET o == Head(toGui[k]) IN
       /\ heard' = IF o \in pending THEN heard \cup {o} ELSE heard
       /\ pending' = pending \ {o}
  /\ toGui' = [toGui EXCEPT ![k] = Tail(@)]
  /\ UNCHANGED <<socket, connState, lock, conns, taskVars, toServer, pc, try, via, ran>>

ReaderEnds(k) ==
  /\ reader[k] = "reading" /\ toGui[k] = <<>> /\ ~up[k]
  /\ reader' = [reader EXCEPT ![k] = "leaving"]
  /\ UNCHANGED <<socket, connState, lock, conns, up, keeper, wire, requestVars>>

ReaderClears_Not(k) ==
  /\ reader[k] = "leaving" /\ lock = NoOp
  /\ reader' = [reader EXCEPT ![k] = "gone"]
  /\ UNCHANGED <<socket, connState, lock, conns, up, keeper, wire, requestVars>>

ReaderClears(k) ==
  /\ reader[k] = "leaving" /\ lock = NoOp
  /\ reader' = [reader EXCEPT ![k] = "gone"]
  /\ IF socket = k THEN socket' = 0 /\ connState' = "unconnected"
                   ELSE UNCHANGED <<socket, connState>>
  /\ UNCHANGED <<lock, conns, up, keeper, wire, requestVars>>

\* A tick finds the connection replaced or cleared, or its ping cannot be sent.
KeeperStops(k) ==
  /\ keeper[k] = "pinging" /\ lock = NoOp
  /\ socket # k \/ ~up[k]
  /\ keeper' = [keeper EXCEPT ![k] = "gone"]
  /\ UNCHANGED <<socket, connState, lock, conns, up, reader, wire, requestVars>>

(***************************************************************************)
(* The server                                                              *)
(***************************************************************************)
Serve(k) ==
  /\ up[k] /\ toServer[k] # <<>>
  /\ LET o == Head(toServer[k]) IN
       /\ ran' = [ran EXCEPT ![o] = @ + 1]
       /\ toGui' = [toGui EXCEPT ![k] = Append(@, o)]
  /\ toServer' = [toServer EXCEPT ![k] = Tail(@)]
  /\ UNCHANGED <<socket, connState, lock, conns, taskVars, pc, try, via, pending, heard>>

\* The container stops, the server with it: what it has read may have been
\* carried out, the rest is lost; what it wrote can still be read.
ServerDies(k) ==
  /\ up[k] /\ up' = [up EXCEPT ![k] = FALSE]
  /\ toServer' = [toServer EXCEPT ![k] = <<>>]
  /\ \/ UNCHANGED ran
     \/ toServer[k] # <<>> /\ ran' = [ran EXCEPT ![Head(toServer[k])] = @ + 1]
  /\ UNCHANGED <<socket, connState, lock, conns, reader, keeper, toGui,
                 pc, try, via, pending, heard>>

\* 30 s without a frame: not while somebody pings.
ServerIdle(k) ==
  /\ up[k] /\ keeper[k] = "gone" /\ toServer[k] = <<>>
  /\ up' = [up EXCEPT ![k] = FALSE]
  /\ UNCHANGED <<socket, connState, lock, conns, reader, keeper, wire, requestVars>>

(***************************************************************************)
(* The specification                                                       *)
(***************************************************************************)
RequestStep(o) ==
  \/ UseConnection(o) \/ ConnectBegin(o) \/ ConnectOk(o) \/ ConnectFails(o)
  \/ Register(o) \/ Send(o) \/ SendFails(o) \/ Answered(o) \/ Timeout(o) \/ Invalidate(o)

SharedReaderStep(k) == ReaderTakes(k) \/ ReaderEnds(k) \/ ReaderClears(k)

ClientNext ==
  \/ \E o \in Ops : Issue(o) \/ RequestStep(o)
  \/ \E k \in Conn : \/ SharedReaderStep(k) \/ KeeperStops(k)
                     \/ Serve(k) \/ ServerDies(k) \/ ServerIdle(k)

ClientSpec == ClientInit /\ [][ClientNext]_clientVars

\* The runtime runs every ready task and every timer of it fires; the server works
\* through its frames and drops an idle connection.  Nothing makes it answer within
\* 30 s, or stay up.  That a handshake is answered or its connection breaks, and that
\* a send ends, is assumed: neither has a timer (socket.rs:150, 349).  The mutexes of
\* the runtime are handed over in order (SF).
FairSpec ==
  /\ ClientSpec
  /\ \A o \in Ops : SF_clientVars(RequestStep(o))
  /\ \A k \in Conn : /\ WF_clientVars(ReaderTakes(k)) /\ WF_clientVars(ReaderEnds(k))
                     /\ SF_clientVars(ReaderClears(k)) /\ SF_clientVars(KeeperStops(k))
                     /\ WF_clientVars(Serve(k) \/ ServerIdle(k))

(***************************************************************************)
(* Properties                                                              *)
(***************************************************************************)
\* The mutex is held by exactly the request that connects; connections in use exist.
Bookkeeping ==
  /\ \A o \in Ops : pc[o] = "connecting" <=> lock = o
  /\ lock # NoOp => socket = 0 /\ connState = "connecting"
  /\ socket <= conns
  /\ \A o \in Ops :
       /\ pc[o] \in {"register", "send", "wait", "invalidate"} => via[o] \in 1..conns
       /\ pc[o] = "failed" => try[o] = 2
  /\ \A k \in Conn :
       /\ k > conns => reader[k] = "none" /\ keeper[k] = "none" /\ ~up[k]
       /\ k <= conns => reader[k] # "none" /\ keeper[k] # "none"
       /\ up[k] => reader[k] = "reading"

\* The current connection has its reader, and while the server keeps its side open
\* also its keep-alive, so that the window stays reachable for pushed events
\* (socket.rs:280-282); the state shown as connected never outlives the connection.
CurrentIsServed ==
  /\ socket # 0 => /\ reader[socket] \in {"reading", "leaving"}
                   /\ up[socket] => keeper[socket] = "pinging"
  /\ connState = "connected" => socket # 0

\* `pending` holds the senders of the requests that are being sent or waited for
\* and of no other, whatever became of their connection; a waiter whose sender is
\* gone has its answer (socket.rs:341-376).
WaitersAreRegistered ==
  /\ \A o \in pending : pc[o] \in {"send", "wait"} /\ o \notin heard
  /\ \A o \in Ops : pc[o] \in {"send", "wait"} => o \in pending \cup heard

\* A request that has its answer was carried out.
AnsweredHasRun ==
  /\ \A o \in Ops : o \in heard \/ pc[o] = "answered" => ran[o] >= 1
  /\ \A k \in Conn : \A i \in DOMAIN toGui[k] : ran[toGui[k][i]] >= 1

\* Where a request is on its way to the server: the connection, the place in its queue.
InFlight(o) == UNION {{k} \X {i \in DOMAIN toServer[k] : toServer[k][i] = o} : k \in Conn}

\* Copies of a request: in flight to the server, and carried out.
Copies(o) == Cardinality(InFlight(o)) + ran[o]

\* No oftener than it was tried, and less often until the last try is sent.
Counted(o) ==
  /\ Copies(o) <= try[o]
  /\ pc[o] \in {"new", "connect", "connecting", "register", "send"} => Copies(o) < try[o]

\* A request returned as answered was carried out, once if it was sent once; no
\* request is carried out more often than it was sent, whatever the connections do
\* (send_json_request counts on idempotent requests for the second time only).
AnsweredMeansRan == AnsweredHasRun /\ \A o \in Ops : Counted(o)

\* The inductive invariant behind them.
ClientInv ==
  /\ ClientTypeOK /\ Bookkeeping /\ CurrentIsServed /\ WaitersAreRegistered /\ AnsweredHasRun
  /\ \A o \in Ops : IsFiniteSet(InFlight(o)) /\ Counted(o)

\* A late reader or a late request of an old connection never clears the current
\* one: it goes only by its own reader or by a request sent over it (Arc::ptr_eq).
OnlyItsOwnClearsIt ==
  [][socket # 0 /\ socket' # socket =>
       \/ reader[socket] = "leaving"
       \/ \E o \in Ops : pc[o] = "invalidate" /\ via[o] = socket]_clientVars

\* Every command returns, answered or failed, even when the connection it waits on
\* dies unnoticed or another command holds the mutex while it connects.  (Each
\* request is issued once: in the end none is on its way.)
RequestsReturn == <>[](\A o \in Ops : pc[o] \in {"new", "answered", "failed"})
=============================================================================

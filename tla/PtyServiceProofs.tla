--------------------------- MODULE PtyServiceProofs ---------------------------
(***************************************************************************)
(* Proofs about PtyService, for any number of connections and any bounds:  *)
(* type correctness; the invariant that makes the default terminal, the    *)
(* list and the reader threads agree; the registry of terminals the        *)
(* service implements; and, on top of that invariant, the one about the    *)
(* channels, from which what a client gets to see follows.                 *)
(***************************************************************************)
EXTENDS PtyService, TLAPS

-----------------------------------------------------------------------------
(* Lemmas about the helpers *)

LEMMA CopiesType ==
    ASSUME NEW S, NEW f \in S, NEW n \in Nat
    PROVE  [i \in 1..n |-> f] \in Seq(S)
  OBVIOUS

LEMMA ConcatType ==
    ASSUME NEW S, NEW s \in Seq(S), NEW t \in Seq(S)
    PROVE  s \o t \in Seq(S)
  OBVIOUS

\* Sending a frame keeps the channels channels of frames.
LEMMA SendType ==
    ASSUME TypeOK, NEW s \in Streams, NEW f \in Frame, Send(s, f)
    PROVE  queue' \in [Conns -> Seq(Frame)]
<1>1. ASSUME NEW c \in Conns
      PROVE  queue[c] \o [i \in 1..subs[s][c] |-> f] \in Seq(Frame)
  <2>1. queue[c] \in Seq(Frame) /\ subs[s][c] \in Nat
    BY DEF TypeOK
  <2>2. [i \in 1..subs[s][c] |-> f] \in Seq(Frame)
    BY <2>1, CopiesType
  <2>. QED BY <2>1, <2>2, ConcatType
<1>2. \A c \in Conns : (IF Receiving(c) THEN queue[c] \o [i \in 1..subs[s][c] |-> f]
                                        ELSE queue[c]) \in Seq(Frame)
  BY <1>1 DEF TypeOK
<1>. QED BY <1>2 DEF Send

LEMMA BroadcastType ==
    ASSUME TypeOK, NEW s \in Streams, NEW f \in Frame, Broadcast(s, f)
    PROVE  /\ queue' \in [Conns -> Seq(Frame)]
           /\ subs' \in [Streams -> [Conns -> Nat]]
<1>1. queue' \in [Conns -> Seq(Frame)]
  BY SendType DEF Broadcast
<1>2. \A c \in Conns : subs[s][c] \in Nat
  BY DEF TypeOK
<1>3. [c \in Conns |-> IF Receiving(c) THEN subs[s][c] ELSE 0] \in [Conns -> Nat]
  BY <1>2
<1>4. subs' = [subs EXCEPT ![s] = [c \in Conns |-> IF Receiving(c) THEN subs[s][c] ELSE 0]]
  BY DEF Broadcast, TypeOK
<1>. QED BY <1>1, <1>3, <1>4 DEF TypeOK

\* An open attaches to a session that is in the map, or to none.
LEMMA AttachTargetListed ==
    ASSUME TypeOK, NEW c \in Conns
    PROVE  AttachTarget(c) \in sessions \cup {None}
  BY DEF AttachTarget

-----------------------------------------------------------------------------
(* Type correctness *)

LEMMA InitType == Init => TypeOK
  BY BoundsAssumption DEF Init, TypeOK, NoCall, Call, Request, Pty, Streams, StreamOrNone, None,
     FirstStream, ChildState, ReaderState, ConnState

\* What Finish leaves behind.
LEMMA FinishType ==
    ASSUME TypeOK, NEW c \in Conns, Finish(c)
    PROVE  /\ call' \in [Conns -> Call]
           /\ connPtys' \in [Conns -> SUBSET Streams]
           /\ doomed' \in [Conns -> SUBSET Streams]
           /\ queue' \in [Conns -> Seq(Frame)]
           /\ screen' \in [Conns -> [Streams -> 0..MaxOut]]
           /\ told' \in [Conns -> SUBSET Streams]
<1>1. NoCall \in Call
  BY DEF NoCall, Call, Request, StreamOrNone, None
<1>2. [s \in Streams |-> 0] \in [Streams -> 0..MaxOut]
  BY BoundsAssumption
<1>3. <<>> \in Seq(Frame)
  OBVIOUS
<1>. QED BY <1>1, <1>2, <1>3 DEF Finish, TypeOK

LEMMA AnswerType ==
    ASSUME TypeOK, NEW c \in Conns, NEW from, Answer(c, from)
    PROVE  pc' \in [Conns -> ConnState] /\ call' \in [Conns -> Call]
<1>1. NoCall \in Call
  BY DEF NoCall, Call, Request, StreamOrNone, None
<1>. QED BY <1>1 DEF Answer, Go, TypeOK, ConnState

\* Recording the stream a request acts on.
LEMMA SidType ==
    ASSUME TypeOK, NEW c \in Conns, NEW s \in StreamOrNone, call' = [call EXCEPT ![c].sid = s]
    PROVE  call' \in [Conns -> Call]
<1>1. call[c] \in Call
  BY DEF TypeOK
<1>2. [call[c] EXCEPT !.sid = s] \in Call
  BY <1>1 DEF Call
<1>. QED BY <1>2 DEF TypeOK

\* The connection's own steps, the client's, and the reader's, keep the types.
LEMMA ClientStepType ==
    ASSUME TypeOK, NEW c \in Conns, ClientStep(c)
    PROVE  TypeOK'
<1>1. CASE Connect(c)
  BY <1>1 DEF TypeOK, Connect, Go, ConnState, tables, streamVars, clientVars
<1>2. CASE Disconnect(c)
  BY <1>2 DEF TypeOK, Disconnect, Go, ConnState, tables, streamVars, clientVars
<1>3. ASSUME NEW r \in Requests, OpenBegin(c, r) PROVE TypeOK'
  <2>1. r \in Request
    BY <1>3 DEF Requests, Request, Published, StreamOrNone
  <2>2. [req |-> r, dflt |-> default, sid |-> None] \in Call
    BY <2>1 DEF TypeOK, Call, StreamOrNone, None
  <2>3. opens[c] + 1 \in 0..MaxOpens
    BY <1>3, BoundsAssumption DEF TypeOK, OpenBegin
  <2>. QED BY <1>3, <2>2, <2>3 DEF TypeOK, OpenBegin, Go, ConnState, tables, streamVars, clientVars
<1>4. ASSUME NEW s \in Published, CloseBegin(c, s) PROVE TypeOK'
  <2>1. s \in Streams
    BY <1>4 DEF Published
  <2>2. call' \in [Conns -> Call]
    BY <1>4, <2>1, SidType DEF CloseBegin, StreamOrNone
  <2>. QED BY <1>4, <2>1, <2>2 DEF TypeOK, CloseBegin, Go, ConnState, streamVars, clientVars,
              StreamOrNone, None
<1>5. ASSUME NEW s \in Published, InputBegin(c, s) PROVE TypeOK'
  <2>1. call' \in [Conns -> Call]
    BY <1>5, SidType DEF InputBegin, StreamOrNone, Published
  <2>. QED BY <1>5, <2>1 DEF TypeOK, InputBegin, Go, ConnState, tables, streamVars, clientVars
<1>. QED BY <1>1, <1>2, <1>3, <1>4, <1>5 DEF ClientStep

LEMMA ConnStepType ==
    ASSUME TypeOK, ActsOnStream, NEW c \in Conns, ConnStep(c)
    PROVE  TypeOK'
<1>a. call[c] \in Call /\ call[c].sid \in StreamOrNone
  BY DEF TypeOK, Call
<1>b. NoCall \in Call
  BY DEF NoCall, Call, Request, StreamOrNone, None
<1>1. CASE AttachReplay(c)
  <2> DEFINE s == AttachTarget(c)
  <2>1. s \in Streams
    BY <1>1, AttachTargetListed DEF AttachReplay, TypeOK
  <2>2. pty[s].ring \in 0..MaxOut
    BY <2>1 DEF TypeOK, Pty
  <2>3. [kind |-> "replay", sid |-> s, n |-> pty[s].ring] \in Frame
    BY <2>1, <2>2 DEF Frame
  <2>4. queue' \in [Conns -> Seq(Frame)]
    BY <1>1, <2>3 DEF AttachReplay, TypeOK
  <2>5. [NoCall EXCEPT !.sid = s] \in Call
    BY <2>1, <1>b DEF Call, StreamOrNone
  <2>. QED BY <1>1, <2>4, <2>5 DEF AttachReplay, TypeOK, Go, ConnState, tables, streamVars
<1>2. CASE AttachSubscribe(c)
  <2> DEFINE s == call[c].sid
  <2>0. s \in Streams
    BY <1>2 DEF ActsOnStream, Acting, AttachSubscribe, Answer, Go
  <2>1. subs' \in [Streams -> [Conns -> Nat]]
    <3>1. subs[s] \in [Conns -> Nat] /\ subs[s][c] + 1 \in Nat
      BY <2>0 DEF TypeOK
    <3>2. [subs[s] EXCEPT ![c] = subs[s][c] + 1] \in [Conns -> Nat]
      BY <3>1
    <3>. QED BY <1>2, <3>2 DEF AttachSubscribe, TypeOK
  <2>2. connPtys' \in [Conns -> SUBSET Streams]
    BY <1>2, <2>0 DEF AttachSubscribe, TypeOK, Own
  <2>. QED BY <1>2, <2>1, <2>2, AnswerType DEF AttachSubscribe, TypeOK, tables, clientVars
<1>3. CASE OpenMiss(c)
  BY <1>3 DEF OpenMiss, TypeOK, Go, ConnState, tables, streamVars, clientVars
<1>4. CASE SpawnFails(c)
  BY <1>4, AnswerType DEF SpawnFails, TypeOK, tables, streamVars, clientVars
<1>5. CASE Spawn(c)
  <2> DEFINE s == nextStream
             r == call[c].req
  <2>1. s \in Streams /\ r \in Request
    BY <1>5, <1>a DEF Spawn, Call
  <2>2. nextStream' \in 1..(MaxStreams + 1)
    BY <1>5, <2>1, BoundsAssumption DEF Spawn, NextId, Streams
  <2>3. [NoCall EXCEPT !.sid = s] \in Call
    BY <2>1, <1>b DEF Call, StreamOrNone
  <2>4. /\ (r.attach \/ r.persistent) \in BOOLEAN
        /\ r.attach \in BOOLEAN
    BY <2>1 DEF Request
  <2>s. pty[s] \in Pty
    BY <2>1 DEF TypeOK
  <2>5. [pty[s] EXCEPT !.owner = c, !.home = r.attach, !.persistent = r.attach \/ r.persistent] \in Pty
    BY <2>s, <2>4 DEF Pty
  <2>6. pty' \in [Streams -> Pty]
    BY <1>5, <2>1, <2>5 DEF Spawn, TypeOK
  <2>. QED BY <1>5, <2>1, <2>2, <2>3, <2>6 DEF Spawn, TypeOK, Go, ConnState, ChildState, clientVars
<1>6. CASE RegisterDefault(c)
  BY <1>6, <1>a DEF RegisterDefault, TypeOK, Go, ConnState, streamVars, clientVars
<1>7. CASE Insert(c)
  <2> DEFINE s == call[c].sid
  <2>0. s \in Streams
    BY <1>7 DEF ActsOnStream, Acting, Insert, Go
  <2>1. subs[s] \in [Conns -> Nat]
    BY <2>0 DEF TypeOK
  <2>2. [subs[s] EXCEPT ![c] = 1] \in [Conns -> Nat]
    BY <2>1
  <2>3. subs' \in [Streams -> [Conns -> Nat]]
    BY <1>7, <2>2 DEF Insert, TypeOK
  <2>. QED BY <1>7, <2>0, <2>3 DEF Insert, TypeOK, Go, ConnState, clientVars
<1>8. CASE StartReader(c)
  <2>1. connPtys' \in [Conns -> SUBSET Streams]
    BY <1>8 DEF StartReader, TypeOK, Own
  <2>2. reader' \in [Streams -> ReaderState]
    BY <1>8 DEF StartReader, GoReader, TypeOK, ReaderState
  <2>. QED BY <1>8, <2>1, <2>2, AnswerType DEF StartReader, TypeOK, tables, clientVars
<1>9. CASE StartPanics(c)
  BY <1>9, FinishType DEF StartPanics, TypeOK, Go, ConnState, tables, streamVars
<1>10. CASE CloseEnd(c)
  <2>1. pty' \in [Streams -> Pty]
    <3>1. CASE call[c].sid \in sessions
      <4>1. pty[call[c].sid] \in Pty
        BY <3>1 DEF TypeOK
      <4>2. [pty[call[c].sid] EXCEPT !.writer = FALSE] \in Pty
        BY <4>1 DEF Pty
      <4>. QED BY <1>10, <3>1, <4>2 DEF CloseEnd, TypeOK, ShutdownWriter
    <3>2. CASE call[c].sid \notin sessions
      BY <1>10, <3>2 DEF CloseEnd, TypeOK
    <3>. QED BY <3>1, <3>2
  <2>2. connPtys' \in [Conns -> SUBSET Streams]
    BY <1>10 DEF CloseEnd, TypeOK
  <2>. QED BY <1>10, <2>1, <2>2, AnswerType DEF CloseEnd, TypeOK, clientVars
<1>11. CASE LeaveCollect(c)
  <2>1. \A s \in Streams : Unsubscribed(s, c) \in [Conns -> Nat]
    BY DEF Unsubscribed, TypeOK
  <2>2. subs' \in [Streams -> [Conns -> Nat]]
    BY <1>11, <2>1 DEF LeaveCollect, TypeOK
  <2>3. CASE Go(c, "leave", "closed") /\ Finish(c)
    BY <1>11, <2>2, <2>3, FinishType DEF LeaveCollect, TypeOK, Go, ConnState, tables
  <2>4. CASE /\ Go(c, "leave", "reap")
             /\ doomed' = [doomed EXCEPT ![c] = (connPtys[c] \cap sessions) \ Kept(c)]
             /\ UNCHANGED <<call, connPtys, clientVars>>
    BY <1>11, <2>2, <2>4 DEF LeaveCollect, TypeOK, Go, ConnState, tables, clientVars
  <2>. QED BY <1>11, <2>3, <2>4 DEF LeaveCollect
<1>12. CASE LeaveRemove(c)
  BY <1>12, FinishType DEF LeaveRemove, TypeOK, Go, ConnState, streamVars
<1>. QED BY <1>1, <1>2, <1>3, <1>4, <1>5, <1>6, <1>7, <1>8, <1>9, <1>10, <1>11, <1>12 DEF ConnStep

LEMMA ReaderStepType ==
    ASSUME TypeOK, NEW s \in Streams, ReaderExtend(s) \/ ReaderStep(s)
    PROVE  TypeOK'
<1>1. CASE ReaderExtend(s)
  <2>0. pty[s] \in Pty
    BY DEF TypeOK
  <2>1. pty[s].ring + 1 \in 0..MaxOut
    BY <1>1, <2>0, BoundsAssumption DEF ReaderExtend, Pty
  <2>2. [pty[s] EXCEPT !.ring = pty[s].ring + 1] \in Pty
    BY <2>0, <2>1 DEF Pty
  <2>. QED BY <1>1, <2>2 DEF ReaderExtend, GoReader, TypeOK, ReaderState, tables, connVars, clientVars
<1>2. CASE ReaderBroadcast(s)
  <2>1. [kind |-> "raw", sid |-> s, n |-> pty[s].ring] \in Frame
    BY DEF TypeOK, Pty, Frame
  <2>. QED BY <1>2, <2>1, BroadcastType
           DEF ReaderBroadcast, GoReader, TypeOK, ReaderState, tables, connVars
<1>3. CASE ReaderEof(s)
  BY <1>3 DEF ReaderEof, GoReader, TypeOK, ReaderState, tables, connVars, clientVars
<1>4. CASE ReaderReap(s)
  BY <1>4 DEF ReaderReap, GoReader, TypeOK, ReaderState, ChildState, tables, connVars, clientVars
<1>5. CASE ReaderReport(s)
  <2>1. [kind |-> "exited", sid |-> s, n |-> 0] \in Frame
    BY BoundsAssumption DEF Frame
  <2>2. [c \in Conns |-> 0] \in [Conns -> Nat]
    OBVIOUS
  <2>. QED BY <1>5, <2>1, <2>2, SendType
           DEF ReaderReport, GoReader, TypeOK, ReaderState, tables, connVars
<1>6. CASE ReaderRemove(s)
  BY <1>6 DEF ReaderRemove, GoReader, TypeOK, ReaderState, connVars, clientVars
<1>7. CASE ReaderUndefault(s)
  BY <1>7 DEF ReaderUndefault, GoReader, TypeOK, ReaderState, StreamOrNone, connVars, clientVars
<1>. QED BY <1>1, <1>2, <1>3, <1>4, <1>5, <1>6, <1>7 DEF ReaderStep

LEMMA DeliverType ==
    ASSUME TypeOK, NEW c \in Conns, Deliver(c)
    PROVE  TypeOK'
<1> DEFINE f == Head(queue[c])
<1>1. queue[c] \in Seq(Frame) /\ queue[c] # <<>>
  BY DEF Deliver, TypeOK
<1>2. f \in Frame /\ Tail(queue[c]) \in Seq(Frame)
  BY <1>1
<1>3. f.sid \in Streams /\ f.n \in 0..MaxOut
  BY <1>2 DEF Frame
<1>4. queue' \in [Conns -> Seq(Frame)]
  BY <1>2 DEF Deliver, TypeOK
<1>5. connPtys' \in [Conns -> SUBSET Streams] /\ told' \in [Conns -> SUBSET Streams]
  <2>1. CASE f.kind = "exited"
    <3>1. connPtys' = [connPtys EXCEPT ![c] = @ \ {f.sid}] /\ told' = [told EXCEPT ![c] = @ \cup {f.sid}]
      BY <2>1 DEF Deliver
    <3>2. connPtys[c] \ {f.sid} \in SUBSET Streams /\ told[c] \cup {f.sid} \in SUBSET Streams
      BY <1>3 DEF TypeOK
    <3>. QED BY <3>1, <3>2 DEF TypeOK
  <2>2. CASE f.kind # "exited"
    BY <2>2 DEF Deliver, TypeOK
  <2>. QED BY <2>1, <2>2
<1>6. screen' \in [Conns -> [Streams -> 0..MaxOut]]
  <2>1. CASE f.kind \in {"replay", "raw"}
    <3>1. [screen[c] EXCEPT ![f.sid] = f.n] \in [Streams -> 0..MaxOut]
      BY <1>3 DEF TypeOK
    <3>. QED BY <2>1, <3>1 DEF Deliver, TypeOK
  <2>2. CASE f.kind \notin {"replay", "raw"}
    BY <2>2 DEF Deliver, TypeOK
  <2>. QED BY <2>1, <2>2
<1>. QED BY <1>4, <1>5, <1>6 DEF Deliver, TypeOK, tables, streamVars

LEMMA InputEndType ==
    ASSUME TypeOK, NEW c \in Conns, call[c].sid \in Streams, InputEnd(c)
    PROVE  TypeOK'
<1> DEFINE s == call[c].sid
<1>1. CASE UNCHANGED <<pty, queue, subs>>
  BY <1>1, AnswerType DEF InputEnd, TypeOK, tables
<1>2. CASE /\ pty[s].cwd < MaxCwd
           /\ pty' = [pty EXCEPT ![s].cwd = @ + 1]
           /\ Broadcast(s, [kind |-> "cwd", sid |-> s, n |-> 0])
  <2>1. [kind |-> "cwd", sid |-> s, n |-> 0] \in Frame
    BY BoundsAssumption DEF Frame
  <2>0. pty[s] \in Pty
    BY DEF TypeOK
  <2>2. pty[s].cwd + 1 \in 0..MaxCwd
    BY <1>2, <2>0, BoundsAssumption DEF Pty
  <2>3. [pty[s] EXCEPT !.cwd = pty[s].cwd + 1] \in Pty
    BY <2>0, <2>2 DEF Pty
  <2>4. queue' \in [Conns -> Seq(Frame)] /\ subs' \in [Streams -> [Conns -> Nat]]
    BY <1>2, <2>1, BroadcastType
  <2>5. pty' \in [Streams -> Pty]
    BY <1>2, <2>3 DEF TypeOK
  <2>. QED BY <2>4, <2>5, AnswerType DEF InputEnd, TypeOK, tables
<1>. QED BY <1>1, <1>2 DEF InputEnd

-----------------------------------------------------------------------------
(* The bookkeeping: what a step of each kind leaves of it *)

\* What IInv says, part by part.
LEMMA Parts ==
    IInv => /\ TypeOK /\ ActsOnStream /\ IssuedOnly /\ OpenerAlone /\ KindsAgree
            /\ DefaultTerminalIsReal /\ ListedSessionIsWatched
  BY DEF IInv, Bookkeeping

\* The part of the types the bookkeeping rests on.
LEMMA Shape ==
    ASSUME TypeOK
    PROVE  /\ pc \in [Conns -> ConnState] /\ call \in [Conns -> Call]
           /\ sessions \subseteq Streams /\ default \in StreamOrNone /\ nextStream \in Nat \ {0}
           /\ doomed \in [Conns -> SUBSET Streams] /\ reader \in [Streams -> ReaderState]
           /\ \A c \in Conns : call[c].sid \in StreamOrNone
           /\ None \notin Streams /\ Streams \subseteq Nat
  BY DEF TypeOK, Call, Streams, None, BoundsAssumption

\* A connection task that holds no terminal moves to a station where it acts on
\* none, and leaves the tables and the readers alone.
LEMMA Retreat ==
    ASSUME IInv, NEW c \in Conns, NEW to \in ConnState \ Acting,
           pc[c] \notin Holding,
           pc' = [pc EXCEPT ![c] = to],
           \A d \in Conns \ {c} : call'[d] = call[d],
           UNCHANGED <<nextStream, sessions, default, reader>>,
           \A s \in Streams : pty'[s].persistent = pty[s].persistent,
           \A d \in Conns : \A s \in doomed'[d] : s \in Streams /\ s < nextStream /\ ~pty[s].persistent
    PROVE  Bookkeeping'
<1>1. \A d \in Conns : pc'[d] \in Acting => d # c /\ pc'[d] = pc[d] /\ call'[d] = call[d]
  BY Parts, Shape
<1>2. \A d \in Conns : pc[d] \in Holding => d # c /\ pc'[d] = pc[d] /\ call'[d] = call[d]
  BY Parts, Shape
<1>3. Holding \subseteq Acting
  BY DEF Holding, Acting
<1>4. ActsOnStream' /\ IssuedOnly'
  BY Parts, <1>1 DEF ActsOnStream, IssuedOnly
<1>5. OpenerAlone'
  BY Parts, <1>1, <1>3 DEF OpenerAlone
<1>6. KindsAgree'
  <2>1. \A d \in Conns : pc'[d] \in {"register", "close"} =>
            pc'[d] = pc[d] /\ call'[d] = call[d] /\ call[d].sid \in Streams
    BY Parts, <1>1 DEF ActsOnStream, Acting
  <2>. QED BY Parts, <2>1 DEF KindsAgree
<1>7. DefaultTerminalIsReal'
  <2>1. default # None => default \in Streams
    BY Parts, Shape DEF StreamOrNone
  <2>2. \A d \in Conns : Opening(d, default) => Opening(d, default)'
    BY <1>2 DEF Opening, Holding
  <2>. QED BY Parts, <2>1, <2>2 DEF DefaultTerminalIsReal
<1>8. ListedSessionIsWatched'
  BY Parts, <1>2 DEF ListedSessionIsWatched, Holding
<1>. QED BY <1>4, <1>5, <1>6, <1>7, <1>8 DEF Bookkeeping

\* A connection task takes up a request about a stream no opener holds back.
LEMMA TakeUp ==
    ASSUME IInv, NEW c \in Conns, NEW to \in {"subscribe", "write", "close"}, NEW s \in Published,
           pc[c] \notin Acting,
           pc' = [pc EXCEPT ![c] = to],
           call'[c].sid = s,
           \A d \in Conns \ {c} : call'[d] = call[d],
           UNCHANGED <<nextStream, sessions, pty, reader, doomed>>,
           default' = (IF to = "close" /\ default = s THEN None ELSE default)
    PROVE  Bookkeeping'
<1>1. /\ \A d \in Conns \ {c} : pc'[d] = pc[d] /\ call'[d] = call[d]
      /\ pc'[c] = to /\ to \notin Holding /\ to # "register"
  BY Parts, Shape DEF Holding
<1>2. /\ s \in Streams /\ s < nextStream
      /\ \A d \in Conns : pc[d] \in {"register", "insert"} => call[d].sid # s
  BY DEF Published
<1>3. \A d \in Conns : pc[d] \in Holding => d # c
  BY DEF Holding, Acting
<1>4. ActsOnStream' /\ IssuedOnly'
  BY Parts, <1>1, <1>2, Shape DEF ActsOnStream, IssuedOnly, None
<1>5. OpenerAlone'
  <2> SUFFICES ASSUME NEW d \in Conns, pc'[d] \in Holding
               PROVE  /\ reader[call'[d].sid] = "none"
                      /\ \A e \in Conns \ {d} : pc'[e] \in Holding => call'[e].sid # call'[d].sid
                      /\ pc'[d] # "start" =>
                            /\ call'[d].sid \notin sessions
                            /\ \A e \in Conns \ {d} : pc'[e] \in Acting => call'[e].sid # call'[d].sid
    BY DEF OpenerAlone
  <2>1. d # c /\ pc'[d] = pc[d] /\ call'[d] = call[d] /\ pc[d] \in Holding
    BY <1>1
  <2>2. pc[d] # "start" => call[d].sid # s
    BY <2>1, <1>2 DEF Holding
  <2>. QED BY Parts, <1>1, <2>1, <2>2 DEF OpenerAlone
<1>6. KindsAgree'
  <2>1. \A d \in Conns \ {c} : pc'[d] = "close" => call'[d] = call[d] /\ call[d].sid \in Streams
    BY Parts, <1>1 DEF ActsOnStream, Acting
  <2>2. s # None
    BY <1>2, Parts, Shape
  <2>. QED BY Parts, <1>1, <1>2, <2>1, <2>2, Shape DEF KindsAgree
<1>7. DefaultTerminalIsReal'
  <2>1. \A d \in Conns : Opening(d, default) => pc'[d] = pc[d] /\ call'[d] = call[d]
    BY <1>1, <1>3 DEF Opening, Holding
  <2>. QED BY Parts, <2>1 DEF DefaultTerminalIsReal, Opening
<1>8. ListedSessionIsWatched'
  BY Parts, <1>1, <1>3 DEF ListedSessionIsWatched, Holding
<1>. QED BY <1>4, <1>5, <1>6, <1>7, <1>8 DEF Bookkeeping

LEMMA SpawnInv ==
    ASSUME IInv, NEW c \in Conns, Spawn(c)
    PROVE  Bookkeeping'
<1> DEFINE s == nextStream
           to == IF call[c].req.attach THEN "register" ELSE "insert"
<1>1. /\ pc[c] = "spawn" /\ to \in {"register", "insert"}
      /\ pc'[c] = to /\ call'[c].sid = s
      /\ \A d \in Conns \ {c} : pc'[d] = pc[d] /\ call'[d] = call[d]
      /\ s \in Streams /\ nextStream' = s + 1
      /\ UNCHANGED <<sessions, default, reader, doomed>>
  BY Parts, Shape DEF Spawn, Go, NextId, NoCall
<1>2. /\ \A t \in Streams \ {s} : pty'[t] = pty[t]
      /\ to = "register" => pty'[s].persistent
  <2>1. pty[s] \in Pty /\ pty \in [Streams -> Pty]
    BY Parts, <1>1 DEF TypeOK
  <2>2. /\ \A u \in Streams \ {s} : pty'[u] = pty[u]
        /\ pty'[s] = [pty[s] EXCEPT !.owner = c, !.home = call[c].req.attach,
                                    !.persistent = call[c].req.attach \/ call[c].req.persistent]
    BY <2>1, <1>1 DEF Spawn
  <2>3. pty'[s].persistent = (call[c].req.attach \/ call[c].req.persistent)
    BY <2>1, <2>2 DEF Pty
  <2>. QED BY <2>2, <2>3
<1>3. /\ s \notin sessions /\ s # default /\ reader[s] = "none"
      /\ \A d \in Conns : pc[d] \in Acting => call[d].sid # s
      /\ \A d \in Conns : s \notin doomed[d]
  BY Parts, Shape, <1>1 DEF IssuedOnly, StreamOrNone, None, Streams
<1>4. \A d \in Conns : pc[d] \in Holding => d # c
  BY <1>1 DEF Holding
<1>5. ActsOnStream' /\ IssuedOnly'
  <2>1. ActsOnStream'
    BY Parts, <1>1 DEF ActsOnStream
  <2>2. \A n \in Nat : n < s => n < nextStream'
    BY Shape, Parts, <1>1
  <2>3. s < nextStream'
    BY Shape, Parts, <1>1
  <2>4. default \in Nat /\ \A d \in Conns : pc[d] \in Acting => call[d].sid \in Nat
    BY Parts, Shape DEF ActsOnStream, StreamOrNone, None
  <2>5. \A d \in Conns : doomed[d] \subseteq Streams
    BY Parts, Shape
  <2>6. \A d \in Conns : pc'[d] \in Acting => call'[d].sid < nextStream'
    BY Parts, <1>1, <2>2, <2>3, <2>4 DEF IssuedOnly
  <2>7. \A u \in Nat : u < nextStream => u < nextStream'
    BY <2>2
  <2>. QED BY Parts, Shape, <1>1, <2>1, <2>7, <2>4, <2>5, <2>6 DEF IssuedOnly
<1>6. OpenerAlone'
  <2> SUFFICES ASSUME NEW d \in Conns, pc'[d] \in Holding
               PROVE  /\ reader[call'[d].sid] = "none"
                      /\ \A e \in Conns \ {d} : pc'[e] \in Holding => call'[e].sid # call'[d].sid
                      /\ pc'[d] # "start" =>
                            /\ call'[d].sid \notin sessions
                            /\ \A e \in Conns \ {d} : pc'[e] \in Acting => call'[e].sid # call'[d].sid
    BY <1>1 DEF OpenerAlone
  <2>1. Holding \subseteq Acting
    BY DEF Holding, Acting
  <2>2. CASE d = c
    BY <1>1, <1>3, <2>1, <2>2
  <2>3. CASE d # c
    BY Parts, <1>1, <1>3, <2>1, <2>3 DEF OpenerAlone
  <2>. QED BY <2>2, <2>3
<1>7. KindsAgree'
  <2>1. \A d \in Conns : \A t \in doomed[d] : t \in Streams
    BY Parts, Shape
  <2>2. \A d \in Conns \ {c} : pc[d] = "register" => call[d].sid \in Streams \ {s}
    BY Parts, <1>3 DEF ActsOnStream, Acting
  <2>3. \A d \in Conns : \A t \in doomed[d] : t \in Streams \ {s}
    BY <2>1, <1>3
  <2>. QED BY Parts, <1>1, <1>2, <2>2, <2>3 DEF KindsAgree
<1>8. DefaultTerminalIsReal'
  <2>1. default # None => default \in Streams \ {s}
    BY Parts, Shape, <1>3 DEF StreamOrNone
  <2>2. \A d \in Conns : Opening(d, default) => Opening(d, default)'
    BY <1>1, <1>4 DEF Opening, Holding
  <2>. QED BY Parts, <1>1, <1>2, <2>1, <2>2 DEF DefaultTerminalIsReal
<1>9. ListedSessionIsWatched'
  BY Parts, <1>1, <1>4 DEF ListedSessionIsWatched, Holding
<1>. QED BY <1>5, <1>6, <1>7, <1>8, <1>9 DEF Bookkeeping

LEMMA RegisterDefaultInv ==
    ASSUME IInv, NEW c \in Conns, RegisterDefault(c)
    PROVE  Bookkeeping'
<1> DEFINE s == call[c].sid
<1>1. /\ pc[c] = "register" /\ pc'[c] = "insert" /\ default' = s
      /\ \A d \in Conns \ {c} : pc'[d] = pc[d]
      /\ UNCHANGED <<nextStream, sessions, pty, reader, call, doomed>>
  BY Parts, Shape DEF RegisterDefault, Go, streamVars
<1>2. /\ s \in Streams /\ s < nextStream /\ pty[s].persistent
      /\ \A d \in Conns \ {c} : pc[d] \in Acting => call[d].sid # s
  BY Parts, <1>1 DEF ActsOnStream, IssuedOnly, KindsAgree, OpenerAlone, Acting, Holding
<1>3. \A d \in Conns : (pc'[d] \in Acting <=> pc[d] \in Acting) /\ (pc'[d] \in Holding <=> pc[d] \in Holding)
  BY <1>1 DEF Acting, Holding
<1>4. \A d \in Conns : pc'[d] = "start" <=> pc[d] = "start"
  BY <1>1
<1>5. ActsOnStream' /\ IssuedOnly'
  BY Parts, <1>1, <1>2, <1>3 DEF ActsOnStream, IssuedOnly
<1>6. OpenerAlone'
  BY Parts, <1>1, <1>3, <1>4 DEF OpenerAlone
<1>7. KindsAgree'
  BY Parts, <1>1, <1>2 DEF KindsAgree, Acting
<1>8. DefaultTerminalIsReal'
  BY <1>1, <1>2 DEF DefaultTerminalIsReal, Opening
<1>9. ListedSessionIsWatched'
  BY Parts, <1>1, <1>4 DEF ListedSessionIsWatched
<1>. QED BY <1>5, <1>6, <1>7, <1>8, <1>9 DEF Bookkeeping

LEMMA InsertInv ==
    ASSUME IInv, NEW c \in Conns, Insert(c)
    PROVE  Bookkeeping'
<1> DEFINE s == call[c].sid
<1>1. /\ pc[c] = "insert" /\ pc'[c] = "start" /\ sessions' = sessions \cup {s}
      /\ \A d \in Conns \ {c} : pc'[d] = pc[d]
      /\ UNCHANGED <<nextStream, default, pty, reader, call, doomed>>
  BY Parts, Shape DEF Insert, Go
<1>2. /\ s \in Streams /\ s < nextStream
      /\ \A d \in Conns \ {c} : pc[d] \in Acting => call[d].sid # s
  BY Parts, <1>1 DEF ActsOnStream, IssuedOnly, OpenerAlone, Acting, Holding
<1>3. \A d \in Conns : (pc'[d] \in Acting <=> pc[d] \in Acting) /\ (pc'[d] \in Holding <=> pc[d] \in Holding)
  BY <1>1 DEF Acting, Holding
<1>5. ActsOnStream' /\ IssuedOnly'
  BY Parts, <1>1, <1>2, <1>3 DEF ActsOnStream, IssuedOnly
<1>6. OpenerAlone'
  <2> SUFFICES ASSUME NEW d \in Conns, pc'[d] \in Holding
               PROVE  /\ reader[call[d].sid] = "none"
                      /\ \A e \in Conns \ {d} : pc'[e] \in Holding => call[e].sid # call[d].sid
                      /\ pc'[d] # "start" =>
                            /\ call[d].sid \notin sessions'
                            /\ \A e \in Conns \ {d} : pc'[e] \in Acting => call[e].sid # call[d].sid
    BY <1>1 DEF OpenerAlone
  <2>1. Holding \subseteq Acting
    BY DEF Holding, Acting
  <2>2. CASE d = c
    BY Parts, <1>1, <1>3, <2>2 DEF OpenerAlone
  <2>3. CASE d # c
    BY Parts, <1>1, <1>2, <1>3, <2>1, <2>3 DEF OpenerAlone
  <2>. QED BY <2>2, <2>3
<1>7. KindsAgree'
  BY Parts, <1>1 DEF KindsAgree
<1>8. DefaultTerminalIsReal'
  BY Parts, <1>1 DEF DefaultTerminalIsReal, Opening
<1>9. ListedSessionIsWatched'
  BY Parts, <1>1 DEF ListedSessionIsWatched
<1>. QED BY <1>5, <1>6, <1>7, <1>8, <1>9 DEF Bookkeeping

LEMMA StartReaderInv ==
    ASSUME IInv, NEW c \in Conns, StartReader(c)
    PROVE  Bookkeeping'
<1> DEFINE s == call[c].sid
<1>1. /\ pc[c] = "start" /\ pc'[c] = "idle" /\ s \in sessions /\ s \in Streams
      /\ \A d \in Conns \ {c} : pc'[d] = pc[d] /\ call'[d] = call[d]
      /\ reader[s] = "none" /\ reader'[s] = "read"
      /\ \A t \in Streams \ {s} : reader'[t] = reader[t]
      /\ UNCHANGED <<nextStream, sessions, default, pty, doomed>>
  BY Parts, Shape DEF StartReader, Answer, Go, GoReader, tables
<1>2. \A d \in Conns \ {c} : pc[d] \in Holding => call[d].sid # s
  BY Parts, <1>1 DEF OpenerAlone, Holding
<1>3. \A d \in Conns : pc'[d] \in Acting => d # c
  BY <1>1 DEF Acting
<1>4. ActsOnStream' /\ IssuedOnly'
  BY Parts, <1>1, <1>3 DEF ActsOnStream, IssuedOnly
<1>5. OpenerAlone'
  <2>1. Holding \subseteq Acting
    BY DEF Holding, Acting
  <2>2. \A d \in Conns : pc'[d] \in Holding => d # c /\ call[d].sid \in Streams \ {s}
    BY Parts, <1>1, <1>2, <1>3, <2>1 DEF ActsOnStream
  <2>. QED BY Parts, <1>1, <1>3, <2>1, <2>2 DEF OpenerAlone
<1>6. KindsAgree'
  BY Parts, <1>1 DEF KindsAgree
<1>7. DefaultTerminalIsReal'
  <2>1. \A d \in Conns : Opening(d, default) => Opening(d, default)'
    BY <1>1 DEF Opening
  <2>2. default # None => default \in Streams
    BY Parts, Shape DEF StreamOrNone
  <2>3. reader[default] = "undefault" /\ default # None => reader'[default] = "undefault"
    BY <1>1, <2>2
  <2>. QED BY Parts, <1>1, <2>1, <2>3 DEF DefaultTerminalIsReal
<1>8. ListedSessionIsWatched'
  <2> SUFFICES ASSUME NEW t \in sessions
               PROVE  \/ reader'[t] \notin {"none", "undefault", "done"}
                      \/ \E d \in Conns : pc'[d] = "start" /\ call'[d].sid = t
    BY <1>1 DEF ListedSessionIsWatched
  <2>1. CASE t = s
    BY <1>1, <2>1
  <2>2. CASE t # s
    BY Parts, Shape, <1>1, <2>2 DEF ListedSessionIsWatched
  <2>. QED BY <2>1, <2>2
<1>. QED BY <1>4, <1>5, <1>6, <1>7, <1>8 DEF Bookkeeping

\* Sessions leave the map: none that an opener still holds back, none that is
\* the default terminal unless its reader is about to withdraw it.
LEMMA Unlist ==
    ASSUME IInv, NEW c \in Conns, NEW to \in ConnState \ Acting,
           pc' = [pc EXCEPT ![c] = to],
           \A d \in Conns \ {c} : call'[d] = call[d],
           sessions' \subseteq sessions,
           pc[c] \in Holding => call[c].sid \notin sessions' /\ pc[c] = "start",
           default \in sessions => default \in sessions',
           UNCHANGED <<nextStream, default, reader>>,
           \A s \in Streams : pty'[s].persistent = pty[s].persistent,
           \A d \in Conns : doomed'[d] \subseteq doomed[d]
    PROVE  Bookkeeping'
<1>1. \A d \in Conns : pc'[d] \in Acting => d # c /\ pc'[d] = pc[d] /\ call'[d] = call[d]
  BY Parts, Shape
<1>2. \A d \in Conns : pc[d] \in Holding /\ d # c => pc'[d] = pc[d] /\ call'[d] = call[d]
  BY Parts, Shape
<1>3. Holding \subseteq Acting
  BY DEF Holding, Acting
<1>4. ActsOnStream' /\ IssuedOnly'
  BY Parts, <1>1 DEF ActsOnStream, IssuedOnly
<1>5. OpenerAlone'
  BY Parts, <1>1, <1>3 DEF OpenerAlone
<1>6. KindsAgree'
  <2>1. \A d \in Conns : pc'[d] \in {"register", "close"} =>
            pc'[d] = pc[d] /\ call'[d] = call[d] /\ call[d].sid \in Streams
    BY Parts, <1>1 DEF ActsOnStream, Acting
  <2>2. \A d \in Conns : doomed'[d] \subseteq Streams
    BY Parts, Shape
  <2>. QED BY Parts, <2>1, <2>2 DEF KindsAgree
<1>7. DefaultTerminalIsReal'
  <2>1. default # None => default \in Streams
    BY Parts, Shape DEF StreamOrNone
  <2>2. \A d \in Conns : Opening(d, default) => Opening(d, default)'
    BY <1>2 DEF Opening, Holding
  <2>. QED BY Parts, <2>1, <2>2 DEF DefaultTerminalIsReal
<1>8. ListedSessionIsWatched'
  BY Parts, <1>2 DEF ListedSessionIsWatched, Holding
<1>. QED BY <1>4, <1>5, <1>6, <1>7, <1>8 DEF Bookkeeping

\* Every step a connection task or its client takes keeps the bookkeeping.
LEMMA ClientStepInv ==
    ASSUME IInv, NEW c \in Conns, ClientStep(c)
    PROVE  Bookkeeping'
<1>0. /\ \A d \in Conns : \A s \in doomed[d] : s \in Streams /\ s < nextStream /\ ~pty[s].persistent
      /\ {"idle", "leave", "lookup"} \subseteq ConnState \ Acting
      /\ {"off", "idle", "leave"} \cap Acting = {} /\ Holding \subseteq Acting
  BY Parts, Shape DEF IssuedOnly, KindsAgree, ConnState, Acting, Holding
<1>1. CASE Connect(c)
  BY <1>0, <1>1, Retreat DEF Connect, Go, tables, streamVars
<1>2. CASE Disconnect(c)
  BY <1>0, <1>2, Retreat DEF Disconnect, Go, tables, streamVars
<1>3. ASSUME NEW r \in Requests, OpenBegin(c, r) PROVE Bookkeeping'
  <2>1. \A d \in Conns \ {c} : call'[d] = call[d]
    BY <1>3, Parts, Shape DEF OpenBegin
  <2>. QED BY <1>0, <1>3, <2>1, Retreat DEF OpenBegin, Go, tables, streamVars
<1>4. ASSUME NEW s \in Published, CloseBegin(c, s) PROVE Bookkeeping'
  <2>1. call'[c].sid = s /\ \A d \in Conns \ {c} : call'[d] = call[d]
    BY <1>4, Parts, Shape DEF CloseBegin, Call
  <2>. QED BY <1>0, <1>4, <2>1, TakeUp DEF CloseBegin, Go, streamVars
<1>5. ASSUME NEW s \in Published, InputBegin(c, s) PROVE Bookkeeping'
  <2>1. call'[c].sid = s /\ \A d \in Conns \ {c} : call'[d] = call[d]
    BY <1>5, Parts, Shape DEF InputBegin, Call
  <2>. QED BY <1>0, <1>5, <2>1, TakeUp DEF InputBegin, Go, tables, streamVars
<1>. QED BY <1>1, <1>2, <1>3, <1>4, <1>5 DEF ClientStep

LEMMA ConnStepInv ==
    ASSUME IInv, NEW c \in Conns, ConnStep(c)
    PROVE  Bookkeeping'
<1>0. /\ \A d \in Conns : \A s \in doomed[d] : s \in Streams /\ s < nextStream /\ ~pty[s].persistent
      /\ {"idle", "spawn", "closed", "crashed", "reap"} \subseteq ConnState \ Acting
      /\ {"subscribe", "lookup", "spawn", "close", "leave", "reap"} \cap Holding = {}
      /\ {"lookup"} \cap Acting = {} /\ "start" \notin {"register", "insert"}
  BY Parts, Shape DEF IssuedOnly, KindsAgree, ConnState, Acting, Holding
<1>1. CASE AttachReplay(c)
  <2> DEFINE s == AttachTarget(c)
  <2>1. s \in sessions
    BY <1>1, Parts, AttachTargetListed DEF AttachReplay
  <2>2. s \in Published
    BY <2>1, Parts, Shape DEF Published, IssuedOnly, OpenerAlone, Holding
  <2>3. call'[c].sid = s /\ \A d \in Conns \ {c} : call'[d] = call[d]
    BY <1>1, Parts, Shape DEF AttachReplay, NoCall
  <2>. QED BY <1>0, <1>1, <2>2, <2>3, TakeUp DEF AttachReplay, Go, tables, streamVars
<1>2. CASE AttachSubscribe(c)
  <2>1. \A d \in Conns \ {c} : call'[d] = call[d]
    BY <1>2, Parts, Shape DEF AttachSubscribe, Answer
  <2>. QED BY <1>0, <1>2, <2>1, Retreat DEF AttachSubscribe, Answer, Go, tables
<1>3. CASE OpenMiss(c)
  BY <1>0, <1>3, Retreat DEF OpenMiss, Go, tables, streamVars
<1>4. CASE SpawnFails(c)
  <2>1. \A d \in Conns \ {c} : call'[d] = call[d]
    BY <1>4, Parts, Shape DEF SpawnFails, Answer
  <2>. QED BY <1>0, <1>4, <2>1, Retreat DEF SpawnFails, Answer, Go, tables, streamVars
<1>5. CASE StartPanics(c)
  <2>1. /\ \A d \in Conns \ {c} : call'[d] = call[d]
        /\ \A d \in Conns : doomed'[d] \subseteq doomed[d]
    BY <1>5, Parts, Shape DEF StartPanics, Finish
  <2>. QED BY <1>0, <1>5, <2>1, Unlist DEF StartPanics, Go, tables, streamVars
<1>6. CASE CloseEnd(c)
  <2>1. \A d \in Conns \ {c} : call'[d] = call[d]
    BY <1>6, Parts, Shape DEF CloseEnd, Answer
  <2>2. default # call[c].sid
    BY <1>6, Parts DEF CloseEnd, Answer, Go, KindsAgree
  <2>3. \A s \in Streams : pty'[s].persistent = pty[s].persistent
    <3>1. pty \in [Streams -> Pty] /\ \A s \in Streams : pty[s] \in Pty
      BY Parts DEF TypeOK
    <3>2. CASE call[c].sid \in sessions
      BY <1>6, <3>1, <3>2 DEF CloseEnd, ShutdownWriter, Pty
    <3>3. CASE call[c].sid \notin sessions
      BY <1>6, <3>3 DEF CloseEnd
    <3>. QED BY <3>2, <3>3
  <2>. QED BY <1>0, <1>6, <2>1, <2>2, <2>3, Unlist DEF CloseEnd, Answer, Go
<1>7. CASE LeaveCollect(c)
  <2> DEFINE rest == (connPtys[c] \cap sessions) \ Kept(c)
  <2>1. \A s \in rest : s \in Streams /\ s < nextStream /\ ~pty[s].persistent
    BY Parts, Shape DEF Kept, IssuedOnly
  <2>2. CASE Go(c, "leave", "closed") /\ Finish(c)
    <3>1. /\ \A d \in Conns \ {c} : call'[d] = call[d]
          /\ \A d \in Conns : doomed'[d] \subseteq doomed[d]
      BY <2>2, Parts, Shape DEF Finish
    <3>. QED BY <1>0, <1>7, <2>2, <3>1, Retreat DEF LeaveCollect, Go, tables
  <2>3. CASE /\ Go(c, "leave", "reap")
             /\ doomed' = [doomed EXCEPT ![c] = rest]
             /\ UNCHANGED <<call, connPtys, clientVars>>
    <3>1. \A d \in Conns : doomed'[d] = (IF d = c THEN rest ELSE doomed[d])
      BY <2>3, Parts, Shape
    <3>2. \A d \in Conns : \A s \in doomed'[d] : s \in Streams /\ s < nextStream /\ ~pty[s].persistent
      BY <1>0, <2>1, <3>1
    <3>. QED BY <1>0, <1>7, <2>3, <3>2, Retreat DEF LeaveCollect, Go, tables
  <2>. QED BY <1>7, <2>2, <2>3 DEF LeaveCollect
<1>8. CASE LeaveRemove(c)
  <2>1. /\ \A d \in Conns \ {c} : call'[d] = call[d]
        /\ \A d \in Conns : doomed'[d] \subseteq doomed[d]
    BY <1>8, Parts, Shape DEF LeaveRemove, Finish
  <2>2. default # None => default \notin doomed[c]
    BY <1>0, Parts DEF DefaultTerminalIsReal
  <2>3. None \notin sessions
    BY Parts, Shape
  <2>. QED BY <1>0, <1>8, <2>1, <2>2, <2>3, Unlist DEF LeaveRemove, Go, streamVars
<1>. QED BY <1>1, <1>2, <1>3, <1>4, <1>5, <1>6, <1>7, <1>8, SpawnInv, RegisterDefaultInv,
            InsertInv, StartReaderInv DEF ConnStep

LEMMA InputEndInv ==
    ASSUME IInv, NEW c \in Conns, InputEnd(c)
    PROVE  Bookkeeping'
<1>0. /\ \A d \in Conns : \A s \in doomed[d] : s \in Streams /\ s < nextStream /\ ~pty[s].persistent
      /\ "idle" \in ConnState \ Acting /\ "write" \notin Holding
  BY Parts, Shape DEF IssuedOnly, KindsAgree, ConnState, Acting, Holding
<1>1. \A d \in Conns \ {c} : call'[d] = call[d]
  BY Parts, Shape DEF InputEnd, Answer
<1>2. \A s \in Streams : pty'[s].persistent = pty[s].persistent
  <2>1. pty \in [Streams -> Pty] /\ \A s \in Streams : pty[s] \in Pty
    BY Parts DEF TypeOK
  <2>2. CASE UNCHANGED pty
    BY <2>2
  <2>3. CASE pty' = [pty EXCEPT ![call[c].sid].cwd = @ + 1]
    BY <2>1, <2>3 DEF Pty
  <2>. QED BY <2>2, <2>3 DEF InputEnd
<1>. QED BY <1>0, <1>1, <1>2, Retreat DEF InputEnd, Answer, Go, tables

LEMMA DeliverInv ==
    ASSUME IInv, NEW c \in Conns, Deliver(c)
    PROVE  Bookkeeping'
<1>1. UNCHANGED <<nextStream, sessions, default, pty, reader, pc, call, doomed>>
  BY DEF Deliver, tables, streamVars
<1>. QED BY <1>1, Parts DEF Bookkeeping, ActsOnStream, IssuedOnly, OpenerAlone, KindsAgree,
         DefaultTerminalIsReal, ListedSessionIsWatched, Opening

\* The reader threads' steps: a reader that stops reading makes room for
\* nothing, it only withdraws what it put down.
LEMMA ReaderStepInv ==
    ASSUME IInv, NEW s \in Streams, ReaderExtend(s) \/ ReaderStep(s)
    PROVE  Bookkeeping'
<1> USE Parts DEF TypeOK, Bookkeeping, ActsOnStream, IssuedOnly, OpenerAlone, KindsAgree,
        DefaultTerminalIsReal, ListedSessionIsWatched, Acting, Holding, Opening, GoReader, connVars
<1>1. CASE ReaderExtend(s)
  BY <1>1 DEF ReaderExtend, Pty, tables
<1>2. CASE ReaderBroadcast(s)
  BY <1>2 DEF ReaderBroadcast, tables
<1>3. CASE ReaderEof(s)
  BY <1>3 DEF ReaderEof, tables
<1>4. CASE ReaderReap(s)
  BY <1>4 DEF ReaderReap, tables
<1>5. CASE ReaderReport(s)
  BY <1>5 DEF ReaderReport, tables
<1>6. CASE ReaderRemove(s)
  BY <1>6 DEF ReaderRemove
<1>7. CASE ReaderUndefault(s)
  BY <1>7, SMTT(20) DEF ReaderUndefault, Streams, StreamOrNone, None
<1>. QED BY <1>1, <1>2, <1>3, <1>4, <1>5, <1>6, <1>7 DEF ReaderStep

-----------------------------------------------------------------------------
(* The inductive invariant *)

LEMMA InitInv == Init => IInv
<1> SUFFICES ASSUME Init PROVE Bookkeeping
  BY InitType DEF IInv
<1>. QED BY DEF Init, FirstStream, None, Bookkeeping, ActsOnStream, IssuedOnly, OpenerAlone,
         KindsAgree, DefaultTerminalIsReal, ListedSessionIsWatched, Acting, Holding

LEMMA StepInv == IInv /\ [Next]_vars => IInv'
<1> SUFFICES ASSUME IInv, [Next]_vars PROVE TypeOK' /\ Bookkeeping'
  BY DEF IInv
<1>1. ASSUME NEW c \in Conns, ClientStep(c) PROVE TypeOK' /\ Bookkeeping'
  BY <1>1, Parts, ClientStepType, ClientStepInv
<1>2. ASSUME NEW c \in Conns, ConnStep(c) PROVE TypeOK' /\ Bookkeeping'
  BY <1>2, Parts, ConnStepType, ConnStepInv
<1>3. ASSUME NEW c \in Conns, Deliver(c) PROVE TypeOK' /\ Bookkeeping'
  BY <1>3, Parts, DeliverType, DeliverInv
<1>4. ASSUME NEW c \in Conns, InputEnd(c) PROVE TypeOK' /\ Bookkeeping'
  <2>1. call[c].sid \in Streams
    BY <1>4, Parts DEF InputEnd, Answer, Go, ActsOnStream, Acting
  <2>. QED BY <1>4, <2>1, Parts, InputEndType, InputEndInv
<1>5. ASSUME NEW s \in Streams, ReaderExtend(s) \/ ReaderStep(s) PROVE TypeOK' /\ Bookkeeping'
  BY <1>5, Parts, ReaderStepType, ReaderStepInv
<1>6. ASSUME NEW s \in Streams, ChildExit(s) \/ ChildDetach(s) PROVE TypeOK' /\ Bookkeeping'
  <2>1. /\ UNCHANGED <<tables, pty, subs, reader, connVars, clientVars>>
        /\ child' \in [Streams -> ChildState]
    BY <1>6, Parts DEF ChildExit, ChildDetach, TypeOK, ChildState
  <2>2. TypeOK'
    BY <2>1, Parts DEF TypeOK, tables, connVars, clientVars
  <2>3. Bookkeeping'
    BY <2>1, Parts DEF tables, connVars, Bookkeeping, ActsOnStream, IssuedOnly, OpenerAlone,
       KindsAgree, DefaultTerminalIsReal, ListedSessionIsWatched, Opening
  <2>. QED BY <2>2, <2>3
<1>7. CASE UNCHANGED vars
  <2>1. UNCHANGED <<tables, streamVars, connVars, clientVars>>
    BY <1>7 DEF vars
  <2>2. TypeOK'
    BY <2>1, Parts DEF TypeOK, tables, streamVars, connVars, clientVars
  <2>3. Bookkeeping'
    BY <2>1, Parts DEF tables, streamVars, connVars, Bookkeeping, ActsOnStream, IssuedOnly,
       OpenerAlone, KindsAgree, DefaultTerminalIsReal, ListedSessionIsWatched, Opening
  <2>. QED BY <2>2, <2>3
<1>. QED BY <1>1, <1>2, <1>3, <1>4, <1>5, <1>6, <1>7 DEF Next

\* The tables, the readers and the connection tasks' locals agree in every
\* reachable state of the terminal service (IInv, with the types).
THEOREM BookkeepingHolds == Spec => []IInv
<1>. QED BY InitInv, StepInv, PTL DEF Spec

\* Every variable keeps its type.
THEOREM TypeCorrect == Spec => []TypeOK
<1>1. IInv => TypeOK
  BY Parts
<1>. QED BY <1>1, BookkeepingHolds, PTL

\* The default terminal handed to an attaching pty.open is never a dangling id
\* (handle_pty_open, pty_reader_thread, handle_pty_close).
THEOREM DefaultIsReal == Spec => []DefaultTerminalIsReal
<1>1. IInv => DefaultTerminalIsReal
  BY Parts
<1>. QED BY <1>1, BookkeepingHolds, PTL

\* Every session in the map has a live reader thread, or an open that is about
\* to start one or to find the session gone (handle_pty_open).
THEOREM ListedIsWatched == Spec => []ListedSessionIsWatched
<1>1. IInv => ListedSessionIsWatched
  BY Parts
<1>. QED BY <1>1, BookkeepingHolds, PTL

-----------------------------------------------------------------------------
(* What follows from it for a step *)

\* A persistent session leaves the map by pty.close or by the end of its
\* process, never because a connection goes away (close_conn_ptys).
THEOREM PersistentStays == Spec => PersistentSurvivesDisconnect
<1> DEFINE Stays == \A s \in sessions \ sessions' : pty[s].persistent =>
                       \/ reader[s] = "remove"
                       \/ \E c \in Conns : pc[c] = "close" /\ call[c].sid = s
<1>1. ASSUME IInv, Next PROVE Stays
  <2>1. ASSUME NEW c \in Conns, ClientStep(c) \/ Deliver(c) \/ InputEnd(c) PROVE Stays
    BY <2>1 DEF ClientStep, Connect, Disconnect, OpenBegin, CloseBegin, InputBegin, Deliver,
       InputEnd, tables
  <2>2. ASSUME NEW c \in Conns, ConnStep(c) PROVE Stays
    <3>1. CASE CloseEnd(c)
      BY <3>1 DEF CloseEnd, Answer, Go
    <3>2. CASE LeaveRemove(c)
      BY <3>2, <1>1, Parts DEF LeaveRemove, KindsAgree
    <3>3. CASE ~CloseEnd(c) /\ ~LeaveRemove(c)
      BY <2>2, <3>3 DEF ConnStep, AttachReplay, AttachSubscribe, OpenMiss, SpawnFails, Spawn,
         RegisterDefault, Insert, StartReader, StartPanics, LeaveCollect, tables
    <3>. QED BY <3>1, <3>2, <3>3
  <2>3. ASSUME NEW s \in Streams, ReaderExtend(s) \/ ReaderStep(s) \/ ChildExit(s) \/ ChildDetach(s)
        PROVE  Stays
    BY <2>3 DEF ReaderExtend, ReaderStep, ReaderBroadcast, ReaderEof, ReaderReap, ReaderReport,
       ReaderRemove, ReaderUndefault, ChildExit, ChildDetach, GoReader, tables
  <2>. QED BY <1>1, <2>1, <2>2, <2>3 DEF Next
<1>2. IInv /\ [Next]_vars => [Stays]_vars
  BY <1>1
<1>. QED BY <1>2, BookkeepingHolds, PTL DEF Spec, PersistentSurvivesDisconnect

-----------------------------------------------------------------------------
(* The service implements the registry of terminals *)

\* A step at which nobody starts or stops holding a terminal back publishes
\* none and hides none.
LEMMA SamePublished ==
    ASSUME UNCHANGED nextStream,
           \A c \in Conns : \A s \in Streams :
               Opening(c, s)' <=> Opening(c, s)
    PROVE  Published' = Published
  BY DEF Published, Opening

\* A session in the map is published.
LEMMA ListedIsPublished == IInv => sessions \subseteq Published
  BY Parts, Shape DEF Published, IssuedOnly, OpenerAlone, Holding

\* Steps that neither list, nominate nor issue a terminal.
LEMMA RegistryRetires ==
    ASSUME IInv, Published' = Published, UNCHANGED nextStream,
           \/ sessions' \subseteq sessions /\ UNCHANGED default
           \/ UNCHANGED sessions /\ default' \in {default, None}
    PROVE  [Registry!Next]_(Registry!vars)
<1> DEFINE gone == sessions \ sessions'
<1>1. CASE sessions' \subseteq sessions /\ UNCHANGED default
  <2>1. /\ gone \in SUBSET sessions /\ sessions' = sessions \ gone
        /\ (Published \ sessions)' = (Published \ sessions) \cup gone
    BY <1>1, ListedIsPublished
  <2>2. Registry!Retire(gone)
    BY <1>1, <2>1 DEF Registry!Retire
  <2>. QED BY <2>1, <2>2 DEF Registry!Next
<1>2. CASE UNCHANGED sessions /\ default' = default
  BY <1>2 DEF Registry!vars
<1>3. CASE UNCHANGED sessions /\ default' = None
  BY <1>3 DEF Registry!Next, Registry!Withdraw
<1>. QED BY <1>1, <1>2, <1>3

LEMMA RegistryInit == Init => Registry!Init
<1> SUFFICES ASSUME Init PROVE Registry!Init
  OBVIOUS
<1>1. 1..(nextStream - 1) = {} /\ Published = {}
  BY DEF Init, FirstStream, Published, Streams
<1>. QED BY <1>1 DEF Init, Registry!Init

LEMMA RegistryConnStep ==
    ASSUME IInv, NEW c \in Conns, ConnStep(c)
    PROVE  [Registry!Next]_(Registry!vars)
<1> DEFINE s == call[c].sid
<1>1. CASE Spawn(c)
  <2> DEFINE i == nextStream
  <2>1. /\ i \in Streams /\ nextStream' = i + 1 /\ UNCHANGED <<sessions, default>>
        /\ pc[c] = "spawn" /\ pc'[c] \in {"register", "insert"} /\ call'[c].sid = i
        /\ \A d \in Conns \ {c} : pc'[d] = pc[d] /\ call'[d] = call[d]
    BY <1>1, Parts, Shape DEF Spawn, Go, NextId, NoCall
  <2>2. 1..(nextStream' - 1) = (1..(nextStream - 1)) \cup {i} /\ i \notin 1..(nextStream - 1)
    BY <2>1 DEF Streams
  <2>3. Published' = Published
    BY <2>1 DEF Published, Streams
  <2>4. Registry!Issue(i)
    BY <2>1, <2>2, <2>3 DEF Registry!Issue
  <2>. QED BY <2>1, <2>4 DEF Registry!Next
<1>2. CASE RegisterDefault(c)
  <2>1. /\ UNCHANGED <<nextStream, sessions, call>> /\ default' = s
        /\ pc[c] = "register" /\ pc'[c] = "insert"
        /\ \A d \in Conns \ {c} : pc'[d] = pc[d]
    BY <1>2, Parts, Shape DEF RegisterDefault, Go
  <2>2. Published' = Published
    BY <2>1, SamePublished DEF Opening
  <2>3. s \in Streams /\ s \in 1..(nextStream - 1) /\ s \notin sessions /\ s \notin Published
    BY <2>1, Parts, Shape DEF ActsOnStream, IssuedOnly, OpenerAlone, Acting, Holding, Published, Streams
  <2>4. Registry!Nominate(s)
    BY <2>1, <2>2, <2>3 DEF Registry!Nominate
  <2>. QED BY <2>3, <2>4 DEF Registry!Next
<1>3. CASE Insert(c)
  <2>1. /\ UNCHANGED <<nextStream, default, call>> /\ sessions' = sessions \cup {s}
        /\ pc[c] = "insert" /\ pc'[c] = "start"
        /\ \A d \in Conns \ {c} : pc'[d] = pc[d]
    BY <1>3, Parts, Shape DEF Insert, Go
  <2>2. s \in Streams /\ s \in 1..(nextStream - 1) /\ s \notin sessions /\ s \notin Published
    BY <2>1, Parts, Shape DEF ActsOnStream, IssuedOnly, OpenerAlone, Acting, Holding, Published, Streams
  <2>3. \A d \in Conns \ {c} : ~Opening(d, s)
    BY <2>1, Parts DEF OpenerAlone, Opening, Acting, Holding
  <2>4. Published' = Published \cup {s}
    <3>1. s \in Published'
      <4>1. \A d \in Conns : ~(pc'[d] \in {"register", "insert"} /\ call'[d].sid = s)
        BY <2>1, <2>3 DEF Opening
      <4>2. s < nextStream'
        BY <2>1, Parts DEF IssuedOnly, Acting
      <4>. QED BY <2>2, <4>1, <4>2 DEF Published
    <3>2. ASSUME NEW t \in Streams \ {s} PROVE Opening(c, t)' <=> Opening(c, t)
      BY <2>1 DEF Opening
    <3>3. ASSUME NEW t \in Streams \ {s}, NEW d \in Conns PROVE Opening(d, t)' <=> Opening(d, t)
      BY <2>1, <3>2 DEF Opening
    <3>4. \A t \in Streams \ {s} : t \in Published' <=> t \in Published
      BY <2>1, <3>3 DEF Published, Opening
    <3>. QED BY <2>2, <3>1, <3>4 DEF Published
  <2>5. Registry!Publish(s)
    BY <2>1, <2>2, <2>4 DEF Registry!Publish
  <2>. QED BY <2>2, <2>5 DEF Registry!Next
<1>4. CASE AttachReplay(c) \/ AttachSubscribe(c) \/ OpenMiss(c) \/ SpawnFails(c) \/ StartReader(c)
           \/ StartPanics(c) \/ CloseEnd(c) \/ LeaveCollect(c) \/ LeaveRemove(c)
  <2>1. /\ UNCHANGED <<nextStream, default>> /\ sessions' \subseteq sessions
        /\ \A d \in Conns \ {c} : pc'[d] = pc[d] /\ call'[d] = call[d]
        /\ pc[c] \notin {"register", "insert"} /\ pc'[c] \notin {"register", "insert"}
    <3>1. CASE AttachReplay(c) \/ AttachSubscribe(c) \/ OpenMiss(c) \/ SpawnFails(c) \/ StartReader(c)
      BY <3>1, Parts, Shape DEF AttachReplay, AttachSubscribe, OpenMiss, SpawnFails, StartReader,
         Answer, Go, tables
    <3>2. CASE StartPanics(c)
      BY <3>2, Parts, Shape DEF StartPanics, Finish, Go, tables
    <3>3. CASE CloseEnd(c)
      BY <3>3, Parts, Shape DEF CloseEnd, Answer, Go
    <3>4. CASE LeaveCollect(c)
      BY <3>4, Parts, Shape DEF LeaveCollect, Finish, Go, tables
    <3>5. CASE LeaveRemove(c)
      BY <3>5, Parts, Shape DEF LeaveRemove, Finish, Go
    <3>. QED BY <1>4, <3>1, <3>2, <3>3, <3>4, <3>5
  <2>2. Published' = Published
    BY <2>1, SamePublished DEF Opening
  <2>. QED BY <2>1, <2>2, RegistryRetires
<1>. QED BY <1>1, <1>2, <1>3, <1>4 DEF ConnStep

LEMMA RegistryStep == IInv /\ [Next]_vars => [Registry!Next]_(Registry!vars)
<1> SUFFICES ASSUME IInv, [Next]_vars PROVE [Registry!Next]_(Registry!vars)
  OBVIOUS
<1>1. ASSUME NEW c \in Conns, ClientStep(c) \/ Deliver(c) \/ InputEnd(c)
      PROVE  [Registry!Next]_(Registry!vars)
  <2>1. /\ UNCHANGED <<nextStream, sessions>> /\ default' \in {default, None}
        /\ \A d \in Conns \ {c} : pc'[d] = pc[d] /\ call'[d] = call[d]
        /\ UNCHANGED <<pc, call>> \/ (/\ pc[c] \notin {"register", "insert"}
                                      /\ pc'[c] \notin {"register", "insert"})
    BY <1>1, Parts, Shape DEF ClientStep, Connect, Disconnect, OpenBegin, CloseBegin, InputBegin,
       Deliver, InputEnd, Answer, Go, tables
  <2>2. Published' = Published
    BY <2>1, SamePublished DEF Opening
  <2>. QED BY <2>1, <2>2, RegistryRetires
<1>2. ASSUME NEW c \in Conns, ConnStep(c) PROVE [Registry!Next]_(Registry!vars)
  BY <1>2, RegistryConnStep
<1>3. ASSUME NEW s \in Streams, ReaderExtend(s) \/ ReaderStep(s) \/ ChildExit(s) \/ ChildDetach(s)
      PROVE  [Registry!Next]_(Registry!vars)
  <2>1. /\ UNCHANGED <<nextStream, pc, call>>
        /\ \/ sessions' \subseteq sessions /\ UNCHANGED default
           \/ UNCHANGED sessions /\ default' \in {default, None}
    BY <1>3 DEF ReaderExtend, ReaderStep, ReaderBroadcast, ReaderEof, ReaderReap, ReaderReport,
       ReaderRemove, ReaderUndefault, ChildExit, ChildDetach, tables, connVars
  <2>2. Published' = Published
    BY <2>1, SamePublished DEF Opening
  <2>. QED BY <2>1, <2>2, RegistryRetires
<1>4. CASE UNCHANGED vars
  <2>1. UNCHANGED <<nextStream, sessions, default, pc, call>>
    BY <1>4 DEF vars, tables, connVars
  <2>2. Published' = Published
    BY <2>1, SamePublished DEF Opening
  <2>. QED BY <2>1, <2>2 DEF Registry!vars
<1>. QED BY <1>1, <1>2, <1>3, <1>4 DEF Next

\* Whatever the connections and the readers do, terminal ids are issued once,
\* listed once and never again after they have been retired, and only a
\* terminal that is not listed yet becomes the default one: the service is an
\* implementation of TerminalRegistry.
THEOREM Implements == Spec => ImplementsRegistry
<1>. QED BY RegistryInit, RegistryStep, BookkeepingHolds, PTL
         DEF Spec, ImplementsRegistry, Registry!Spec

-----------------------------------------------------------------------------
(* Channels: what delivering the first frame, or adding one, does to them *)

LEMMA TailFrames ==
    ASSUME NEW q \in Seq(Frame), q # <<>>
    PROVE  /\ Tail(q) \in Seq(Frame) /\ DOMAIN q = 1..Len(q) /\ Len(q) \in Nat /\ Len(q) >= 1
           /\ DOMAIN Tail(q) = 1..(Len(q) - 1)
           /\ \A i \in 1..(Len(q) - 1) : Tail(q)[i] = q[i + 1]
           /\ Head(q) = q[1] /\ q[1] \in Frame
  OBVIOUS

LEMMA AppendFrames ==
    ASSUME NEW q \in Seq(Frame), NEW f \in Frame
    PROVE  /\ Append(q, f) \in Seq(Frame) /\ DOMAIN q = 1..Len(q) /\ Len(q) \in Nat
           /\ DOMAIN Append(q, f) = 1..(Len(q) + 1)
           /\ \A i \in 1..Len(q) : Append(q, f)[i] = q[i]
           /\ Append(q, f)[Len(q) + 1] = f
  OBVIOUS

\* A frame that is not drawn as output of s.
Noise(f, s) == ~(f.kind \in {"replay", "raw"} /\ f.sid = s)

LEMMA TailDrawn ==
    ASSUME NEW q \in Seq(Frame), q # <<>>, NEW s
    PROVE  /\ \A i \in Drawn(Tail(q), s) : i \in Nat /\ i + 1 \in Drawn(q, s) /\ Tail(q)[i] = q[i + 1]
           /\ \A i \in Drawn(q, s) : i \in Nat /\ (i = 1 \/ i - 1 \in Drawn(Tail(q), s))
           /\ \A i \in Raw(Tail(q), s) : i \in Nat /\ i + 1 \in Raw(q, s) /\ Tail(q)[i] = q[i + 1]
           /\ \A i \in Raw(q, s) : i \in Nat /\ i >= 1 /\ (i = 1 \/ (i - 1 \in Raw(Tail(q), s) /\ Tail(q)[i - 1] = q[i]))
  BY TailFrames DEF Drawn, Raw

LEMMA AppendDrawn ==
    ASSUME NEW q \in Seq(Frame), NEW f \in Frame, NEW s
    PROVE  /\ Append(q, f) \in Seq(Frame) /\ Len(q) \in Nat /\ Append(q, f)[Len(q) + 1] = f
           /\ Drawn(Append(q, f), s) = Drawn(q, s) \cup (IF Noise(f, s) THEN {} ELSE {Len(q) + 1})
           /\ Raw(Append(q, f), s) = Raw(q, s) \cup (IF f.kind = "raw" /\ f.sid = s THEN {Len(q) + 1} ELSE {})
           /\ Drawn(q, s) \subseteq 1..Len(q) /\ Raw(q, s) \subseteq 1..Len(q)
           /\ \A i \in 1..Len(q) : Append(q, f)[i] = q[i]
<1> DEFINE r == Append(q, f)
<1>1. /\ DOMAIN q = 1..Len(q) /\ Len(q) \in Nat /\ DOMAIN r = 1..(Len(q) + 1)
      /\ \A i \in 1..Len(q) : r[i] = q[i]
      /\ r[Len(q) + 1] = f /\ r \in Seq(Frame)
  BY AppendFrames
<1> HIDE DEF r
<1>2. Drawn(r, s) = Drawn(q, s) \cup (IF Noise(f, s) THEN {} ELSE {Len(q) + 1})
  BY <1>1 DEF Drawn, Noise
<1>3. Raw(r, s) = Raw(q, s) \cup (IF f.kind = "raw" /\ f.sid = s THEN {Len(q) + 1} ELSE {})
  BY <1>1 DEF Raw
<1>4. Drawn(q, s) \subseteq 1..Len(q) /\ Raw(q, s) \subseteq 1..Len(q)
  BY <1>1 DEF Drawn, Raw
<1>. QED BY <1>1, <1>2, <1>3, <1>4 DEF r

LEMMA TailSeamless ==
    ASSUME NEW q \in Seq(Frame), q # <<>>, NEW s, Seamless(q, s)
    PROVE  Seamless(Tail(q), s)
<1> DEFINE t == Tail(q)
<1>1. SUFFICES ASSUME NEW i \in Drawn(t, s), NEW j \in Drawn(t, s), i < j,
                      \A k \in Drawn(t, s) : k <= i \/ j <= k
               PROVE  /\ t[j].kind = "raw"
                      /\ IF t[i].kind = "raw" THEN t[j].n = t[i].n + 1 ELSE t[j].n >= t[i].n
  BY DEF Seamless
<1>2. i + 1 \in Drawn(q, s) /\ j + 1 \in Drawn(q, s) /\ i \in Nat /\ j \in Nat
  BY TailDrawn
<1>3. ASSUME NEW k \in Drawn(q, s) PROVE k <= i + 1 \/ j + 1 <= k
  BY <1>1, <1>2, TailDrawn
<1>4. t[i] = q[i + 1] /\ t[j] = q[j + 1]
  BY TailDrawn
<1>5. i + 1 < j + 1
  BY <1>1, <1>2
<1>6. /\ q[j + 1].kind = "raw"
      /\ IF q[i + 1].kind = "raw" THEN q[j + 1].n = q[i + 1].n + 1 ELSE q[j + 1].n >= q[i + 1].n
  BY <1>2, <1>3, <1>5 DEF Seamless
<1>. QED BY <1>4, <1>6

LEMMA AppendSeamless ==
    ASSUME NEW q \in Seq(Frame), NEW f \in Frame, NEW s, Seamless(q, s),
           \/ Noise(f, s)
           \/ q = <<>>
           \/ /\ f.kind = "raw"
              /\ \A i \in Drawn(q, s) : (\A k \in Drawn(q, s) : k <= i) =>
                     IF q[i].kind = "raw" THEN f.n = q[i].n + 1 ELSE f.n >= q[i].n
    PROVE  Seamless(Append(q, f), s)
<1> DEFINE r == Append(q, f)
<1>0. /\ Len(q) \in Nat /\ r[Len(q) + 1] = f
      /\ Drawn(r, s) = Drawn(q, s) \cup (IF Noise(f, s) THEN {} ELSE {Len(q) + 1})
      /\ Drawn(q, s) \subseteq 1..Len(q) /\ \A i \in 1..Len(q) : r[i] = q[i]
  BY AppendDrawn
<1>1. SUFFICES ASSUME NEW i \in Drawn(r, s), NEW j \in Drawn(r, s), i < j,
                      \A k \in Drawn(r, s) : k <= i \/ j <= k
               PROVE  /\ r[j].kind = "raw"
                      /\ IF r[i].kind = "raw" THEN r[j].n = r[i].n + 1 ELSE r[j].n >= r[i].n
  BY DEF Seamless
<1>2. i \in Drawn(q, s) /\ r[i] = q[i]
  <2>1. \A k \in Drawn(r, s) : k \in Nat /\ k <= Len(q) + 1
    BY <1>0
  <2>2. i # Len(q) + 1
    BY <1>0, <1>1, <2>1
  <2>. QED BY <1>0, <1>1, <2>2
<1>3. CASE j \in Drawn(q, s)
  BY <1>1, <1>2, <1>3, <1>0 DEF Seamless
<1>4. CASE j \notin Drawn(q, s)
  <2>1. j = Len(q) + 1 /\ r[j] = f /\ ~Noise(f, s)
    BY <1>4, <1>0
  <2>2. q # <<>>
    BY <1>2 DEF Drawn
  <2>3. \A k \in Drawn(q, s) : k <= i
    BY <1>1, <2>1, <1>0
  <2>. QED BY <1>2, <2>1, <2>2, <2>3
<1>. QED BY <1>3, <1>4

LEMMA TailEnds ==
    ASSUME NEW q \in Seq(Frame), q # <<>>, NEW s, NEW n, EndsWith(q, s, n)
    PROVE  EndsWith(Tail(q), s, n)
<1> DEFINE t == Tail(q)
<1>1. SUFFICES ASSUME NEW j \in Drawn(t, s), t[j].kind = "raw", \A k \in Drawn(t, s) : k <= j
               PROVE  t[j].n = n
  BY DEF EndsWith
<1>2. j + 1 \in Drawn(q, s) /\ t[j] = q[j + 1] /\ j \in Nat
  BY TailDrawn
<1>3. ASSUME NEW k \in Drawn(q, s) PROVE k <= j + 1
  <2>1. k \in Nat /\ (k = 1 \/ k - 1 \in Drawn(t, s))
    BY TailDrawn
  <2>. QED BY <1>1, <1>2, <2>1
<1>. QED BY <1>1, <1>2, <1>3 DEF EndsWith

LEMMA AppendEnds ==
    ASSUME NEW q \in Seq(Frame), NEW f \in Frame, NEW s, NEW n,
           \/ Noise(f, s) /\ EndsWith(q, s, n)
           \/ ~Noise(f, s) /\ (f.kind = "raw" => f.n = n)
    PROVE  EndsWith(Append(q, f), s, n)
<1> DEFINE r == Append(q, f)
<1>0. /\ Len(q) \in Nat /\ r[Len(q) + 1] = f
      /\ Drawn(r, s) = Drawn(q, s) \cup (IF Noise(f, s) THEN {} ELSE {Len(q) + 1})
      /\ Drawn(q, s) \subseteq 1..Len(q) /\ \A i \in 1..Len(q) : r[i] = q[i]
  BY AppendDrawn
<1>1. SUFFICES ASSUME NEW j \in Drawn(r, s), r[j].kind = "raw", \A k \in Drawn(r, s) : k <= j
               PROVE  r[j].n = n
  BY DEF EndsWith
<1>2. CASE Noise(f, s) /\ EndsWith(q, s, n)
  BY <1>1, <1>2, <1>0 DEF EndsWith
<1>3. CASE ~Noise(f, s) /\ (f.kind = "raw" => f.n = n)
  BY <1>1, <1>3, <1>0
<1>. QED BY <1>2, <1>3

\* Delivering a chunk advances what has been drawn by one.
LEMMA TailWaiting ==
    ASSUME NEW q \in Seq(Frame), q # <<>>, NEW s, NEW lo \in Nat, NEW hi \in Nat, Waiting(q, s, lo, hi)
    PROVE  /\ 1 \notin Raw(q, s) => Waiting(Tail(q), s, lo, hi)
           /\ 1 \in Raw(q, s) => Head(q).n = lo + 1 /\ Waiting(Tail(q), s, lo + 1, hi)
<1> DEFINE t == Tail(q)
           N(x) == {x[i].n : i \in Raw(x, s)}
<1>0. /\ \A i \in Raw(t, s) : i \in Nat /\ i + 1 \in Raw(q, s) /\ t[i] = q[i + 1]
      /\ \A i \in Raw(q, s) : i \in Nat /\ i >= 1 /\ (i = 1 \/ (i - 1 \in Raw(t, s) /\ t[i - 1] = q[i]))
  BY TailDrawn
<1>1. ASSUME NEW i \in Raw(t, s), NEW j \in Raw(t, s), i < j PROVE t[i].n < t[j].n
  <2>1. i + 1 \in Raw(q, s) /\ j + 1 \in Raw(q, s) /\ i + 1 < j + 1
    BY <1>0, <1>1
  <2>. QED BY <1>0, <2>1 DEF Waiting
<1>2. CASE 1 \notin Raw(q, s)
  <2>1. N(t) = N(q)
    BY <1>0, <1>2
  <2>. QED BY <1>1, <1>2, <2>1 DEF Waiting
<1>3. CASE 1 \in Raw(q, s)
  <2>1. N(q) = (lo + 1)..hi /\ Head(q) = q[1] /\ q[1].n \in N(q)
    BY <1>3, TailFrames DEF Waiting
  <2>2. \A i \in Raw(q, s) : i # 1 => q[1].n < q[i].n
    BY <1>0, <1>3 DEF Waiting
  <2>3. q[1].n = lo + 1
    <3>0. q[1].n \in (lo + 1)..hi
      BY <2>1
    <3>1. q[1].n \in (lo + 1)..hi /\ lo + 1 \in (lo + 1)..hi
      BY <3>0
    <3>2. PICK i \in Raw(q, s) : q[i].n = lo + 1
      BY <2>1, <3>1
    <3>. QED BY <2>2, <3>1, <3>2
  <2>4. N(t) = N(q) \ {q[1].n}
    <3>1. ASSUME NEW i \in Raw(q, s), i # 1 PROVE q[i].n # q[1].n
      <4>1. q[i].n \in (lo + 1)..hi /\ q[1].n \in (lo + 1)..hi
        BY <1>3, <2>1
      <4>. QED BY <2>2, <3>1, <4>1
    <3>2. N(t) \subseteq N(q) \ {q[1].n}
      <4>1. ASSUME NEW i \in Raw(t, s) PROVE t[i].n \in N(q) \ {q[1].n}
        <5>1. i + 1 \in Raw(q, s) /\ t[i] = q[i + 1] /\ i + 1 # 1
          BY <1>0, TailFrames DEF Raw
        <5>. QED BY <3>1, <5>1
      <4>. QED BY <4>1
    <3>3. N(q) \ {q[1].n} \subseteq N(t)
      <4>1. ASSUME NEW i \in Raw(q, s), q[i].n # q[1].n PROVE q[i].n \in N(t)
        <5>1. i - 1 \in Raw(t, s) /\ t[i - 1] = q[i]
          BY <1>0, <4>1
        <5>. QED BY <5>1
      <4>. QED BY <4>1
    <3>. QED BY <3>2, <3>3
  <2>5. N(t) = ((lo + 1) + 1)..hi
    <3>1. ((lo + 1)..hi) \ {lo + 1} = ((lo + 1) + 1)..hi
      OBVIOUS
    <3>. QED BY <2>1, <2>3, <2>4, <3>1
  <2>6. lo + 1 <= hi
    <3>1. lo + 1 \in (lo + 1)..hi
      BY <2>1, <2>3
    <3>. QED BY <3>1
  <2>. QED BY <1>1, <1>3, <2>1, <2>3, <2>5, <2>6 DEF Waiting
<1>. QED BY <1>2, <1>3

\* A broadcast chunk is one more to be drawn.
LEMMA AppendWaiting ==
    ASSUME NEW q \in Seq(Frame), NEW f \in Frame, NEW s, NEW lo \in Nat, NEW hi \in Nat, Waiting(q, s, lo, hi)
    PROVE  /\ ~(f.kind = "raw" /\ f.sid = s) => Waiting(Append(q, f), s, lo, hi)
           /\ f.kind = "raw" /\ f.sid = s /\ f.n = hi + 1 => Waiting(Append(q, f), s, lo, hi + 1)
<1> DEFINE r == Append(q, f)
           N(x) == {x[i].n : i \in Raw(x, s)}
<1>0. /\ Raw(q, s) \subseteq 1..Len(q) /\ \A i \in 1..Len(q) : r[i] = q[i]
      /\ r[Len(q) + 1] = f /\ Len(q) \in Nat
      /\ Raw(r, s) = Raw(q, s) \cup (IF f.kind = "raw" /\ f.sid = s THEN {Len(q) + 1} ELSE {})
  BY AppendDrawn
<1>1. CASE ~(f.kind = "raw" /\ f.sid = s)
  <2>1. Raw(r, s) = Raw(q, s)
    BY <1>0, <1>1
  <2>2. N(r) = N(q)
    BY <1>0, <2>1
  <2>. QED BY <1>0, <1>1, <2>1, <2>2 DEF Waiting
<1>2. CASE f.kind = "raw" /\ f.sid = s /\ f.n = hi + 1
  <2>1. Raw(r, s) = Raw(q, s) \cup {Len(q) + 1}
    BY <1>0, <1>2
  <2>2. N(r) = N(q) \cup {hi + 1}
    <3>1. r[Len(q) + 1].n = hi + 1
      BY <1>0, <1>2
    <3>. QED BY <1>0, <2>1, <3>1
  <2>3. N(r) = (lo + 1)..(hi + 1)
    <3>1. N(q) = (lo + 1)..hi
      BY DEF Waiting
    <3>2. ((lo + 1)..hi) \cup {hi + 1} = (lo + 1)..(hi + 1)
      BY DEF Waiting
    <3>. QED BY <2>2, <3>1, <3>2
  <2>4. ASSUME NEW i \in Raw(q, s) PROVE q[i].n \in Nat /\ q[i].n < hi + 1
    <3>1. q[i].n \in (lo + 1)..hi
      BY DEF Waiting
    <3>. QED BY <3>1
  <2>5. ASSUME NEW i \in Raw(r, s), NEW j \in Raw(r, s), i < j PROVE r[i].n < r[j].n
    <3>1. i \in Raw(q, s)
      BY <1>0, <2>1, <2>5
    <3>2. CASE j \in Raw(q, s)
      BY <1>0, <2>5, <3>1, <3>2 DEF Waiting
    <3>3. CASE j = Len(q) + 1
      BY <1>0, <1>2, <2>4, <3>1, <3>3
    <3>. QED BY <2>1, <3>2, <3>3
  <2>6. lo <= hi + 1
    BY DEF Waiting
  <2>. QED BY <1>2, <2>3, <2>5, <2>6 DEF Waiting
<1>. QED BY <1>1, <1>2

-----------------------------------------------------------------------------
(* What is sent, and to whom *)

LEMMA CopiesOfOne ==
    ASSUME NEW q \in Seq(Frame), NEW f \in Frame, NEW n \in Nat
    PROVE  /\ n = 0 => q \o [i \in 1..n |-> f] = q
           /\ n = 1 => q \o [i \in 1..n |-> f] = Append(q, f)
           /\ \A i \in DOMAIN (q \o [j \in 1..n |-> f]) :
                 \/ i \in DOMAIN q /\ (q \o [j \in 1..n |-> f])[i] = q[i]
                 \/ (q \o [j \in 1..n |-> f])[i] = f
<1> DEFINE r == [j \in 1..n |-> f]
<1>1. r \in Seq(Frame) /\ Len(r) = n
  OBVIOUS
<1>2. /\ DOMAIN (q \o r) = 1..(Len(q) + n) /\ DOMAIN q = 1..Len(q) /\ Len(q) \in Nat
      /\ \A i \in 1..Len(q) : (q \o r)[i] = q[i]
      /\ \A i \in 1..(Len(q) + n) : i > Len(q) => (q \o r)[i] = f
  BY <1>1
<1>3. n = 0 => q \o r = q
  BY <1>1, <1>2
<1>4. n = 1 => q \o r = Append(q, f)
  BY <1>1, <1>2
<1>5. ASSUME NEW i \in DOMAIN (q \o r)
      PROVE  (i \in DOMAIN q /\ (q \o r)[i] = q[i]) \/ (q \o r)[i] = f
  BY <1>2
<1>. QED BY <1>3, <1>4, <1>5

\* What Send does to one connection's channel.
LEMMA SendTo ==
    ASSUME TypeOK, NEW s \in Streams, NEW f \in Frame, Send(s, f), NEW d \in Conns
    PROVE  /\ subs[s][d] = 0 \/ ~Receiving(d) => queue'[d] = queue[d]
           /\ subs[s][d] = 1 /\ Receiving(d) => queue'[d] = Append(queue[d], f)
           /\ \A i \in DOMAIN queue'[d] : \/ i \in DOMAIN queue[d] /\ queue'[d][i] = queue[d][i]
                                          \/ queue'[d][i] = f
<1> DEFINE n == subs[s][d]
           q == queue[d]
<1>1. q \in Seq(Frame) /\ n \in Nat
  BY DEF TypeOK
<1>2. queue'[d] = IF Receiving(d) THEN q \o [i \in 1..n |-> f] ELSE q
  BY DEF Send
<1>3. CASE Receiving(d)
  <2> DEFINE r == q \o [j \in 1..n |-> f]
  <2>1. queue'[d] = r
    BY <1>2, <1>3
  <2>2. /\ n = 0 => r = q
        /\ n = 1 => r = Append(q, f)
    BY <1>1, CopiesOfOne
  <2>3. \A i \in DOMAIN r : (i \in DOMAIN q /\ r[i] = q[i]) \/ r[i] = f
    BY <1>1, CopiesOfOne
  <2> HIDE DEF r
  <2>. QED BY <1>3, <2>1, <2>2, <2>3
<1>4. CASE ~Receiving(d)
  BY <1>2, <1>4
<1>. QED BY <1>3, <1>4

-----------------------------------------------------------------------------
(* One connection's part of the invariant *)

\* What CInv says, part by part, with the types the parts need.
LEMMA ChannelParts ==
    ASSUME CInv
    PROVE  /\ IInv /\ TypeOK /\ RingFills /\ OwnerAnswers
           /\ \A c \in Conns : ConnInv(c) /\ Bounded(c) /\ Holds(c) /\ FirstOpen(c) /\ OneOpenView(c)
           /\ \A c \in Conns : /\ queue[c] \in Seq(Frame) /\ opens[c] \in Nat /\ connPtys[c] \subseteq Streams
                               /\ call[c] \in Call
           /\ \A c \in Conns : pc[c] \in Acting => call[c].sid \in Streams
           /\ \A c \in Conns : \A s \in Streams : subs[s][c] \in Nat /\ screen[c][s] \in Nat
           /\ \A s \in Streams : Sent(s) \in Nat /\ pty[s].ring \in Nat /\ pty[s] \in Pty
<1>1. IInv /\ TypeOK /\ RingFills /\ OwnerAnswers /\ \A c \in Conns : ConnInv(c)
  BY DEF CInv, IInv
<1>2. \A s \in Streams : pty[s] \in Pty /\ pty[s].ring \in Nat
  BY <1>1 DEF TypeOK, Pty
<1>3. \A s \in Streams : Sent(s) \in Nat
  BY <1>1, <1>2 DEF RingFills, Sent
<1>4. \A c \in Conns : \A s \in Streams : subs[s][c] \in Nat /\ screen[c][s] \in Nat
  BY <1>1, BoundsAssumption DEF TypeOK
<1>5. \A c \in Conns : pc[c] \in Acting => call[c].sid \in Streams
  BY <1>1 DEF IInv, Bookkeeping, ActsOnStream
<1>6. ASSUME NEW c \in Conns
      PROVE  queue[c] \in Seq(Frame) /\ opens[c] \in Nat /\ connPtys[c] \subseteq Streams /\ call[c] \in Call
  <2>1. opens[c] \in 0..MaxOpens
    BY <1>1 DEF TypeOK
  <2>. QED BY <1>1, <2>1, BoundsAssumption DEF TypeOK
<1>. QED BY <1>1, <1>2, <1>3, <1>4, <1>5, <1>6 DEF ConnInv

\* The end of a request touches of a terminal at most its writer and directory.
LEMMA SameTerminals ==
    ASSUME TypeOK, NEW c \in Conns, CloseEnd(c) \/ InputEnd(c), call[c].sid \in Streams
    PROVE  \A s \in Streams : /\ pty'[s].ring = pty[s].ring /\ pty'[s].owner = pty[s].owner
                              /\ pty'[s].persistent = pty[s].persistent
<1> DEFINE s == call[c].sid
<1>0. pty \in [Streams -> Pty] /\ \A t \in Streams : pty[t] \in Pty
  BY DEF TypeOK
<1>1. CASE UNCHANGED pty
  BY <1>1
<1>2. CASE pty' = [pty EXCEPT ![s].writer = FALSE]
  BY <1>0, <1>2 DEF Pty
<1>3. CASE pty' = [pty EXCEPT ![s].cwd = @ + 1]
  BY <1>0, <1>3 DEF Pty
<1>. QED BY <1>1, <1>2, <1>3 DEF CloseEnd, InputEnd, ShutdownWriter

\* A spawned terminal gets an owner; no ring changes, nor any other terminal.
LEMMA SpawnTerminal ==
    ASSUME TypeOK, NEW c \in Conns, Spawn(c)
    PROVE  /\ nextStream \in Streams /\ pty'[nextStream].owner = c
           /\ \A s \in Streams : pty'[s].ring = pty[s].ring
           /\ \A s \in Streams \ {nextStream} : /\ pty'[s].owner = pty[s].owner
                                              /\ pty'[s].persistent = pty[s].persistent
<1> DEFINE n == nextStream
           r == call[c].req
<1>1. /\ n \in Streams /\ pty \in [Streams -> Pty] /\ pty[n] \in Pty
      /\ pty' = [pty EXCEPT ![n].owner = c, ![n].home = r.attach, ![n].persistent = r.attach \/ r.persistent]
  BY DEF TypeOK, Spawn
<1>2. \A s \in Streams \ {n} : pty'[s] = pty[s]
  BY <1>1
<1>3. pty'[n].owner = c /\ pty'[n].ring = pty[n].ring
  BY <1>1 DEF Pty
<1>. QED BY <1>1, <1>2, <1>3

\* The stations between which a connection moves without opening anything.
Resting == {"idle", "write", "close"}
Steady(d) ==
    \/ pc'[d] = pc[d] /\ call'[d].sid = call[d].sid
    \/ pc[d] \in Resting \cup {"off"} /\ pc'[d] \in Resting \cup {"leave"}

\* A connection that neither opens, receives nor draws anything keeps its part,
\* if the readers' progress shows on nothing it owns.
LEMMA ConnInvKept ==
    ASSUME CInv, NEW d \in Conns, Steady(d),
           opens'[d] = opens[d], connPtys'[d] \subseteq connPtys[d],
           queue'[d] = queue[d], screen'[d] = screen[d],
           \A s \in Streams : /\ subs'[s][d] = subs[s][d]
                              /\ pty'[s].ring \in Nat /\ pty'[s].ring >= pty[s].ring /\ Sent(s)' = Sent(s)
                              /\ pty'[s].owner = d <=> pty[s].owner = d
                              /\ reader[s] \in Ended => reader'[s] \in Ended
                              /\ (pty[s].owner = d /\ reader'[s] \in {"read", "broadcast"})
                                    => reader[s] \in {"read", "broadcast"}
    PROVE  ConnInv(d)'
<1> USE ChannelParts
<1>1. Bounded(d)'
  <2>1. ASSUME NEW i \in DOMAIN queue[d]
        PROVE  queue[d][i].sid \in Streams /\ queue[d][i].n \in Nat
    <3>1. queue[d][i] \in Frame
      OBVIOUS
    <3>. QED BY <3>1, BoundsAssumption DEF Frame
  <2>2. \A s \in Streams : screen[d][s] <= pty'[s].ring
    BY DEF Bounded
  <2>3. ASSUME NEW i \in DOMAIN queue[d], queue[d][i].kind \in {"replay", "raw"}
        PROVE  queue[d][i].n <= pty'[queue[d][i].sid].ring
    <3>1. queue[d][i].n <= pty[queue[d][i].sid].ring
      BY <2>3 DEF Bounded
    <3>. QED BY <2>1, <3>1
  <2>4. ASSUME NEW i \in DOMAIN queue[d]
        PROVE  /\ queue[d][i].kind = "raw" => queue[d][i].n >= 1
               /\ queue[d][i].kind = "exited" => reader'[queue[d][i].sid] \in Ended
    BY <2>1 DEF Bounded
  <2>. QED BY <2>2, <2>3, <2>4 DEF Bounded
<1>2. Holds(d)'
  BY DEF Holds, Holding, Acting, Steady, Resting, Receiving
<1>3. FirstOpen(d)'
  BY DEF FirstOpen, Fresh, Holding, Steady, Resting
<1>4. OneOpenView(d)'
  <2>1. pc'[d] = "reap" <=> pc[d] = "reap"
    BY DEF Steady, Resting
  <2>2. SUFFICES ASSUME opens[d] = 1, NEW s \in Streams
                 PROVE  /\ Seamless(queue[d], s)
                        /\ subs[s][d] > 0 => EndsWith(queue[d], s, Sent(s))
                        /\ pty'[s].owner = d =>
                              /\ \A i \in DOMAIN queue[d] : queue[d][i].kind # "replay"
                              /\ (s \in connPtys'[d] /\ pc'[d] # "reap") =>
                                    /\ reader'[s] \in {"read", "broadcast"} => subs[s][d] = 1
                                    /\ Waiting(queue[d], s, screen[d][s], Sent(s))
    BY DEF OneOpenView
  <2>. QED BY <2>1, <2>2 DEF OneOpenView
<1>. QED BY <1>1, <1>2, <1>3, <1>4 DEF ConnInv

\* A frame that is not output changes nothing in what a client draws: the
\* subscribers of s are told of a directory, or of the end.
LEMMA ConnInvTold ==
    ASSUME CInv, NEW d \in Conns, Steady(d), Receiving(d) => Receiving(d)',
           opens'[d] = opens[d], connPtys'[d] = connPtys[d], screen'[d] = screen[d],
           NEW s \in Streams, NEW f \in Frame, f.sid = s, f.kind \in {"cwd", "exited"}, Send(s, f),
           f.kind = "exited" => reader'[s] \in Ended,
           \A t \in Streams : /\ t # s => subs'[t][d] = subs[t][d]
                              /\ subs'[t][d] \in {0, subs[t][d]}
                              /\ (pc[d] = "start" /\ call[d].sid = t) => subs'[t][d] = subs[t][d]
                              /\ reader'[t] \in {"read", "broadcast"} /\ Receiving(d) => subs'[t][d] = subs[t][d]
                              /\ pty'[t].ring = pty[t].ring /\ Sent(t)' = Sent(t)
                              /\ pty'[t].owner = pty[t].owner
                              /\ reader[t] \in Ended => reader'[t] \in Ended
                              /\ reader'[t] \in {"read", "broadcast"} => reader[t] \in {"read", "broadcast"}
    PROVE  ConnInv(d)'
<1> DEFINE q == queue[d]
           r == queue'[d]
<1> USE ChannelParts
<1>0. /\ subs[s][d] = 0 \/ ~Receiving(d) => r = q
      /\ subs[s][d] = 1 /\ Receiving(d) => r = Append(q, f)
      /\ \A i \in DOMAIN r : (i \in DOMAIN q /\ r[i] = q[i]) \/ r[i] = f
  BY SendTo
<1>a. subs[s][d] <= 1 => r = q \/ r = Append(q, f)
  BY <1>0
<1>1. Bounded(d)'
  <2>1. ASSUME NEW i \in DOMAIN r
        PROVE  /\ r[i].kind \in {"replay", "raw"} => r[i].n <= pty'[r[i].sid].ring
               /\ r[i].kind = "raw" => r[i].n >= 1
               /\ r[i].kind = "exited" => reader'[r[i].sid] \in Ended
    <3>1. CASE i \in DOMAIN q /\ r[i] = q[i]
      <4>1. q[i] \in Frame
        BY <3>1
      <4>2. q[i].sid \in Streams
        BY <4>1 DEF Frame
      <4>. QED BY <3>1, <4>2 DEF Bounded
    <3>2. CASE r[i] = f
      BY <3>2
    <3>. QED BY <1>0, <3>1, <3>2
  <2>. QED BY <2>1 DEF Bounded
<1>2. Holds(d)'
  BY DEF Holds, Holding, Acting, Steady, Resting, Receiving
<1>3. FirstOpen(d)'
  <2>1. (Fresh(d) \/ (opens[d] = 1 /\ pc[d] \in {"subscribe", "register", "insert"})) => r = q
    BY <1>0 DEF FirstOpen
  <2>2. \A t \in Streams : subs[t][d] = 0 => subs'[t][d] = 0
    OBVIOUS
  <2>3. \A t \in Streams : subs[t][d] <= 1 => subs'[t][d] <= 1
    OBVIOUS
  <2>. QED BY <2>1, <2>2, <2>3 DEF FirstOpen, Fresh, Holding, Steady, Resting
<1>4. OneOpenView(d)'
  <2>1. pc'[d] = "reap" <=> pc[d] = "reap"
    BY DEF Steady, Resting
  <2>2. SUFFICES ASSUME opens[d] = 1, NEW t \in Streams
                 PROVE  /\ Seamless(r, t)
                        /\ subs'[t][d] > 0 => EndsWith(r, t, Sent(t))
                        /\ pty[t].owner = d =>
                              /\ \A i \in DOMAIN r : r[i].kind # "replay"
                              /\ (t \in connPtys[d] /\ pc[d] # "reap") =>
                                    /\ reader'[t] \in {"read", "broadcast"} => subs'[t][d] = 1
                                    /\ Waiting(r, t, screen[d][t], Sent(t))
    BY <2>1 DEF OneOpenView
  <2>3. r = q \/ r = Append(q, f)
    BY <1>a, <2>2 DEF FirstOpen
  <2>4. Noise(f, t) /\ f.kind # "raw"
    BY DEF Noise
  <2>8. /\ q \in Seq(Frame) /\ screen[d][t] \in Nat /\ Sent(t) \in Nat
        /\ Seamless(q, t)
        /\ subs[t][d] > 0 => EndsWith(q, t, Sent(t))
    BY <2>2 DEF OneOpenView
  <2>5. Seamless(r, t)
    <3>1. Seamless(Append(q, f), t)
      BY <2>4, <2>8, AppendSeamless
    <3>. QED BY <2>3, <2>8, <3>1
  <2>6. ASSUME subs'[t][d] > 0 PROVE EndsWith(r, t, Sent(t))
    <3>0. EndsWith(q, t, Sent(t))
      BY <2>6, <2>8
    <3>1. EndsWith(Append(q, f), t, Sent(t))
      BY <2>4, <2>8, <3>0, AppendEnds
    <3>. QED BY <2>3, <3>0, <3>1
  <2>7. ASSUME pty[t].owner = d
        PROVE  /\ \A i \in DOMAIN r : r[i].kind # "replay"
               /\ (t \in connPtys[d] /\ pc[d] # "reap") =>
                     /\ reader'[t] \in {"read", "broadcast"} => subs'[t][d] = 1
                     /\ Waiting(r, t, screen[d][t], Sent(t))
    <3>1. \A i \in DOMAIN r : r[i].kind # "replay"
      BY <1>0, <2>2, <2>7 DEF OneOpenView
    <3>2. ASSUME t \in connPtys[d], pc[d] # "reap" PROVE Waiting(r, t, screen[d][t], Sent(t))
      <4>1. Waiting(q, t, screen[d][t], Sent(t))
        BY <2>2, <2>7, <3>2 DEF OneOpenView
      <4>2. Waiting(Append(q, f), t, screen[d][t], Sent(t))
        BY <2>4, <2>8, <4>1, AppendWaiting
      <4>. QED BY <2>3, <4>1, <4>2
    <3>3. ASSUME t \in connPtys[d], pc[d] # "reap", reader'[t] \in {"read", "broadcast"} PROVE subs'[t][d] = 1
      BY <2>2, <2>7, <3>3 DEF OneOpenView, Holds
    <3>. QED BY <3>1, <3>2, <3>3
  <2>. QED BY <2>5, <2>6, <2>7
<1>. QED BY <1>1, <1>2, <1>3, <1>4 DEF ConnInv

\* A chunk the reader broadcasts follows what each subscriber has in its channel.
LEMMA ConnInvBroadcast ==
    ASSUME CInv, NEW s \in Streams, ReaderBroadcast(s), NEW d \in Conns
    PROVE  ConnInv(d)'
<1> DEFINE q == queue[d]
           r == queue'[d]
           f == [kind |-> "raw", sid |-> s, n |-> pty[s].ring]
<1> USE ChannelParts
<1>z. /\ UNCHANGED <<pty, pc, call, opens, connPtys, screen>>
      /\ reader[s] = "broadcast" /\ reader' = [reader EXCEPT ![s] = "read"]
      /\ Send(s, f) /\ Receiving(d)' = Receiving(d)
  BY DEF ReaderBroadcast, GoReader, Broadcast, tables, connVars, Receiving
<1>y. \A t \in Streams : /\ t # s => subs'[t][d] = subs[t][d]
                         /\ Receiving(d) => subs'[t][d] = subs[t][d]
                         /\ ~Receiving(d) => subs'[s][d] = 0
                         /\ subs'[t][d] \in {0, subs[t][d]}
  BY DEF ReaderBroadcast, Broadcast, TypeOK
<1>x. /\ f \in Frame /\ f.n >= 1 /\ pty[s].ring = Sent(s) + 1 /\ Sent(s)' = pty[s].ring
      /\ \A t \in Streams : t # s => Sent(t)' = Sent(t) /\ reader'[t] = reader[t]
      /\ reader'[s] = "read"
  BY <1>z DEF Frame, Pty, RingFills, Sent, TypeOK
<1>0. /\ subs[s][d] = 0 \/ ~Receiving(d) => r = q
      /\ subs[s][d] = 1 /\ Receiving(d) => r = Append(q, f)
      /\ \A i \in DOMAIN r : (i \in DOMAIN q /\ r[i] = q[i]) \/ r[i] = f
  BY <1>x, <1>z, SendTo
<1>1. Bounded(d)'
  <2>1. ASSUME NEW i \in DOMAIN r
        PROVE  /\ r[i].kind \in {"replay", "raw"} => r[i].n <= pty'[r[i].sid].ring
               /\ r[i].kind = "raw" => r[i].n >= 1
               /\ r[i].kind = "exited" => reader'[r[i].sid] \in Ended
    <3>1. CASE i \in DOMAIN q /\ r[i] = q[i]
      <4>1. q[i] \in Frame
        BY <3>1
      <4>2. q[i].sid \in Streams
        BY <4>1 DEF Frame
      <4>. QED BY <1>x, <1>z, <3>1, <4>2 DEF Bounded, Ended
    <3>2. CASE r[i] = f
      BY <1>x, <1>z, <3>2
    <3>. QED BY <1>0, <3>1, <3>2
  <2>. QED BY <1>z, <2>1 DEF Bounded
<1>2. Holds(d)'
  BY <1>y, <1>z DEF Holds, Holding, Acting, Receiving
<1>3. FirstOpen(d)'
  <2>1. (Fresh(d) \/ (opens[d] = 1 /\ pc[d] \in {"subscribe", "register", "insert"})) => r = q
    BY <1>0 DEF FirstOpen
  <2>. QED BY <1>y, <1>z, <2>1 DEF FirstOpen, Fresh, Holding
<1>4. OneOpenView(d)'
  <2>2. SUFFICES ASSUME opens[d] = 1, NEW t \in Streams
                 PROVE  /\ Seamless(r, t)
                        /\ subs'[t][d] > 0 => EndsWith(r, t, Sent(t)')
                        /\ pty[t].owner = d =>
                              /\ \A i \in DOMAIN r : r[i].kind # "replay"
                              /\ (t \in connPtys[d] /\ pc[d] # "reap") =>
                                    /\ reader'[t] \in {"read", "broadcast"} => subs'[t][d] = 1
                                    /\ Waiting(r, t, screen[d][t], Sent(t)')
    BY <1>z DEF OneOpenView
  <2>3. /\ subs[s][d] \in {0, 1}
        /\ q \in Seq(Frame) /\ screen[d][t] \in Nat /\ Sent(t) \in Nat
        /\ Seamless(q, t)
        /\ subs[t][d] > 0 => EndsWith(q, t, Sent(t))
    BY <2>2 DEF FirstOpen, OneOpenView
  <2>4. CASE subs[s][d] = 0 \/ ~Receiving(d)
    <3>1. r = q
      BY <1>0, <2>4
    <3>2. subs'[t][d] > 0 => EndsWith(r, t, Sent(t)')
      BY <1>x, <1>y, <2>3, <2>4, <3>1
    <3>3. ASSUME pty[t].owner = d, t \in connPtys[d], pc[d] # "reap"
          PROVE  /\ reader'[t] \in {"read", "broadcast"} => subs'[t][d] = 1
                 /\ Waiting(r, t, screen[d][t], Sent(t)')
      <4>1. Receiving(d)
        BY <3>3 DEF Holds
      <4>2. t # s
        BY <1>z, <2>2, <2>4, <3>3, <4>1 DEF OneOpenView
      <4>. QED BY <1>x, <1>y, <2>2, <3>1, <3>3, <4>2 DEF OneOpenView
    <3>. QED BY <2>2, <2>3, <3>1, <3>2, <3>3 DEF OneOpenView
  <2>5. CASE subs[s][d] = 1 /\ Receiving(d)
    <3>1. r = Append(q, f) /\ subs'[t][d] = subs[t][d]
      BY <1>0, <1>y, <2>5
    <3>2. CASE t # s
      <4>1. Noise(f, t) /\ ~(f.kind = "raw" /\ f.sid = t) /\ Sent(t)' = Sent(t) /\ reader'[t] = reader[t]
        BY <1>x, <3>2 DEF Noise
      <4>2. Seamless(r, t)
        BY <1>x, <2>3, <3>1, <4>1, AppendSeamless
      <4>3. ASSUME subs'[t][d] > 0 PROVE EndsWith(r, t, Sent(t)')
        <5>1. EndsWith(q, t, Sent(t))
          BY <2>3, <3>1, <4>3
        <5>2. EndsWith(r, t, Sent(t))
          BY <1>x, <2>3, <3>1, <4>1, <5>1, AppendEnds
        <5>. QED BY <4>1, <5>2
      <4>4. ASSUME pty[t].owner = d, t \in connPtys[d], pc[d] # "reap"
            PROVE  /\ reader'[t] \in {"read", "broadcast"} => subs'[t][d] = 1
                   /\ Waiting(r, t, screen[d][t], Sent(t)')
        <5>1. /\ Waiting(q, t, screen[d][t], Sent(t))
              /\ reader[t] \in {"read", "broadcast"} => subs[t][d] = 1
          BY <2>2, <4>4 DEF OneOpenView
        <5>2. Waiting(r, t, screen[d][t], Sent(t))
          BY <1>x, <2>3, <3>1, <4>1, <5>1, AppendWaiting
        <5>. QED BY <3>1, <4>1, <5>1, <5>2
      <4>5. pty[t].owner = d => \A i \in DOMAIN r : r[i].kind # "replay"
        BY <1>0, <2>2 DEF OneOpenView
      <4>. QED BY <4>2, <4>3, <4>4, <4>5
    <3>3. CASE t = s
      <4>1. /\ ~Noise(f, t) /\ f.kind = "raw" /\ f.sid = t /\ f.n = Sent(t) + 1 /\ Sent(t)' = Sent(t) + 1
            /\ subs[t][d] = 1
        BY <1>x, <2>5, <3>3 DEF Noise
      <4>2. Seamless(r, t)
        <5>1. ASSUME NEW i \in Drawn(q, t), \A k \in Drawn(q, t) : k <= i
              PROVE  IF q[i].kind = "raw" THEN f.n = q[i].n + 1 ELSE f.n >= q[i].n
          <6>1. CASE q[i].kind = "raw"
            BY <2>3, <4>1, <5>1, <6>1 DEF EndsWith
          <6>2. CASE q[i].kind # "raw"
            BY <3>3, <5>1, <6>2 DEF Bounded, Drawn
          <6>. QED BY <6>1, <6>2
        <5>. QED BY <1>x, <2>3, <3>1, <4>1, <5>1, AppendSeamless
      <4>3. EndsWith(r, t, Sent(t)')
        BY <1>x, <2>3, <3>1, <4>1, AppendEnds
      <4>4. ASSUME pty[t].owner = d, t \in connPtys[d], pc[d] # "reap"
            PROVE  /\ reader'[t] \in {"read", "broadcast"} => subs'[t][d] = 1
                   /\ Waiting(r, t, screen[d][t], Sent(t)')
        <5>1. Waiting(q, t, screen[d][t], Sent(t))
          BY <2>2, <4>4 DEF OneOpenView
        <5>2. q \in Seq(Frame) /\ screen[d][t] \in Nat /\ Sent(t) \in Nat /\ f \in Frame
          BY <1>x, <2>3
        <5>3. Waiting(Append(q, f), t, screen[d][t], Sent(t) + 1)
          <6> HIDE DEF f, q
          <6>. QED BY <4>1, <5>1, <5>2, AppendWaiting
        <5>. QED BY <3>1, <4>1, <5>3
      <4>5. pty[t].owner = d => \A i \in DOMAIN r : r[i].kind # "replay"
        BY <1>0, <2>2 DEF OneOpenView
      <4>. QED BY <4>2, <4>3, <4>4, <4>5
    <3>. QED BY <3>2, <3>3
  <2>. QED BY <2>3, <2>4, <2>5
<1>. QED BY <1>1, <1>2, <1>3, <1>4 DEF ConnInv

\* A connection that is over has nothing left.
LEMMA ConnInvFinished ==
    ASSUME CInv, NEW c \in Conns, Finish(c), pc'[c] \in {"closed", "crashed"}, pc[c] \notin {"lookup", "spawn"},
           opens'[c] = opens[c], UNCHANGED <<pty, reader>>,
           \A s \in Streams : subs'[s][c] \in {0, subs[s][c]}
    PROVE  ConnInv(c)'
<1> USE ChannelParts
<1>1. /\ queue'[c] = <<>> /\ connPtys'[c] = {} /\ DOMAIN <<>> = {}
      /\ \A s \in Streams : screen'[c][s] = 0
  BY DEF Finish, TypeOK
<1>2. \A s \in Streams : Seamless(<<>>, s) /\ EndsWith(<<>>, s, Sent(s)')
  BY DEF Seamless, EndsWith, Drawn
<1>3. FirstOpen(c)'
  BY <1>1 DEF FirstOpen, Fresh, Holding
<1>4. Bounded(c)' /\ Holds(c)'
  BY <1>1 DEF Bounded, Holds, Holding
<1>5. OneOpenView(c)'
  BY <1>1, <1>2 DEF OneOpenView
<1>. QED BY <1>3, <1>4, <1>5 DEF ConnInv

-----------------------------------------------------------------------------
(* The connection that acts *)

LEMMA OpenBeginConn ==
    ASSUME CInv, NEW c \in Conns, NEW r, OpenBegin(c, r)
    PROVE  ConnInv(c)'
<1> USE ChannelParts
<1>1. /\ pc'[c] = "lookup" /\ pc[c] = "idle" /\ opens'[c] = opens[c] + 1
      /\ UNCHANGED <<pty, subs, reader, queue, screen, connPtys>>
  BY DEF OpenBegin, Go, TypeOK, tables, streamVars, clientVars
<1>2. Bounded(c)' /\ Holds(c)'
  BY <1>1 DEF Bounded, Holds, Holding, Receiving
<1>3. FirstOpen(c)'
  BY <1>1 DEF FirstOpen, Fresh, Holding
<1>4. OneOpenView(c)'
  <2>1. SUFFICES ASSUME opens[c] = 0 PROVE OneOpenView(c)'
    BY <1>1 DEF OneOpenView
  <2>2. queue'[c] = <<>> /\ \A s \in Streams : pty'[s].owner # c /\ subs'[s][c] = 0
    BY <1>1, <2>1 DEF FirstOpen, Fresh
  <2>3. \A s \in Streams : Seamless(<<>>, s)
    BY DEF Seamless, Drawn
  <2>. QED BY <2>2, <2>3 DEF OneOpenView
<1>. QED BY <1>2, <1>3, <1>4 DEF ConnInv

LEMMA AttachReplayConn ==
    ASSUME CInv, NEW c \in Conns, AttachReplay(c)
    PROVE  ConnInv(c)'
<1> DEFINE s == AttachTarget(c)
           f == [kind |-> "replay", sid |-> s, n |-> pty[s].ring]
<1> USE ChannelParts
<1>1. /\ pc[c] = "lookup" /\ pc'[c] = "subscribe" /\ s \in Streams
      /\ queue'[c] = Append(queue[c], f)
      /\ UNCHANGED <<pty, subs, reader, opens, connPtys, screen>>
  BY AttachTargetListed DEF AttachReplay, Go, TypeOK, tables, streamVars
<1>2. f \in Frame
  BY <1>1 DEF Frame, Pty
<1> HIDE DEF s
<1>3. \A i \in DOMAIN queue'[c] : (i \in DOMAIN queue[c] /\ queue'[c][i] = queue[c][i]) \/ queue'[c][i] = f
  BY <1>1, <1>2, AppendFrames
<1>4. Bounded(c)'
  <2>1. ASSUME NEW i \in DOMAIN queue'[c]
        PROVE  LET g == queue'[c][i] IN
                 /\ g.kind \in {"replay", "raw"} => g.n <= pty'[g.sid].ring
                 /\ g.kind = "raw" => g.n >= 1
                 /\ g.kind = "exited" => reader'[g.sid] \in Ended
    BY <1>1, <1>3 DEF Bounded
  <2>. QED BY <1>1, <2>1 DEF Bounded
<1>5. Holds(c)' /\ FirstOpen(c)'
  <2>1. Holds(c)' /\ ~Fresh(c)'
    BY <1>1 DEF Holds, Holding, Receiving, Fresh
  <2>2. opens[c] = 1 => queue[c] = <<>> /\ \A t \in Streams : pty[t].owner # c /\ subs[t][c] = 0
    BY <1>1 DEF FirstOpen, Fresh
  <2>3. opens[c] = 1 => \A i \in DOMAIN queue'[c] : queue'[c][i].kind # "raw"
    BY <1>3, <2>2
  <2>. QED BY <1>1, <2>1, <2>2, <2>3 DEF FirstOpen, Holding
<1>6. OneOpenView(c)'
  <2>1. SUFFICES ASSUME opens[c] = 1 PROVE OneOpenView(c)'
    BY <1>1 DEF OneOpenView
  <2>2. queue[c] = <<>> /\ \A t \in Streams : pty'[t].owner # c /\ subs'[t][c] = 0
    BY <1>1, <2>1 DEF FirstOpen, Fresh
  <2>3. ASSUME NEW t \in Streams PROVE Seamless(queue'[c], t)
    <3>1. Seamless(queue[c], t)
      BY <2>2 DEF Seamless, Drawn
    <3>. QED BY <1>1, <1>2, <2>2, <3>1, AppendSeamless
  <2>. QED BY <2>2, <2>3 DEF OneOpenView
<1>. QED BY <1>4, <1>5, <1>6 DEF ConnInv

LEMMA AttachSubscribeConn ==
    ASSUME CInv, NEW c \in Conns, AttachSubscribe(c)
    PROVE  ConnInv(c)'
<1> DEFINE s == call[c].sid
<1> USE ChannelParts
<1>1. /\ pc[c] = "subscribe" /\ pc'[c] = "idle" /\ s \in Streams
      /\ UNCHANGED <<pty, reader, opens, queue, screen>>
      /\ subs'[s][c] = subs[s][c] + 1 /\ \A t \in Streams \ {s} : subs'[t][c] = subs[t][c]
  BY DEF AttachSubscribe, Answer, Go, TypeOK, Acting, tables, clientVars
<1>2. Bounded(c)' /\ Holds(c)' /\ FirstOpen(c)'
  <2>1. Bounded(c)' /\ Holds(c)' /\ ~Fresh(c)'
    BY <1>1 DEF Bounded, Holds, Holding, Receiving, Fresh
  <2>2. opens[c] = 1 => \A t \in Streams : subs'[t][c] <= 1
    BY <1>1 DEF FirstOpen
  <2>. QED BY <1>1, <2>1, <2>2 DEF FirstOpen, Holding
<1>3. OneOpenView(c)'
  <2>1. SUFFICES ASSUME opens[c] = 1 PROVE OneOpenView(c)'
    BY <1>1 DEF OneOpenView
  <2>2. \A t \in Streams : pty'[t].owner # c
    BY <1>1, <2>1 DEF FirstOpen
  <2>3. \A t \in Streams : EndsWith(queue[c], t, Sent(t)')
    BY <1>1, <2>1 DEF FirstOpen, EndsWith, Drawn
  <2>. QED BY <1>1, <2>1, <2>2, <2>3 DEF OneOpenView
<1>. QED BY <1>2, <1>3 DEF ConnInv

LEMMA OpenMissConn ==
    ASSUME CInv, NEW c \in Conns, OpenMiss(c) \/ SpawnFails(c)
    PROVE  ConnInv(c)'
<1> USE ChannelParts
<1>1. /\ \/ pc[c] = "lookup" /\ pc'[c] = "spawn"
         \/ pc[c] = "spawn" /\ pc'[c] = "idle"
      /\ UNCHANGED <<pty, subs, reader, opens, queue, screen, connPtys>>
  BY DEF OpenMiss, SpawnFails, Answer, Go, TypeOK, tables, streamVars, clientVars
<1>2. Bounded(c)' /\ Holds(c)' /\ FirstOpen(c)'
  BY <1>1 DEF Bounded, Holds, FirstOpen, Fresh, Holding, Receiving
<1>3. OneOpenView(c)'
  BY <1>1 DEF OneOpenView, Sent
<1>. QED BY <1>2, <1>3 DEF ConnInv

LEMMA SpawnConn ==
    ASSUME CInv, NEW c \in Conns, Spawn(c)
    PROVE  ConnInv(c)'
<1> DEFINE s == nextStream
<1> USE ChannelParts
<1>1. /\ pc[c] = "spawn" /\ pc'[c] \in {"register", "insert"} /\ s \in Streams /\ call'[c].sid = s
      /\ pty'[s].owner = c /\ \A t \in Streams \ {s} : pty'[t].owner = pty[t].owner
      /\ \A t \in Streams : pty'[t].ring = pty[t].ring
      /\ UNCHANGED <<subs, reader, opens, queue, screen, connPtys>>
  BY SpawnTerminal DEF Spawn, Go, TypeOK, NoCall, clientVars
<1>2. Bounded(c)'
  <2>1. ASSUME NEW i \in DOMAIN queue[c] PROVE queue[c][i].sid \in Streams
    <3>1. queue[c][i] \in Frame
      OBVIOUS
    <3>. QED BY <3>1 DEF Frame
  <2>. QED BY <1>1, <2>1 DEF Bounded
<1>3. Holds(c)' /\ FirstOpen(c)'
  BY <1>1 DEF Holds, FirstOpen, Fresh, Holding, Receiving
<1>4. OneOpenView(c)'
  <2>1. SUFFICES ASSUME opens[c] = 1 PROVE OneOpenView(c)'
    BY <1>1 DEF OneOpenView
  <2>2. queue'[c] = <<>> /\ connPtys'[c] = {} /\ \A t \in Streams : subs'[t][c] = 0
    BY <1>1, <2>1 DEF FirstOpen, Fresh
  <2>3. DOMAIN <<>> = {} /\ \A t \in Streams : Seamless(<<>>, t)
    BY DEF Seamless, Drawn
  <2>. QED BY <2>2, <2>3 DEF OneOpenView
<1>. QED BY <1>2, <1>3, <1>4 DEF ConnInv

LEMMA InsertConn ==
    ASSUME CInv, NEW c \in Conns, RegisterDefault(c) \/ Insert(c)
    PROVE  ConnInv(c)'
<1> DEFINE s == call[c].sid
<1> USE ChannelParts
<1>1. /\ s \in Streams
      /\ \/ pc[c] = "register" /\ pc'[c] = "insert" /\ UNCHANGED subs
         \/ /\ pc[c] = "insert" /\ pc'[c] = "start"
            /\ subs'[s][c] = 1 /\ \A t \in Streams \ {s} : subs'[t][c] = subs[t][c]
      /\ UNCHANGED <<pty, reader, call, opens, queue, screen, connPtys>>
  BY DEF RegisterDefault, Insert, Go, TypeOK, Acting, streamVars, clientVars
<1>2. Bounded(c)' /\ Holds(c)'
  BY <1>1 DEF Bounded, Holds, Holding, Receiving
<1>3. FirstOpen(c)'
  <2>1. ~Fresh(c)'
    BY <1>1 DEF Holds, Holding, Fresh
  <2>. QED BY <1>1, <2>1 DEF FirstOpen, Holding
<1>4. OneOpenView(c)'
  <2>1. SUFFICES ASSUME opens[c] = 1 PROVE OneOpenView(c)'
    BY <1>1 DEF OneOpenView
  <2>2. queue'[c] = <<>> /\ connPtys'[c] = {}
    BY <1>1, <2>1 DEF FirstOpen, Holding
  <2>3. DOMAIN <<>> = {} /\ \A t \in Streams : Seamless(<<>>, t) /\ EndsWith(<<>>, t, Sent(t)')
    BY DEF Seamless, EndsWith, Drawn
  <2>. QED BY <2>2, <2>3 DEF OneOpenView
<1>. QED BY <1>2, <1>3, <1>4 DEF ConnInv

LEMMA StartReaderConn ==
    ASSUME CInv, NEW c \in Conns, StartReader(c)
    PROVE  ConnInv(c)'
<1> DEFINE s == call[c].sid
<1> USE ChannelParts
<1>1. /\ pc[c] = "start" /\ pc'[c] = "idle" /\ s \in Streams
      /\ reader[s] = "none" /\ reader' = [reader EXCEPT ![s] = "read"]
      /\ connPtys'[c] = connPtys[c] \cup {s}
      /\ UNCHANGED <<pty, subs, opens, queue, screen>>
      /\ pty[s].owner = c /\ subs[s][c] = 1
  BY DEF StartReader, GoReader, Answer, Go, TypeOK, Own, Acting, Holding, Holds, tables, clientVars
<1>2. \A t \in Streams : Sent(t)' = Sent(t)
  BY <1>1 DEF Sent, TypeOK
<1>3. Bounded(c)'
  <2>1. ASSUME NEW i \in DOMAIN queue[c]
        PROVE  queue[c][i].kind = "exited" => reader'[queue[c][i].sid] \in Ended
    <3>1. queue[c][i] \in Frame
      OBVIOUS
    <3>2. queue[c][i].sid \in Streams
      BY <3>1 DEF Frame
    <3>. QED BY <1>1, <3>2 DEF Bounded, Ended, TypeOK
  <2>. QED BY <1>1, <2>1 DEF Bounded
<1>4. Holds(c)' /\ FirstOpen(c)'
  BY <1>1 DEF Holds, FirstOpen, Fresh, Holding, Receiving
<1>5. OneOpenView(c)'
  <2>1. SUFFICES ASSUME opens[c] = 1 PROVE OneOpenView(c)'
    BY <1>1 DEF OneOpenView
  <2>2. connPtys'[c] = {s}
    BY <1>1, <2>1 DEF FirstOpen, Holding
  <2>3. Waiting(queue[c], s, screen[c][s], Sent(s))
    <3>1. pty[s].ring = 0 /\ Sent(s) = 0 /\ screen[c][s] = 0
      BY <1>1 DEF RingFills, Sent, Bounded
    <3>2. Raw(queue[c], s) = {}
      <4>1. ASSUME NEW i \in Raw(queue[c], s) PROVE FALSE
        <5>1. i \in DOMAIN queue[c] /\ queue[c][i] \in Frame /\ queue[c][i].kind = "raw" /\ queue[c][i].sid = s
          BY DEF Raw
        <5>2. queue[c][i].n <= 0 /\ queue[c][i].n >= 1 /\ queue[c][i].n \in Nat
          BY <3>1, <5>1, BoundsAssumption DEF Bounded, Frame
        <5>. QED BY <5>2
      <4>. QED BY <4>1
    <3>3. (0 + 1)..0 = {}
      OBVIOUS
    <3>. QED BY <3>1, <3>2, <3>3 DEF Waiting
  <2>. QED BY <1>1, <1>2, <2>1, <2>2, <2>3 DEF OneOpenView
<1>. QED BY <1>3, <1>4, <1>5 DEF ConnInv

\* A connection that leaves sessions to collect only unsubscribes.
LEMMA LeaveCollectConn ==
    ASSUME CInv, NEW c \in Conns, LeaveCollect(c)
    PROVE  ConnInv(c)'
<1> USE ChannelParts
<1>1. /\ pc[c] = "leave" /\ UNCHANGED <<pty, reader, opens>>
      /\ \A s \in Streams : subs'[s][c] \in {0, subs[s][c]}
  BY DEF LeaveCollect, Go, TypeOK, Unsubscribed
<1>2. CASE pc'[c] = "closed" /\ Finish(c)
  BY <1>1, <1>2, ConnInvFinished
<1>3. CASE pc'[c] = "reap" /\ UNCHANGED <<call, connPtys, queue, screen>>
  <2>1. Bounded(c)' /\ Holds(c)' /\ FirstOpen(c)'
    BY <1>1, <1>3 DEF Bounded, Holds, FirstOpen, Fresh, Holding, Receiving
  <2>2. OneOpenView(c)'
    BY <1>1, <1>3 DEF OneOpenView, Sent
  <2>. QED BY <2>1, <2>2 DEF ConnInv
<1>. QED BY <1>2, <1>3 DEF LeaveCollect, Go, TypeOK, clientVars

LEMMA DeliverConn ==
    ASSUME CInv, NEW c \in Conns, Deliver(c)
    PROVE  ConnInv(c)'
<1> DEFINE q == queue[c]
           r == queue'[c]
           f == Head(q)
<1> USE ChannelParts
<1>1. /\ pc[c] = "idle" /\ q # <<>> /\ r = Tail(q)
      /\ UNCHANGED <<pty, subs, reader, pc, call, opens>>
      /\ connPtys'[c] \subseteq connPtys[c]
  BY DEF Deliver, TypeOK, tables, streamVars
<1>2. /\ f = q[1] /\ f \in Frame /\ DOMAIN q = 1..Len(q) /\ Len(q) \in Nat /\ Len(q) >= 1
      /\ DOMAIN r = 1..(Len(q) - 1) /\ \A i \in 1..(Len(q) - 1) : r[i] = q[i + 1]
  BY <1>1, TailFrames
<1>3. /\ f.sid \in Streams /\ f.n \in Nat
      /\ f.kind \in {"replay", "raw"} => screen'[c] = [screen[c] EXCEPT ![f.sid] = f.n]
      /\ f.kind \notin {"replay", "raw"} => screen'[c] = screen[c]
      /\ f.kind \in {"replay", "raw"} => f.n <= pty[f.sid].ring
      /\ screen[c] \in [Streams -> 0..MaxOut]
  <2>1. f.sid \in Streams /\ f.n \in Nat
    BY <1>2, BoundsAssumption DEF Frame
  <2>2. f.kind \in {"replay", "raw"} => f.n <= pty[f.sid].ring
    <3>1. 1 \in DOMAIN q /\ f = q[1]
      BY <1>2
    <3>. QED BY <3>1 DEF Bounded
  <2>3. screen \in [Conns -> [Streams -> 0..MaxOut]]
    BY DEF TypeOK
  <2>. QED BY <2>1, <2>2, <2>3 DEF Deliver
<1>a. \A t \in Streams : Sent(t)' = Sent(t)
  BY <1>1 DEF Sent
<1>b. ASSUME NEW i \in DOMAIN r PROVE \E j \in DOMAIN q : r[i] = q[j]
  <2>1. i + 1 \in DOMAIN q /\ r[i] = q[i + 1]
    BY <1>2
  <2>. QED BY <2>1
<1> HIDE DEF f, q, r
<1>4. Bounded(c)'
  <2>1. \A s \in Streams : screen'[c][s] <= pty'[s].ring
    BY <1>1, <1>3 DEF Bounded
  <2>2. ASSUME NEW i \in DOMAIN r
        PROVE  /\ r[i].kind \in {"replay", "raw"} => r[i].n <= pty'[r[i].sid].ring
               /\ r[i].kind = "raw" => r[i].n >= 1
               /\ r[i].kind = "exited" => reader'[r[i].sid] \in Ended
    BY <1>1, <1>b DEF Bounded, q
  <2>. QED BY <2>1, <2>2 DEF Bounded, r
<1>5. Holds(c)'
  BY <1>1 DEF Holds, Holding, Receiving
<1>6. FirstOpen(c)'
  BY <1>1, <1>2 DEF FirstOpen, Fresh, Holding, q
<1>7. OneOpenView(c)'
  <2>1. SUFFICES ASSUME opens[c] = 1, NEW t \in Streams
                 PROVE  /\ Seamless(r, t)
                        /\ subs[t][c] > 0 => EndsWith(r, t, Sent(t))
                        /\ pty[t].owner = c =>
                              /\ \A i \in DOMAIN r : r[i].kind # "replay"
                              /\ t \in connPtys'[c] =>
                                    /\ reader[t] \in {"read", "broadcast"} => subs[t][c] = 1
                                    /\ Waiting(r, t, screen'[c][t], Sent(t))
    BY <1>1, <1>a DEF OneOpenView, r
  <2>2. q \in Seq(Frame) /\ Seamless(q, t) /\ screen[c][t] \in Nat /\ Sent(t) \in Nat
    BY <2>1 DEF OneOpenView, q
  <2>3. Seamless(r, t)
    BY <1>1, <2>2, TailSeamless
  <2>4. ASSUME subs[t][c] > 0 PROVE EndsWith(r, t, Sent(t))
    <3>1. EndsWith(q, t, Sent(t))
      BY <2>1, <2>4 DEF OneOpenView, q
    <3>. QED BY <1>1, <2>2, <3>1, TailEnds
  <2>5. ASSUME pty[t].owner = c PROVE \A i \in DOMAIN r : r[i].kind # "replay"
    BY <1>b, <2>1, <2>5 DEF OneOpenView, q
  <2>6. ASSUME pty[t].owner = c, t \in connPtys'[c] PROVE Waiting(r, t, screen'[c][t], Sent(t))
    <3>1. Waiting(q, t, screen[c][t], Sent(t)) /\ f.kind # "replay"
      BY <1>1, <1>2, <2>1, <2>6 DEF OneOpenView, q
    <3>2. CASE f.kind = "raw" /\ f.sid = t
      <4>1. 1 \in Raw(q, t)
        BY <1>2, <3>2 DEF Raw
      <4>2. f.n = screen[c][t] + 1 /\ Waiting(r, t, screen[c][t] + 1, Sent(t))
        BY <1>1, <2>2, <3>1, <4>1, TailWaiting DEF f
      <4>3. screen'[c][t] = f.n
        BY <1>3, <3>2
      <4>. QED BY <4>2, <4>3
    <3>3. CASE ~(f.kind = "raw" /\ f.sid = t)
      <4>1. 1 \notin Raw(q, t)
        BY <1>2, <3>3 DEF Raw
      <4>2. Waiting(r, t, screen[c][t], Sent(t))
        BY <1>1, <2>2, <3>1, <4>1, TailWaiting
      <4>3. screen'[c][t] = screen[c][t]
        BY <1>3, <3>1, <3>3
      <4>. QED BY <4>2, <4>3
    <3>. QED BY <3>2, <3>3
  <2>7. ASSUME pty[t].owner = c, t \in connPtys'[c], reader[t] \in {"read", "broadcast"} PROVE subs[t][c] = 1
    BY <1>1, <2>1, <2>7 DEF OneOpenView
  <2>. QED BY <2>3, <2>4, <2>5, <2>6, <2>7
<1>. QED BY <1>4, <1>5, <1>6, <1>7 DEF ConnInv

\* A connection that neither opens nor receives anything, the one that acts.
LEMMA RestingConn ==
    ASSUME CInv, NEW c \in Conns,
           \/ Connect(c) \/ Disconnect(c) \/ CloseEnd(c)
           \/ \E s \in Published : CloseBegin(c, s) \/ InputBegin(c, s)
    PROVE  ConnInv(c)'
<1> USE ChannelParts
<1>1. /\ Steady(c) /\ UNCHANGED <<opens, queue, screen, subs, reader>>
      /\ connPtys'[c] \subseteq connPtys[c]
      /\ \A s \in Streams : pty'[s].ring = pty[s].ring /\ pty'[s].owner = pty[s].owner
  <2>1. CASE Connect(c) \/ Disconnect(c)
    BY <2>1 DEF Connect, Disconnect, Go, TypeOK, Steady, Resting, streamVars, clientVars
  <2>2. CASE CloseEnd(c)
    <3>1. call[c].sid \in Streams
      BY <2>2 DEF CloseEnd, Answer, Go, Acting
    <3>. QED BY <2>2, <3>1, SameTerminals DEF CloseEnd, Answer, Go, TypeOK, Steady, Resting, clientVars
  <2>3. CASE \E s \in Published : CloseBegin(c, s) \/ InputBegin(c, s)
    BY <2>3 DEF CloseBegin, InputBegin, Go, TypeOK, Steady, Resting, streamVars, clientVars
  <2>. QED BY <2>1, <2>2, <2>3
<1>2. \A s \in Streams : Sent(s)' = Sent(s)
  BY <1>1 DEF Sent
<1>. QED BY <1>1, <1>2, ConnInvKept

-----------------------------------------------------------------------------
(* The connections that look on *)

LEMMA OnlookerKept ==
    ASSUME CInv, NEW c \in Conns, ClientStep(c) \/ ConnStep(c) \/ Deliver(c), NEW d \in Conns, d # c
    PROVE  ConnInv(d)'
<1> USE ChannelParts
<1> DEFINE Here == /\ pc'[d] = pc[d] /\ call'[d] = call[d] /\ opens'[d] = opens[d]
                   /\ connPtys'[d] = connPtys[d] /\ queue'[d] = queue[d] /\ screen'[d] = screen[d]
                   /\ \A s \in Streams : subs'[s][d] = subs[s][d]
           Terminals == \A s \in Streams : /\ pty'[s].ring = pty[s].ring
                                           /\ pty'[s].owner = d <=> pty[s].owner = d
           Readers == \A s \in Streams :
                         \/ reader'[s] = reader[s]
                         \/ reader[s] = "none" /\ reader'[s] = "read" /\ pty[s].owner # d
<1>1. Here /\ Terminals /\ Readers
  <2>1. CASE ClientStep(c)
    BY <2>1 DEF ClientStep, Connect, Disconnect, OpenBegin, CloseBegin, InputBegin, Go, TypeOK,
       tables, streamVars, clientVars
  <2>2. CASE Deliver(c)
    BY <2>2 DEF Deliver, TypeOK, tables, streamVars
  <2>3. CASE AttachReplay(c) \/ OpenMiss(c) \/ SpawnFails(c) \/ RegisterDefault(c)
    BY <2>3 DEF AttachReplay, OpenMiss, SpawnFails, RegisterDefault, Answer, Go, TypeOK, tables, streamVars,
       clientVars
  <2>9. CASE AttachSubscribe(c) \/ Insert(c)
    <3>1. call[c].sid \in Streams
      BY <2>9 DEF AttachSubscribe, Insert, Answer, Go, Acting
    <3>2. \A t \in Streams : subs[t] \in [Conns -> Nat]
      BY DEF TypeOK
    <3>3. \A t \in Streams : subs'[t][d] = subs[t][d]
      <4>1. CASE AttachSubscribe(c)
        BY <3>1, <3>2, <4>1 DEF AttachSubscribe, TypeOK
      <4>2. CASE Insert(c)
        BY <3>1, <3>2, <4>2 DEF Insert, TypeOK
      <4>. QED BY <2>9, <4>1, <4>2
    <3>4. /\ UNCHANGED <<pty, reader, opens, queue, screen>>
          /\ connPtys'[d] = connPtys[d] /\ pc'[d] = pc[d] /\ call'[d] = call[d]
      <4>1. CASE AttachSubscribe(c)
        BY <4>1 DEF AttachSubscribe, Answer, Go, TypeOK, Own, tables, clientVars
      <4>2. CASE Insert(c)
        BY <4>2 DEF Insert, Go, TypeOK, clientVars
      <4>. QED BY <2>9, <4>1, <4>2
    <3>. QED BY <3>3, <3>4
  <2>4. CASE Spawn(c)
    <3>1. pty[nextStream].owner # d
      BY <2>4, ConnsAssumption DEF Spawn, RingFills, TypeOK
    <3>2. Terminals
      BY <2>4, <3>1, SpawnTerminal
    <3>3. Here /\ Readers
      BY <2>4 DEF Spawn, Go, TypeOK, clientVars
    <3>. QED BY <3>2, <3>3
  <2>5. CASE StartReader(c)
    <3>1. call[c].sid \in Streams /\ pty[call[c].sid].owner = c
      BY <2>5 DEF StartReader, Answer, Go, Acting, Holding, Holds
    <3>. QED BY <2>5, <3>1 DEF StartReader, GoReader, Answer, Go, TypeOK, Own, tables, clientVars
  <2>6. CASE StartPanics(c) \/ LeaveRemove(c)
    BY <2>6 DEF StartPanics, LeaveRemove, Finish, Go, TypeOK, tables, streamVars
  <2>7. CASE LeaveCollect(c)
    BY <2>7 DEF LeaveCollect, Finish, Unsubscribed, Go, TypeOK, tables, clientVars
  <2>8. CASE CloseEnd(c)
    <3>1. call[c].sid \in Streams
      BY <2>8 DEF CloseEnd, Answer, Go, Acting
    <3>. QED BY <2>8, <3>1, SameTerminals DEF CloseEnd, Answer, Go, TypeOK, clientVars
  <2>. QED BY <2>1, <2>2, <2>3, <2>4, <2>5, <2>6, <2>7, <2>8, <2>9 DEF ConnStep
<1>2. \A s \in Streams : Sent(s)' = Sent(s)
  BY <1>1 DEF Sent
<1>3. \A s \in Streams : /\ reader[s] \in Ended => reader'[s] \in Ended
                         /\ (pty[s].owner = d /\ reader'[s] \in {"read", "broadcast"})
                               => reader[s] \in {"read", "broadcast"}
  BY <1>1 DEF Ended
<1>. QED BY <1>1, <1>2, <1>3, ConnInvKept DEF Steady

LEMMA InputEndView ==
    ASSUME CInv, NEW c \in Conns, InputEnd(c), NEW d \in Conns
    PROVE  ConnInv(d)'
<1> DEFINE s == call[c].sid
           f == [kind |-> "cwd", sid |-> s, n |-> 0]
<1> USE ChannelParts
<1>1. /\ pc[c] = "write" /\ pc' = [pc EXCEPT ![c] = "idle"] /\ call' = [call EXCEPT ![c] = NoCall]
      /\ UNCHANGED <<reader, opens, connPtys, screen>> /\ s \in Streams
  BY DEF InputEnd, Answer, Go, Acting, tables
<1>2. /\ Steady(d) /\ Receiving(d)' = Receiving(d)
      /\ pc[d] = "start" => d # c
  BY <1>1 DEF Steady, Resting, Receiving, TypeOK
<1>3. \A t \in Streams : pty'[t].ring = pty[t].ring /\ pty'[t].owner = pty[t].owner /\ Sent(t)' = Sent(t)
  BY <1>1, SameTerminals DEF Sent
<1>4. CASE UNCHANGED <<queue, subs>>
  BY <1>1, <1>2, <1>3, <1>4, ConnInvKept
<1>5. CASE Broadcast(s, f)
  <2>1. f \in Frame /\ Send(s, f)
    BY <1>1, <1>5, BoundsAssumption DEF Frame, Broadcast
  <2>2. \A t \in Streams : subs'[t][d] = IF t # s \/ Receiving(d) THEN subs[t][d] ELSE 0
    BY <1>1, <1>5 DEF Broadcast, TypeOK
  <2>3. ASSUME NEW t \in Streams
        PROVE  /\ t # s => subs'[t][d] = subs[t][d]
               /\ subs'[t][d] \in {0, subs[t][d]}
               /\ (pc[d] = "start" /\ call[d].sid = t) => subs'[t][d] = subs[t][d]
               /\ Receiving(d) => subs'[t][d] = subs[t][d]
    BY <2>2 DEF Receiving
  <2> HIDE DEF s
  <2>. QED BY <1>1, <1>2, <1>3, <2>1, <2>3, ConnInvTold
<1>. QED BY <1>4, <1>5 DEF InputEnd

LEMMA ReaderView ==
    ASSUME CInv, NEW s \in Streams, ReaderExtend(s) \/ ReaderStep(s), NEW d \in Conns
    PROVE  ConnInv(d)'
<1> USE ChannelParts
<1>1. CASE ReaderBroadcast(s)
  BY <1>1, ConnInvBroadcast
<1>2. CASE ReaderExtend(s)
  <2>1. /\ UNCHANGED <<pc, call, opens, connPtys, queue, screen, subs>>
        /\ reader[s] = "read" /\ reader' = [reader EXCEPT ![s] = "broadcast"]
        /\ \A t \in Streams : pty'[t].owner = pty[t].owner
        /\ pty'[s].ring = pty[s].ring + 1 /\ \A t \in Streams \ {s} : pty'[t].ring = pty[t].ring
    BY <1>2 DEF ReaderExtend, GoReader, TypeOK, Pty, tables, connVars, clientVars
  <2>3. ASSUME NEW t \in Streams
        PROVE  Sent(t)' = Sent(t) /\ pty'[t].ring \in Nat /\ pty'[t].ring >= pty[t].ring
    <3>1. CASE t = s
      <4>1. reader'[s] = "broadcast" /\ reader[s] = "read" /\ pty'[s].ring = pty[s].ring + 1 /\ pty[s].ring \in Nat
        BY <2>1 DEF TypeOK
      <4>2. Sent(s) = pty[s].ring - 0 /\ Sent(s)' = pty'[s].ring - 1
        BY <4>1 DEF Sent
      <4>. QED BY <3>1, <4>1, <4>2
    <3>2. CASE t # s
      BY <2>1, <3>2 DEF Sent, TypeOK
    <3>. QED BY <3>1, <3>2
  <2>2. \A t \in Streams : /\ reader[t] \in Ended => reader'[t] \in Ended
                           /\ reader'[t] \in {"read", "broadcast"} => reader[t] \in {"read", "broadcast"}
    BY <2>1 DEF Ended, TypeOK
  <2>. QED BY <2>1, <2>2, <2>3, ConnInvKept DEF Steady
<1>3. CASE ReaderEof(s) \/ ReaderReap(s) \/ ReaderRemove(s) \/ ReaderUndefault(s)
  <2>1. /\ UNCHANGED <<pc, call, opens, connPtys, queue, screen, subs, pty>>
        /\ \A t \in Streams : /\ reader'[t] = "broadcast" <=> reader[t] = "broadcast"
                              /\ reader[t] \in Ended => reader'[t] \in Ended
                              /\ reader'[t] \in {"read", "broadcast"} => reader[t] \in {"read", "broadcast"}
    BY <1>3 DEF ReaderEof, ReaderReap, ReaderRemove, ReaderUndefault, GoReader, TypeOK, Ended, tables, connVars,
       clientVars
  <2>2. \A t \in Streams : Sent(t)' = Sent(t)
    BY <2>1 DEF Sent
  <2>. QED BY <2>1, <2>2, ConnInvKept DEF Steady
<1>4. CASE ReaderReport(s)
  <2> DEFINE f == [kind |-> "exited", sid |-> s, n |-> 0]
  <2>1. /\ UNCHANGED <<pc, call, opens, connPtys, screen, pty>> /\ Send(s, f) /\ f \in Frame
        /\ reader[s] = "report" /\ reader' = [reader EXCEPT ![s] = "remove"]
        /\ subs' = [subs EXCEPT ![s] = [e \in Conns |-> 0]]
    BY <1>4, BoundsAssumption DEF ReaderReport, GoReader, tables, connVars, Frame
  <2>2. Steady(d) /\ Receiving(d)' = Receiving(d)
    BY <2>1 DEF Steady, Receiving
  <2>3. pc[d] = "start" => call[d].sid # s
    BY <2>1, Parts DEF OpenerAlone, Holding
  <2>4. \A t \in Streams : Sent(t)' = Sent(t)
    BY <2>1 DEF Sent, TypeOK
  <2>5. ASSUME NEW t \in Streams
        PROVE  /\ t # s => subs'[t][d] = subs[t][d]
               /\ subs'[t][d] \in {0, subs[t][d]}
               /\ (pc[d] = "start" /\ call[d].sid = t) => subs'[t][d] = subs[t][d]
               /\ reader'[t] \in {"read", "broadcast"} => subs'[t][d] = subs[t][d]
               /\ reader[t] \in Ended => reader'[t] \in Ended
               /\ reader'[t] \in {"read", "broadcast"} => reader[t] \in {"read", "broadcast"}
    BY <2>1, <2>3 DEF TypeOK, Ended
  <2>6. reader'[s] \in Ended
    BY <2>1 DEF TypeOK, Ended
  <2>. QED BY <2>1, <2>2, <2>4, <2>5, <2>6, ConnInvTold
<1>. QED BY <1>1, <1>2, <1>3, <1>4 DEF ReaderStep

-----------------------------------------------------------------------------
(* Owners and rings *)

LEMMA RingFillsStep ==
    ASSUME CInv, Next
    PROVE  RingFills'
<1> USE ChannelParts
<1>1. ASSUME NEW c \in Conns, Spawn(c) PROVE RingFills'
  <2>1. /\ nextStream' = nextStream + 1 /\ nextStream \in Nat /\ UNCHANGED reader
        /\ \A s \in Streams : pty'[s].ring = pty[s].ring
        /\ \A s \in Streams \ {nextStream} : pty'[s].owner = pty[s].owner
    <3>1. nextStream' = nextStream + 1 /\ UNCHANGED reader
      BY <1>1 DEF Spawn, NextId
    <3>2. nextStream \in Nat
      BY DEF TypeOK
    <3>. QED BY <1>1, <3>1, <3>2, SpawnTerminal
  <2>2. Streams \subseteq Nat
    BY DEF Streams
  <2>. QED BY <2>1, <2>2 DEF RingFills
<1>2. ASSUME NEW c \in Conns, StartReader(c) PROVE RingFills'
  BY <1>2 DEF StartReader, GoReader, RingFills, TypeOK, tables
<1>3. ASSUME NEW c \in Conns, CloseEnd(c) \/ InputEnd(c) PROVE RingFills'
  <2>1. call[c].sid \in Streams
    BY <1>3 DEF CloseEnd, InputEnd, Answer, Go, Acting
  <2>. QED BY <1>3, <2>1, SameTerminals DEF CloseEnd, InputEnd, RingFills, tables
<1>4. ASSUME NEW c \in Conns, ClientStep(c) \/ ConnStep(c) \/ Deliver(c),
             ~Spawn(c), ~StartReader(c), ~CloseEnd(c)
      PROVE  RingFills'
  <2>1. UNCHANGED <<nextStream, pty, reader>>
    BY <1>4 DEF ClientStep, Connect, Disconnect, OpenBegin, CloseBegin, InputBegin, ConnStep, AttachReplay,
       AttachSubscribe, OpenMiss, SpawnFails, RegisterDefault, Insert, StartPanics, LeaveCollect, LeaveRemove,
       Deliver, tables, streamVars
  <2>. QED BY <2>1 DEF RingFills
<1>5. ASSUME NEW s \in Streams, ReaderExtend(s) PROVE RingFills'
  BY <1>5 DEF ReaderExtend, GoReader, RingFills, TypeOK, Pty, tables
<1>6. ASSUME NEW s \in Streams, ReaderStep(s) \/ ChildExit(s) \/ ChildDetach(s) PROVE RingFills'
  <2>1. UNCHANGED <<nextStream, pty>>
    BY <1>6 DEF ReaderStep, ReaderBroadcast, ReaderEof, ReaderReap, ReaderReport, ReaderRemove, ReaderUndefault,
       ChildExit, ChildDetach, tables
  <2>2. \A t \in Streams : /\ reader'[t] = "none" => reader[t] = "none"
                           /\ reader'[t] = "broadcast" => reader[t] = "broadcast"
    BY <1>6 DEF ReaderStep, ReaderBroadcast, ReaderEof, ReaderReap, ReaderReport, ReaderRemove, ReaderUndefault,
       ChildExit, ChildDetach, GoReader, TypeOK
  <2>. QED BY <2>1, <2>2 DEF RingFills
<1>. QED BY <1>1, <1>2, <1>3, <1>4, <1>5, <1>6 DEF Next

\* A step of c's connection task leaves a temporary session on its owner's list.
LEMMA OwnerAnswersConn ==
    ASSUME CInv, NEW c \in Conns, ClientStep(c) \/ ConnStep(c) \/ Deliver(c) \/ InputEnd(c)
    PROVE  OwnerAnswers'
<1> USE ChannelParts
<1> DEFINE Answers(s) == LET d == pty[s].owner IN
               /\ d \in Conns
               /\ \/ pty[s].persistent
                  \/ reader[s] = "remove"
                  \/ pc[d] = "start" /\ call[d].sid = s
                  \/ pc[d] \notin {"reap", "closed"} /\ s \in connPtys[d]
                  \/ pc[d] = "reap" /\ s \in doomed[d]
                  \/ pc[d] = "crashed"
           Same(s) == pty'[s].owner = pty[s].owner /\ pty'[s].persistent = pty[s].persistent
<1>0. /\ sessions \subseteq Streams
      /\ \A s \in sessions : Answers(s) /\ s < nextStream
      /\ \A d \in Conns : pc[d] \in ConnState
  BY Parts DEF OwnerAnswers, IssuedOnly, TypeOK
<1>1. CASE ClientStep(c)
  <2>1. /\ UNCHANGED <<sessions, pty, reader, connPtys, doomed>>
        /\ pc[c] \in {"off", "idle"} /\ pc'[c] \in ConnState \ {"reap", "closed"}
        /\ \A d \in Conns \ {c} : pc'[d] = pc[d] /\ call'[d] = call[d]
    BY <1>1 DEF ClientStep, Connect, Disconnect, OpenBegin, CloseBegin, InputBegin, Go, TypeOK, ConnState,
       tables, streamVars, clientVars
  <2>. QED BY <1>0, <2>1 DEF OwnerAnswers
<1>2. CASE AttachReplay(c) \/ AttachSubscribe(c) \/ OpenMiss(c) \/ SpawnFails(c) \/ RegisterDefault(c)
  <2>1. /\ UNCHANGED <<sessions, pty, reader, doomed>>
        /\ pc[c] \in {"lookup", "subscribe", "spawn", "register"} /\ pc'[c] \in ConnState \ {"reap", "closed"}
        /\ \A d \in Conns \ {c} : pc'[d] = pc[d] /\ call'[d] = call[d]
    BY <1>2 DEF AttachReplay, AttachSubscribe, OpenMiss, SpawnFails, RegisterDefault, Answer, Go, TypeOK,
       ConnState, tables, streamVars
  <2>2. \A d \in Conns : connPtys[d] \subseteq connPtys'[d]
    <3>1. CASE AttachSubscribe(c)
      BY <3>1 DEF AttachSubscribe, Own, TypeOK
    <3>2. CASE ~AttachSubscribe(c)
      BY <1>2, <3>2 DEF AttachReplay, OpenMiss, SpawnFails, RegisterDefault
    <3>. QED BY <3>1, <3>2
  <2>. QED BY <1>0, <2>1, <2>2 DEF OwnerAnswers
<1>3. CASE Spawn(c)
  <2>1. /\ UNCHANGED <<sessions, reader, connPtys, doomed>>
        /\ pc[c] = "spawn" /\ pc'[c] \in ConnState \ {"reap", "closed"}
        /\ \A d \in Conns \ {c} : pc'[d] = pc[d] /\ call'[d] = call[d]
        /\ \A s \in sessions : Same(s)
    <3>1. nextStream \notin sessions
      BY <1>0, <1>3 DEF TypeOK
    <3>2. \A s \in sessions : Same(s)
      BY <1>0, <1>3, <3>1, SpawnTerminal
    <3>. QED BY <1>3, <3>2 DEF Spawn, Go, TypeOK, ConnState
  <2>. QED BY <1>0, <2>1 DEF OwnerAnswers
<1>4. CASE Insert(c)
  <2> DEFINE n == call[c].sid
  <2>1. /\ sessions' = sessions \cup {n} /\ UNCHANGED <<pty, reader, call, connPtys, doomed>>
        /\ pc[c] = "insert" /\ pc'[c] = "start" /\ pty[n].owner = c
        /\ \A d \in Conns \ {c} : pc'[d] = pc[d]
    BY <1>4 DEF Insert, Go, TypeOK, Holds, Holding
  <2>. QED BY <1>0, <2>1 DEF OwnerAnswers
<1>5. CASE StartReader(c)
  <2> DEFINE n == call[c].sid
  <2>1. /\ UNCHANGED <<sessions, pty, doomed>> /\ pty[n].owner = c
        /\ \A s \in Streams : reader[s] = "remove" => reader'[s] = "remove"
        /\ pc[c] = "start" /\ pc'[c] = "idle"
        /\ \A d \in Conns \ {c} : pc'[d] = pc[d] /\ call'[d] = call[d] /\ connPtys'[d] = connPtys[d]
        /\ connPtys'[c] = connPtys[c] \cup {n}
    BY <1>5 DEF StartReader, GoReader, Answer, Go, Own, TypeOK, Holds, Holding, tables
  <2>. QED BY <1>0, <2>1 DEF OwnerAnswers
<1>6. CASE StartPanics(c)
  <2>1. /\ UNCHANGED <<sessions, pty, reader>> /\ pc'[c] = "crashed"
        /\ \A d \in Conns \ {c} : /\ pc'[d] = pc[d] /\ call'[d] = call[d] /\ connPtys'[d] = connPtys[d]
                                 /\ doomed'[d] = doomed[d]
    BY <1>6 DEF StartPanics, Finish, Go, TypeOK, tables, streamVars
  <2>. QED BY <1>0, <2>1 DEF OwnerAnswers
<1>7. CASE CloseEnd(c)
  <2> DEFINE n == call[c].sid
  <2>1. n \in Streams
    BY <1>7 DEF CloseEnd, Answer, Go, Acting
  <2>2. /\ sessions' = sessions \ {n} /\ UNCHANGED <<reader, doomed>>
        /\ \A s \in sessions : Same(s)
        /\ pc[c] = "close" /\ pc'[c] = "idle"
        /\ \A d \in Conns \ {c} : pc'[d] = pc[d] /\ call'[d] = call[d] /\ connPtys'[d] = connPtys[d]
        /\ connPtys'[c] = connPtys[c] \ {n}
    BY <1>0, <1>7, <2>1, SameTerminals DEF CloseEnd, Answer, Go, TypeOK
  <2>. QED BY <1>0, <2>2 DEF OwnerAnswers
<1>8. CASE LeaveCollect(c)
  <2> DEFINE rest == (connPtys[c] \cap sessions) \ Kept(c)
  <2>1. /\ UNCHANGED <<sessions, pty, reader>> /\ pc[c] = "leave"
        /\ \A d \in Conns \ {c} : /\ pc'[d] = pc[d] /\ call'[d] = call[d] /\ connPtys'[d] = connPtys[d]
                                 /\ doomed'[d] = doomed[d]
        /\ \/ pc'[c] = "closed" /\ rest = {}
           \/ pc'[c] = "reap" /\ doomed'[c] = rest
    BY <1>8 DEF LeaveCollect, Finish, Go, TypeOK, tables
  <2>2. \A s \in sessions : (pty[s].owner = c /\ ~pty[s].persistent /\ reader[s] # "remove") => s \in rest
    BY <1>0, <2>1 DEF Kept
  <2> HIDE DEF rest
  <2>. QED BY <1>0, <2>1, <2>2 DEF OwnerAnswers
<1>9. CASE LeaveRemove(c)
  <2>1. /\ sessions' = sessions \ doomed[c] /\ UNCHANGED <<pty, reader>> /\ pc[c] = "reap"
        /\ \A d \in Conns \ {c} : /\ pc'[d] = pc[d] /\ call'[d] = call[d] /\ connPtys'[d] = connPtys[d]
                                 /\ doomed'[d] = doomed[d]
    BY <1>9 DEF LeaveRemove, Finish, Go, TypeOK, streamVars
  <2>. QED BY <1>0, <2>1 DEF OwnerAnswers
<1>10. CASE Deliver(c)
  <2> DEFINE f == Head(queue[c])
  <2>1. /\ UNCHANGED <<sessions, pty, reader, pc, call, doomed>>
        /\ \A d \in Conns \ {c} : connPtys'[d] = connPtys[d]
        /\ connPtys'[c] = IF f.kind = "exited" THEN connPtys[c] \ {f.sid} ELSE connPtys[c]
    BY <1>10 DEF Deliver, TypeOK, tables, streamVars
  <2>2. f.kind = "exited" /\ f.sid \in sessions => reader[f.sid] = "remove"
    <3>1. queue[c] # <<>> /\ f = queue[c][1] /\ 1 \in DOMAIN queue[c]
      BY <1>10, TailFrames DEF Deliver
    <3>2. f.kind = "exited" => reader[f.sid] \in Ended
      BY <3>1 DEF Bounded
    <3>3. ASSUME NEW s \in sessions PROVE reader[s] \notin {"undefault", "done"}
      BY Parts DEF ListedSessionIsWatched, OpenerAlone, Holding
    <3>. QED BY <3>2, <3>3 DEF Ended
  <2> HIDE DEF f
  <2>. QED BY <1>0, <2>1, <2>2 DEF OwnerAnswers
<1>11. CASE InputEnd(c)
  <2>1. call[c].sid \in Streams
    BY <1>11 DEF InputEnd, Answer, Go, Acting
  <2>2. /\ UNCHANGED <<sessions, reader, connPtys, doomed>>
        /\ \A s \in sessions : Same(s)
        /\ pc[c] = "write" /\ pc'[c] = "idle"
        /\ \A d \in Conns \ {c} : pc'[d] = pc[d] /\ call'[d] = call[d]
    BY <1>0, <1>11, <2>1, SameTerminals DEF InputEnd, Answer, Go, TypeOK, tables
  <2>3. ASSUME NEW s \in sessions PROVE Answers(s)'
    BY <1>0, <2>2
  <2>. QED BY <2>2, <2>3 DEF OwnerAnswers
<1>. QED BY <1>1, <1>2, <1>3, <1>4, <1>5, <1>6, <1>7, <1>8, <1>9, <1>10, <1>11 DEF ConnStep

LEMMA OwnerAnswersReader ==
    ASSUME CInv, NEW s \in Streams, ReaderExtend(s) \/ ReaderStep(s) \/ ChildExit(s) \/ ChildDetach(s)
    PROVE  OwnerAnswers'
<1> USE ChannelParts
<1>1. /\ UNCHANGED <<pc, call, connPtys, doomed>> /\ sessions' \subseteq sessions /\ sessions \subseteq Streams
      /\ \A t \in Streams : pty'[t].owner = pty[t].owner /\ pty'[t].persistent = pty[t].persistent
      /\ \A t \in sessions' : reader[t] = "remove" => reader'[t] = "remove"
  <2>1. CASE ReaderExtend(s)
    BY <2>1 DEF ReaderExtend, GoReader, TypeOK, Pty, tables, connVars
  <2>2. CASE ~ReaderExtend(s)
    BY <2>2 DEF ReaderStep, ReaderBroadcast, ReaderEof, ReaderReap, ReaderReport, ReaderRemove, ReaderUndefault,
       ChildExit, ChildDetach, GoReader, TypeOK, tables, connVars
  <2>. QED BY <2>1, <2>2
<1>. QED BY <1>1 DEF OwnerAnswers

-----------------------------------------------------------------------------
(* The inductive invariant about the channels *)

LEMMA InitChannels == Init => CInv
<1> SUFFICES ASSUME Init PROVE RingFills /\ OwnerAnswers /\ \A c \in Conns : ConnInv(c)
  BY InitInv DEF CInv
<1>1. RingFills /\ OwnerAnswers
  BY DEF Init, RingFills, OwnerAnswers
<1>2. ASSUME NEW c \in Conns PROVE ConnInv(c)
  <2>1. /\ queue[c] = <<>> /\ DOMAIN <<>> = {} /\ opens[c] = 0 /\ connPtys[c] = {} /\ pc[c] = "off"
        /\ \A s \in Streams : screen[c][s] = 0 /\ subs[s][c] = 0 /\ pty[s].owner # c /\ pty[s].ring = 0
    BY ConnsAssumption DEF Init
  <2>. QED BY <2>1 DEF ConnInv, Bounded, Holds, FirstOpen, Fresh, OneOpenView, Holding, Receiving
<1>. QED BY <1>1, <1>2

LEMMA StepChannels == CInv /\ [Next]_vars => CInv'
<1> SUFFICES ASSUME CInv, [Next]_vars PROVE CInv'
  OBVIOUS
<1> USE ChannelParts
<1>1. IInv'
  BY StepInv
<1>2. CASE Next
  <2>1. OwnerAnswers'
    BY <1>2, OwnerAnswersConn, OwnerAnswersReader DEF Next
  <2>2. ASSUME NEW d \in Conns PROVE ConnInv(d)'
    <3>1. ASSUME NEW c \in Conns, ClientStep(c) \/ ConnStep(c) \/ Deliver(c), c # d PROVE ConnInv(d)'
      BY <3>1, OnlookerKept
    <3>2. CASE ClientStep(d)
      BY <3>2, RestingConn, OpenBeginConn DEF ClientStep
    <3>3. CASE ConnStep(d)
      <4>1. CASE StartPanics(d) \/ LeaveRemove(d)
        BY <4>1, ConnInvFinished DEF StartPanics, LeaveRemove, Go, TypeOK, tables, streamVars
      <4>. QED BY <3>3, <4>1, RestingConn, AttachReplayConn, AttachSubscribeConn, OpenMissConn, SpawnConn,
               InsertConn, StartReaderConn, LeaveCollectConn DEF ConnStep
    <3>4. CASE Deliver(d)
      BY <3>4, DeliverConn
    <3>5. ASSUME NEW c \in Conns, InputEnd(c) PROVE ConnInv(d)'
      BY <3>5, InputEndView
    <3>6. ASSUME NEW s \in Streams, ReaderExtend(s) \/ ReaderStep(s) PROVE ConnInv(d)'
      BY <3>6, ReaderView
    <3>7. ASSUME NEW s \in Streams, ChildExit(s) \/ ChildDetach(s) PROVE ConnInv(d)'
      <4>1. UNCHANGED <<pty, subs, reader, pc, call, opens, connPtys, queue, screen>>
        BY <3>7 DEF ChildExit, ChildDetach, connVars, clientVars
      <4>2. \A t \in Streams : Sent(t)' = Sent(t)
        BY <4>1 DEF Sent
      <4>. QED BY <4>1, <4>2, ConnInvKept DEF Steady
    <3>. QED BY <1>2, <3>1, <3>2, <3>3, <3>4, <3>5, <3>6, <3>7 DEF Next
  <2>. QED BY <1>1, <1>2, <2>1, <2>2, RingFillsStep DEF CInv
<1>3. CASE UNCHANGED vars
  <2>1. UNCHANGED <<nextStream, sessions, pty, subs, reader, pc, call, opens, connPtys, doomed, queue, screen>>
    BY <1>3 DEF vars, tables, streamVars, connVars, clientVars
  <2>2. RingFills' /\ OwnerAnswers'
    BY <2>1 DEF RingFills, OwnerAnswers
  <2>3. \A t \in Streams : Sent(t)' = Sent(t)
    BY <2>1 DEF Sent
  <2>4. ASSUME NEW d \in Conns PROVE ConnInv(d)'
    BY <2>1, <2>3, ConnInvKept DEF Steady
  <2>. QED BY <1>1, <2>2, <2>4 DEF CInv
<1>. QED BY <1>2, <1>3

\* The channels, the rings and the lists of owners agree in every reachable
\* state of the terminal service (CInv, with IInv and the types).
THEOREM ChannelsHold == Spec => []CInv
<1>. QED BY InitChannels, StepChannels, PTL DEF Spec

\* The connection that opened a terminal and nothing else gets all of its
\* output, once and in order, for any number of chunks and of other clients
\* (pty_reader_thread, attach_to_session, handle_raw_data).
THEOREM OwnerSees == Spec => []OwnerSeesAllOutput
<1>1. CInv => OwnerSeesAllOutput
  BY ChannelParts DEF OwnerSeesAllOutput, OneOpenView
<1>. QED BY <1>1, ChannelsHold, PTL

\* A connection that attached once draws the ring and then chunks without a gap
\* (attach_to_session against pty_reader_thread).
THEOREM AttachedSees == Spec => []AttachedSeesTheRest
<1>1. CInv => AttachedSeesTheRest
  BY ChannelParts DEF AttachedSeesTheRest, OneOpenView
<1>. QED BY <1>1, ChannelsHold, PTL

\* When a connection is gone, every temporary session it spawned has left the
\* map or is being taken out by its reader (close_conn_ptys).
THEOREM TemporaryGoes == Spec => []TemporaryGoesWithItsOwner
<1>1. CInv => TemporaryGoesWithItsOwner
  BY ChannelParts DEF TemporaryGoesWithItsOwner, OwnerAnswers
<1>. QED BY <1>1, ChannelsHold, PTL

=============================================================================

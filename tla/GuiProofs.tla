------------------------------ MODULE GuiProofs ------------------------------
(***************************************************************************)
(* GuiClient for any number of requests and connections: the window never  *)
(* keeps a connection that nobody serves, no late task of an old           *)
(* connection clears the current one, every waiting request has its sender *)
(* registered or its answer, and what was answered was carried out, as     *)
(* often as it was sent and no oftener.                                    *)
(*                                                                         *)
(* ClientInv is inductive.  The types come first, one step per action; the *)
(* other parts lean on Bookkeeping, which says who holds the mutex and     *)
(* which connections exist.                                                *)
(*                                                                         *)
(* Then GuiTerminals: the panels of a window and the shells of the server, *)
(* for any number of panels, streams and attachments.                      *)
(***************************************************************************)
EXTENDS GuiClient, GuiTerminals, FiniteSetTheorems, TLAPS

States == {"new", "connect", "connecting", "register", "send", "wait", "invalidate",
           "answered", "failed"}

LEMMA InitIInv == ClientInit => ClientInv
<1> SUFFICES ASSUME ClientInit PROVE ClientInv
  OBVIOUS
<1>1. ClientTypeOK
  BY ClientAssumption DEF ClientInit, ClientTypeOK
<1>2. Bookkeeping /\ CurrentIsServed /\ WaitersAreRegistered
  BY ClientAssumption DEF ClientInit, Bookkeeping, CurrentIsServed, WaitersAreRegistered, Conn
<1>3. AnsweredHasRun
  BY DEF ClientInit, AnsweredHasRun
<1>4. \A o \in Ops : IsFiniteSet(InFlight(o)) /\ Counted(o)
  <2> SUFFICES ASSUME NEW o \in Ops PROVE IsFiniteSet(InFlight(o)) /\ Counted(o)
    OBVIOUS
  <2>1. \A k \in Conn : toServer[k] = <<>>
    BY DEF ClientInit
  <2>2. \A k \in Conn : DOMAIN toServer[k] = {}
    BY <2>1
  <2>3. InFlight(o) = {}
    BY <2>2 DEF InFlight
  <2>4. ran[o] = 0 /\ try[o] = 1
    BY DEF ClientInit
  <2> QED
    BY <2>3, <2>4, FS_EmptySet DEF Counted, Copies
<1> QED
  BY <1>1, <1>2, <1>3, <1>4 DEF ClientInv

-----------------------------------------------------------------------------
(* Types *)

\* GiveUp leaves a request in a known state.
LEMMA GiveUpTyped ==
  ASSUME ClientTypeOK, NEW o \in Ops, GiveUp(o)
  PROVE  /\ pc' \in [Ops -> States] /\ try' \in [Ops -> 1..2]
         /\ pc'[o] \in {"connect", "failed"}
         /\ \A p \in Ops : p # o => pc'[p] = pc[p] /\ try'[p] = try[p]
         /\ pc'[o] = "failed" => try'[o] = 2
<1>1. CASE try[o] = 1
  <2>1. pc' = [pc EXCEPT ![o] = "connect"] /\ try' = [try EXCEPT ![o] = 2]
    BY <1>1 DEF GiveUp, Goto
  <2>2. pc \in [Ops -> States] /\ try \in [Ops -> 1..2] /\ "connect" \in States
    BY DEF ClientTypeOK, States
  <2> QED
    BY <2>1, <2>2
<1>2. CASE try[o] # 1
  <2>1. pc' = [pc EXCEPT ![o] = "failed"] /\ try' = try /\ try[o] = 2
    BY <1>2 DEF GiveUp, Goto, ClientTypeOK
  <2>2. pc \in [Ops -> States] /\ try \in [Ops -> 1..2] /\ "failed" \in States
    BY DEF ClientTypeOK, States
  <2> QED
    BY <2>1, <2>2
<1> QED
  BY <1>1, <1>2

LEMMA RequestTyped ==
  ASSUME ClientTypeOK, NEW o \in Ops, Issue(o) \/ RequestStep(o)
  PROVE  ClientTypeOK'
<1> USE ClientAssumption
<1>1. CASE Issue(o)
  BY <1>1 DEF ClientTypeOK, Issue, Goto, taskVars, wire
<1>2. CASE UseConnection(o)
  BY <1>2 DEF ClientTypeOK, UseConnection, Goto, taskVars, wire
<1>3. CASE ConnectBegin(o)
  BY <1>3 DEF ClientTypeOK, ConnectBegin, Goto, taskVars, wire
<1>4. CASE ConnectOk(o)
  <2>1. conns + 1 \in Conn /\ conns' = conns + 1 /\ socket' = conns + 1
    BY <1>4 DEF ClientTypeOK, ConnectOk, Conn
  <2>2. conns' \in 0..MaxConns /\ socket' \in 0..MaxConns /\ conns + 1 \in 0..MaxConns
    BY <2>1 DEF Conn
  <2>3. up' \in [Conn -> BOOLEAN]
    BY <1>4, <2>1 DEF ClientTypeOK, ConnectOk
  <2>4. /\ reader' \in [Conn -> {"none", "reading", "leaving", "gone"}]
        /\ keeper' \in [Conn -> {"none", "pinging", "gone"}]
    BY <1>4, <2>1 DEF ClientTypeOK, ConnectOk
  <2>5. via' \in [Ops -> 0..MaxConns]
    BY <1>4, <2>2 DEF ClientTypeOK, ConnectOk
  <2>6. /\ pc' = [pc EXCEPT ![o] = "register"] /\ connState' = "connected" /\ lock' = NoOp
        /\ UNCHANGED <<wire, try, pending, heard, ran>>
    BY <1>4 DEF ConnectOk, Goto
  <2> QED
    BY <2>2, <2>3, <2>4, <2>5, <2>6 DEF ClientTypeOK, wire
<1>5. CASE ConnectFails(o)
  BY <1>5, GiveUpTyped DEF ClientTypeOK, ConnectFails, States, taskVars, wire
<1>6. CASE Register(o)
  BY <1>6 DEF ClientTypeOK, Register, Goto, taskVars, wire
<1>7. CASE Send(o)
  <2>1. via[o] \in Conn => Append(toServer[via[o]], o) \in Seq(Ops)
    BY DEF ClientTypeOK
  <2>2. toServer' \in [Conn -> Seq(Ops)]
    BY <1>7, <2>1 DEF ClientTypeOK, Send
  <2> QED
    BY <1>7, <2>2 DEF ClientTypeOK, Send, Goto, taskVars
<1>8. CASE SendFails(o)
  BY <1>8 DEF ClientTypeOK, SendFails, Goto, taskVars, wire
<1>9. CASE Answered(o)
  BY <1>9 DEF ClientTypeOK, Answered, Goto, taskVars, wire
<1>10. CASE Timeout(o)
  BY <1>10 DEF ClientTypeOK, Timeout, Goto, taskVars, wire
<1>11. CASE Invalidate(o)
  BY <1>11, GiveUpTyped DEF ClientTypeOK, Invalidate, States, taskVars, wire
<1> QED
  BY <1>1, <1>2, <1>3, <1>4, <1>5, <1>6, <1>7, <1>8, <1>9, <1>10, <1>11 DEF RequestStep

\* What is taken from a queue of requests is a request, and what stays is one.
LEMMA QueueTyped ==
  ASSUME NEW q \in Seq(Ops), q # <<>>
  PROVE  Head(q) \in Ops /\ Tail(q) \in Seq(Ops)
OBVIOUS

LEMMA TaskTyped ==
  ASSUME ClientTypeOK, NEW k \in Conn,
         SharedReaderStep(k) \/ KeeperStops(k) \/ Serve(k) \/ ServerDies(k) \/ ServerIdle(k)
  PROVE  ClientTypeOK'
<1>1. CASE ReaderTakes(k)
  BY <1>1, QueueTyped DEF ClientTypeOK, ReaderTakes, taskVars
<1>2. CASE ReaderEnds(k)
  BY <1>2 DEF ClientTypeOK, ReaderEnds, wire, requestVars
<1>3. CASE ReaderClears(k)
  BY <1>3, ClientAssumption DEF ClientTypeOK, ReaderClears, wire, requestVars
<1>4. CASE KeeperStops(k)
  BY <1>4 DEF ClientTypeOK, KeeperStops, wire, requestVars
<1>5. CASE Serve(k)
  <2>1. toServer[k] \in Seq(Ops) /\ toServer[k] # <<>> /\ toGui[k] \in Seq(Ops)
    BY <1>5 DEF ClientTypeOK, Serve
  <2>2. Head(toServer[k]) \in Ops /\ Tail(toServer[k]) \in Seq(Ops)
        /\ Append(toGui[k], Head(toServer[k])) \in Seq(Ops)
    BY <2>1, QueueTyped
  <2>3. toServer' \in [Conn -> Seq(Ops)] /\ toGui' \in [Conn -> Seq(Ops)]
    BY <1>5, <2>2 DEF ClientTypeOK, Serve
  <2>4. ran' \in [Ops -> Nat]
    BY <1>5, <2>2 DEF ClientTypeOK, Serve
  <2> QED
    BY <1>5, <2>3, <2>4 DEF ClientTypeOK, Serve, taskVars
<1>6. CASE ServerDies(k)
  <2>1. toServer' \in [Conn -> Seq(Ops)] /\ up' \in [Conn -> BOOLEAN]
    BY <1>6 DEF ClientTypeOK, ServerDies
  <2>2. ran' \in [Ops -> Nat]
    <3>1. toServer[k] # <<>> => Head(toServer[k]) \in Ops
      BY QueueTyped DEF ClientTypeOK
    <3>2. ran \in [Ops -> Nat]
      BY DEF ClientTypeOK
    <3>3. ran' = ran \/ (toServer[k] # <<>> /\ ran' = [ran EXCEPT ![Head(toServer[k])] = @ + 1])
      BY <1>6 DEF ServerDies
    <3> QED
      BY <3>1, <3>2, <3>3
  <2> QED
    BY <1>6, <2>1, <2>2 DEF ClientTypeOK, ServerDies
<1>7. CASE ServerIdle(k)
  BY <1>7 DEF ClientTypeOK, ServerIdle, wire, requestVars
<1> QED
  BY <1>1, <1>2, <1>3, <1>4, <1>5, <1>6, <1>7 DEF SharedReaderStep

-----------------------------------------------------------------------------
(* Who holds the mutex, which connections exist *)

\* Its parts, so that a step need only show those it touches.
MutexHeld ==
  /\ \A o \in Ops : pc[o] = "connecting" <=> lock = o
  /\ lock # NoOp => socket = 0 /\ connState = "connecting"
RequestsBound ==
  \A o \in Ops :
    /\ pc[o] \in {"register", "send", "wait", "invalidate"} => via[o] \in 1..conns
    /\ pc[o] = "failed" => try[o] = 2
ConnsNumbered ==
  /\ socket <= conns
  /\ \A k \in Conn :
       /\ k > conns => reader[k] = "none" /\ keeper[k] = "none" /\ ~up[k]
       /\ k <= conns => reader[k] # "none" /\ keeper[k] # "none"
       /\ up[k] => reader[k] = "reading"

LEMMA Parts == Bookkeeping <=> MutexHeld /\ RequestsBound /\ ConnsNumbered
BY DEF Bookkeeping, MutexHeld, RequestsBound, ConnsNumbered

LEMMA BookkeepingRequest ==
  ASSUME ClientTypeOK, Bookkeeping, NEW o \in Ops, Issue(o) \/ RequestStep(o)
  PROVE  Bookkeeping'
<1> USE ClientAssumption
<1> USE DEF MutexHeld, RequestsBound, ConnsNumbered
<1>0. MutexHeld /\ RequestsBound /\ ConnsNumbered
  BY Parts
<1> SUFFICES MutexHeld' /\ RequestsBound' /\ ConnsNumbered'
  BY DEF Bookkeeping
<1>1. CASE Issue(o)
  BY <1>0, <1>1 DEF ClientTypeOK, Issue, Goto, taskVars, wire
<1>2. CASE UseConnection(o)
  BY <1>0, <1>2 DEF ClientTypeOK, UseConnection, Goto, taskVars, wire
<1>3. CASE ConnectBegin(o)
  BY <1>0, <1>3 DEF ClientTypeOK, ConnectBegin, Goto, taskVars, wire
<1>4. CASE ConnectOk(o)
  <2>1. MutexHeld'
    BY <1>0, <1>4 DEF ClientTypeOK, ConnectOk, Goto
  <2>2. RequestsBound'
    BY <1>0, <1>4 DEF ClientTypeOK, ConnectOk, Goto
  <2>3. ConnsNumbered'
    BY <1>0, <1>4 DEF ClientTypeOK, ConnectOk, Conn
  <2> QED
    BY <2>1, <2>2, <2>3
<1>5. CASE ConnectFails(o)
  <2>1. MutexHeld'
    <3>1. \A p \in Ops : p # o => pc'[p] = pc[p]
      BY <1>5, GiveUpTyped DEF ConnectFails
    <3>2. pc'[o] \in {"connect", "failed"}
      BY <1>5, GiveUpTyped DEF ConnectFails
    <3>3. pc[o] = "connecting" /\ lock' = NoOp
      BY <1>5 DEF ConnectFails
    <3> QED
      BY <1>0, <3>1, <3>2, <3>3
  <2>2. RequestsBound'
    <3>1. \A p \in Ops : p # o => pc'[p] = pc[p] /\ try'[p] = try[p]
      BY <1>5, GiveUpTyped DEF ConnectFails
    <3>2. pc'[o] \in {"connect", "failed"} /\ (pc'[o] = "failed" => try'[o] = 2)
      BY <1>5, GiveUpTyped DEF ConnectFails
    <3>3. via' = via /\ conns' = conns
      BY <1>5 DEF ConnectFails
    <3> QED
      BY <1>0, <3>1, <3>2, <3>3
  <2>3. ConnsNumbered'
    BY <1>0, <1>5 DEF ConnectFails, taskVars
  <2> QED
    BY <2>1, <2>2, <2>3
<1>6. CASE Register(o)
  BY <1>0, <1>6 DEF ClientTypeOK, Register, Goto, taskVars, wire
<1>7. CASE Send(o)
  BY <1>0, <1>7 DEF ClientTypeOK, Send, Goto, taskVars
<1>8. CASE SendFails(o)
  BY <1>0, <1>8 DEF ClientTypeOK, SendFails, Goto, taskVars, wire
<1>9. CASE Answered(o)
  BY <1>0, <1>9 DEF ClientTypeOK, Answered, Goto, taskVars, wire
<1>10. CASE Timeout(o)
  BY <1>0, <1>10 DEF ClientTypeOK, Timeout, Goto, taskVars, wire
<1>11. CASE Invalidate(o)
  <2>1. MutexHeld'
    <3>1. \A p \in Ops : p # o => pc'[p] = pc[p]
      BY <1>11, GiveUpTyped DEF Invalidate
    <3>2. pc'[o] \in {"connect", "failed"}
      BY <1>11, GiveUpTyped DEF Invalidate
    <3>3. lock = NoOp /\ lock' = NoOp
      BY <1>11 DEF Invalidate
    <3> QED
      BY <1>0, <3>1, <3>2, <3>3
  <2>2. RequestsBound'
    <3>1. \A p \in Ops : p # o => pc'[p] = pc[p] /\ try'[p] = try[p]
      BY <1>11, GiveUpTyped DEF Invalidate
    <3>2. pc'[o] \in {"connect", "failed"} /\ (pc'[o] = "failed" => try'[o] = 2)
      BY <1>11, GiveUpTyped DEF Invalidate
    <3>3. conns' = conns /\ \A p \in Ops : p # o => via'[p] = via[p]
      BY <1>11 DEF Invalidate, ClientTypeOK
    <3> QED
      BY <1>0, <3>1, <3>2, <3>3
  <2>3. ConnsNumbered'
    BY <1>0, <1>11 DEF ClientTypeOK, Invalidate, taskVars
  <2> QED
    BY <2>1, <2>2, <2>3
<1> QED
  BY <1>1, <1>2, <1>3, <1>4, <1>5, <1>6, <1>7, <1>8, <1>9, <1>10, <1>11 DEF RequestStep

LEMMA BookkeepingTask ==
  ASSUME ClientTypeOK, Bookkeeping, NEW k \in Conn,
         SharedReaderStep(k) \/ KeeperStops(k) \/ Serve(k) \/ ServerDies(k) \/ ServerIdle(k)
  PROVE  Bookkeeping'
<1> USE ClientAssumption
<1> USE DEF MutexHeld, RequestsBound, ConnsNumbered
<1>0. MutexHeld /\ RequestsBound /\ ConnsNumbered
  BY Parts
<1> SUFFICES MutexHeld' /\ RequestsBound' /\ ConnsNumbered'
  BY DEF Bookkeeping
<1>1. CASE ReaderTakes(k)
  BY <1>0, <1>1 DEF ReaderTakes, taskVars
<1>2. CASE ReaderEnds(k)
  BY <1>0, <1>2 DEF ClientTypeOK, ReaderEnds, wire, requestVars
<1>3. CASE ReaderClears(k)
  BY <1>0, <1>3 DEF ClientTypeOK, ReaderClears, wire, requestVars
<1>4. CASE KeeperStops(k)
  BY <1>0, <1>4 DEF ClientTypeOK, KeeperStops, wire, requestVars
<1>5. CASE Serve(k)
  BY <1>0, <1>5 DEF Serve, taskVars
<1>6. CASE ServerDies(k)
  BY <1>0, <1>6 DEF ClientTypeOK, ServerDies
<1>7. CASE ServerIdle(k)
  BY <1>0, <1>7 DEF ClientTypeOK, ServerIdle, wire, requestVars
<1> QED
  BY <1>1, <1>2, <1>3, <1>4, <1>5, <1>6, <1>7 DEF SharedReaderStep

-----------------------------------------------------------------------------
(* The current connection is served *)

\* Requests touch it only where they make or clear a connection.
LEMMA ServedRequest ==
  ASSUME ClientTypeOK, Bookkeeping, CurrentIsServed, NEW o \in Ops, Issue(o) \/ RequestStep(o)
  PROVE  CurrentIsServed'
<1>1. CASE ConnectOk(o)
  BY <1>1, ClientAssumption DEF ClientTypeOK, ConnectOk, CurrentIsServed, Conn
<1>2. CASE ConnectBegin(o)
  BY <1>2 DEF ConnectBegin, CurrentIsServed, taskVars
<1>3. CASE ConnectFails(o)
  BY <1>3 DEF ConnectFails, CurrentIsServed, taskVars
<1>4. CASE Invalidate(o)
  BY <1>4 DEF Invalidate, CurrentIsServed, taskVars
<1>5. CASE UNCHANGED <<socket, connState, taskVars>>
  BY <1>5 DEF CurrentIsServed, taskVars
<1> QED
  BY <1>1, <1>2, <1>3, <1>4, <1>5 DEF RequestStep, Issue, UseConnection, Register, Send,
     SendFails, Answered, Timeout

LEMMA ServedTask ==
  ASSUME ClientTypeOK, Bookkeeping, CurrentIsServed, NEW k \in Conn,
         SharedReaderStep(k) \/ KeeperStops(k) \/ Serve(k) \/ ServerDies(k) \/ ServerIdle(k)
  PROVE  CurrentIsServed'
<1> USE DEF CurrentIsServed
<1>0. socket # 0 => socket \in Conn
  BY ClientAssumption DEF ClientTypeOK, Conn
<1>1. CASE ReaderTakes(k) \/ Serve(k)
  BY <1>1 DEF ReaderTakes, Serve, taskVars
<1>2. CASE ReaderEnds(k)
  BY <1>0, <1>2 DEF ClientTypeOK, ReaderEnds
<1>3. CASE ReaderClears(k)
  BY <1>0, <1>3 DEF ClientTypeOK, ReaderClears
<1>4. CASE KeeperStops(k)
  BY <1>0, <1>4 DEF ClientTypeOK, KeeperStops
<1>5. CASE ServerDies(k)
  BY <1>0, <1>5 DEF ClientTypeOK, ServerDies
<1>6. CASE ServerIdle(k)
  BY <1>0, <1>6 DEF ClientTypeOK, ServerIdle
<1> QED
  BY <1>1, <1>2, <1>3, <1>4, <1>5, <1>6 DEF SharedReaderStep

-----------------------------------------------------------------------------
(* Waiting requests and their answers *)

LEMMA WaitersRequest ==
  ASSUME ClientTypeOK, Bookkeeping, WaitersAreRegistered, NEW o \in Ops, Issue(o) \/ RequestStep(o)
  PROVE  WaitersAreRegistered'
<1> USE DEF WaitersAreRegistered
<1>1. CASE Issue(o)
  BY <1>1 DEF ClientTypeOK, Issue, Goto
<1>2. CASE UseConnection(o)
  BY <1>2 DEF ClientTypeOK, UseConnection, Goto
<1>3. CASE ConnectBegin(o)
  BY <1>3 DEF ClientTypeOK, ConnectBegin, Goto
<1>4. CASE ConnectOk(o)
  BY <1>4 DEF ClientTypeOK, ConnectOk, Goto
<1>5. CASE ConnectFails(o)
  BY <1>5, GiveUpTyped DEF ClientTypeOK, ConnectFails
<1>6. CASE Register(o)
  BY <1>6 DEF ClientTypeOK, Register, Goto
<1>7. CASE Send(o)
  BY <1>7 DEF ClientTypeOK, Send, Goto
<1>8. CASE SendFails(o)
  BY <1>8 DEF ClientTypeOK, SendFails, Goto
<1>9. CASE Answered(o)
  BY <1>9 DEF ClientTypeOK, Answered, Goto
<1>10. CASE Timeout(o)
  BY <1>10 DEF ClientTypeOK, Timeout, Goto
<1>11. CASE Invalidate(o)
  BY <1>11, GiveUpTyped DEF ClientTypeOK, Invalidate
<1> QED
  BY <1>1, <1>2, <1>3, <1>4, <1>5, <1>6, <1>7, <1>8, <1>9, <1>10, <1>11 DEF RequestStep

\* Only the reader of a connection takes a sender out, and it leaves the answer.
LEMMA WaitersTask ==
  ASSUME ClientTypeOK, WaitersAreRegistered, NEW k \in Conn,
         SharedReaderStep(k) \/ KeeperStops(k) \/ Serve(k) \/ ServerDies(k) \/ ServerIdle(k)
  PROVE  WaitersAreRegistered'
<1>1. CASE ReaderTakes(k)
  BY <1>1 DEF ClientTypeOK, ReaderTakes, WaitersAreRegistered
<1>2. CASE UNCHANGED <<pc, pending, heard>>
  BY <1>2 DEF WaitersAreRegistered
<1> QED
  BY <1>1, <1>2 DEF SharedReaderStep, ReaderEnds, ReaderClears, KeeperStops, Serve, ServerDies,
     ServerIdle, requestVars

LEMMA RanRequest ==
  ASSUME ClientTypeOK, AnsweredHasRun, NEW o \in Ops, Issue(o) \/ RequestStep(o)
  PROVE  AnsweredHasRun'
<1>1. UNCHANGED <<ran, toGui>>
  BY DEF RequestStep, Issue, UseConnection, ConnectBegin, ConnectOk, ConnectFails, Register,
     Send, SendFails, Answered, Timeout, Invalidate, wire
<1>2. heard' \subseteq heard
  BY DEF RequestStep, Issue, UseConnection, ConnectBegin, ConnectOk, ConnectFails, Register,
     Send, SendFails, Answered, Timeout, Invalidate
<1>3. \A p \in Ops : pc'[p] = "answered" => pc[p] = "answered" \/ p \in heard
  <2>1. CASE ConnectFails(o) \/ Invalidate(o)
    BY <2>1, GiveUpTyped DEF ConnectFails, Invalidate
  <2>2. CASE Answered(o)
    BY <2>2 DEF ClientTypeOK, Answered, Goto
  <2>3. CASE Issue(o) \/ UseConnection(o) \/ ConnectBegin(o) \/ ConnectOk(o)
    BY <2>3 DEF ClientTypeOK, Issue, UseConnection, ConnectBegin, ConnectOk, Goto
  <2>4. CASE Register(o) \/ Send(o) \/ SendFails(o) \/ Timeout(o)
    BY <2>4 DEF ClientTypeOK, Register, Send, SendFails, Timeout, Goto
  <2> QED
    BY <2>1, <2>2, <2>3, <2>4 DEF RequestStep
<1> QED
  BY <1>1, <1>2, <1>3 DEF AnsweredHasRun

LEMMA RanTask ==
  ASSUME ClientTypeOK, AnsweredHasRun, NEW k \in Conn,
         SharedReaderStep(k) \/ KeeperStops(k) \/ Serve(k) \/ ServerDies(k) \/ ServerIdle(k)
  PROVE  AnsweredHasRun'
<1> USE DEF AnsweredHasRun
<1>1. CASE ReaderTakes(k)
  <2>1. toGui[k] \in Seq(Ops) /\ toGui[k] # <<>>
    BY <1>1 DEF ClientTypeOK, ReaderTakes
  <2>2. ran[Head(toGui[k])] >= 1
    BY <2>1
  <2>3. \A i \in DOMAIN Tail(toGui[k]) : ran[Tail(toGui[k])[i]] >= 1
    BY <2>1
  <2>4. toGui' = [toGui EXCEPT ![k] = Tail(@)] /\ ran' = ran /\ pc' = pc
        /\ heard' \subseteq heard \cup {Head(toGui[k])}
    BY <1>1 DEF ReaderTakes
  <2>5. \A j \in Conn : toGui'[j] = IF j = k THEN Tail(toGui[k]) ELSE toGui[j]
    BY <2>4 DEF ClientTypeOK
  <2> QED
    BY <2>2, <2>3, <2>4, <2>5
<1>2. CASE Serve(k)
  <2>1. toServer[k] \in Seq(Ops) /\ toServer[k] # <<>> /\ toGui[k] \in Seq(Ops)
    BY <1>2 DEF ClientTypeOK, Serve
  <2> DEFINE o == Head(toServer[k])
  <2>2. o \in Ops
    BY <2>1
  <2>3. ran' = [ran EXCEPT ![o] = @ + 1] /\ toGui' = [toGui EXCEPT ![k] = Append(@, o)]
        /\ UNCHANGED <<pc, heard>>
    BY <1>2 DEF Serve
  <2>4. ran'[o] >= 1 /\ \A p \in Ops : ran[p] >= 1 => ran'[p] >= 1
    BY <2>2, <2>3 DEF ClientTypeOK
  <2>5. \A j \in Conn : \A i \in DOMAIN toGui'[j] :
          toGui'[j][i] = o \/ (i \in DOMAIN toGui[j] /\ toGui'[j][i] = toGui[j][i])
    <3>1. \A j \in Conn : toGui'[j] = IF j = k THEN Append(toGui[k], o) ELSE toGui[j]
      BY <2>3 DEF ClientTypeOK
    <3>2. \A i \in DOMAIN Append(toGui[k], o) : Append(toGui[k], o)[i] = o
             \/ (i \in DOMAIN toGui[k] /\ Append(toGui[k], o)[i] = toGui[k][i])
      BY <2>1, <2>2
    <3> QED
      BY <3>1, <3>2
  <2>6. \A j \in Conn : \A i \in DOMAIN toGui[j] : toGui[j][i] \in Ops
    BY DEF ClientTypeOK
  <2> QED
    BY <2>3, <2>4, <2>5, <2>6
<1>3. CASE ServerDies(k)
  <2>1. UNCHANGED <<pc, heard, toGui>>
    BY <1>3 DEF ServerDies
  <2>2. \A p \in Ops : ran[p] >= 1 => ran'[p] >= 1
    <3>1. ran \in [Ops -> Nat]
      BY DEF ClientTypeOK
    <3>2. ran' = ran \/ ran' = [ran EXCEPT ![Head(toServer[k])] = @ + 1]
      BY <1>3 DEF ServerDies
    <3>3. \A p \in Ops : ran'[p] = ran[p] \/ ran'[p] = ran[p] + 1
      BY <3>1, <3>2
    <3> QED
      BY <3>1, <3>3
  <2>3. \A j \in Conn : \A i \in DOMAIN toGui[j] : toGui[j][i] \in Ops
    BY DEF ClientTypeOK
  <2> QED
    BY <2>1, <2>2, <2>3
<1>4. CASE UNCHANGED <<pc, heard, ran, toGui>>
  BY <1>4
<1> QED
  BY <1>1, <1>2, <1>3, <1>4 DEF SharedReaderStep, ReaderEnds, ReaderClears, KeeperStops, ServerIdle,
     requestVars, wire

-----------------------------------------------------------------------------
(* How often a request is carried out *)

LEMMA Places ==
  ASSUME NEW o, NEW j, NEW i
  PROVE  <<j, i>> \in InFlight(o) <=> j \in Conn /\ i \in DOMAIN toServer[j] /\ toServer[j][i] = o
BY DEF InFlight

\* No new place, no new copy.
LEMMA FewerPlaces ==
  ASSUME ClientTypeOK, NEW o \in Ops, IsFiniteSet(InFlight(o)), InFlight(o)' \subseteq InFlight(o)
  PROVE  /\ IsFiniteSet(InFlight(o)') /\ Cardinality(InFlight(o)') <= Cardinality(InFlight(o))
         /\ Cardinality(InFlight(o)') \in Nat /\ Cardinality(InFlight(o)) \in Nat
         /\ ran[o] \in Nat /\ try[o] \in 1..2
<1>1. IsFiniteSet(InFlight(o)') /\ Cardinality(InFlight(o)') <= Cardinality(InFlight(o))
  BY FS_Subset
<1> QED
  BY <1>1, FS_CardinalityType DEF ClientTypeOK

\* A frame taken from a queue leaves its place, and the places behind it move up.
LEMMA TakenFromQueue ==
  ASSUME ClientTypeOK, NEW k \in Conn, toServer[k] # <<>>, NEW o \in Ops, IsFiniteSet(InFlight(o)),
         \/ toServer' = [toServer EXCEPT ![k] = Tail(@)]
         \/ toServer' = [toServer EXCEPT ![k] = <<>>]
  PROVE  /\ IsFiniteSet(InFlight(o)')
         /\ Cardinality(InFlight(o)') \in Nat /\ Cardinality(InFlight(o)) \in Nat
         /\ Cardinality(InFlight(o)') <= Cardinality(InFlight(o))
         /\ o = Head(toServer[k]) => Cardinality(InFlight(o)') + 1 <= Cardinality(InFlight(o))
<1> DEFINE back(x) == IF x[1] = k THEN <<k, x[2] + 1>> ELSE x
           f == [x \in InFlight(o)' |-> back(x)]
           S == InFlight(o) \ {<<k, 1>>}
<1>1. /\ toServer \in [Conn -> Seq(Ops)] /\ toServer' \in [Conn -> Seq(Ops)]
      /\ \A j \in Conn : j # k => toServer'[j] = toServer[j]
      /\ toServer'[k] = Tail(toServer[k]) \/ toServer'[k] = <<>>
  <2>1. toServer \in [Conn -> Seq(Ops)] /\ Tail(toServer[k]) \in Seq(Ops) /\ <<>> \in Seq(Ops)
    BY DEF ClientTypeOK
  <2> QED
    BY <2>1
<1>2. ASSUME NEW j \in Conn, NEW i \in DOMAIN toServer'[j], toServer'[j][i] = o
      PROVE  back(<<j, i>>) \in S /\ i \in Nat /\ back(<<j, i>>) = IF j = k THEN <<k, i + 1>> ELSE <<j, i>>
  <2>1. CASE j = k
    <3>1. /\ toServer'[k] = Tail(toServer[k]) /\ i \in 1..Len(Tail(toServer[k]))
          /\ i + 1 \in 1..Len(toServer[k]) /\ toServer[k][i + 1] = Tail(toServer[k])[i] /\ i \in Nat
      BY <1>1, <1>2, <2>1
    <3>2. <<k, i + 1>> \in InFlight(o) /\ i + 1 # 1
      <4>1. i + 1 \in DOMAIN toServer[k] /\ toServer[k][i + 1] = o
        <5>1. toServer[k] \in Seq(Ops) /\ toServer'[k][i] = o
          BY <1>1, <1>2, <2>1
        <5>2. DOMAIN toServer[k] = 1..Len(toServer[k])
          BY <5>1
        <5>3. toServer[k][i + 1] = o
          BY <5>1, <3>1
        <5> QED
          BY <5>2, <5>3, <3>1
      <4> QED
        BY <4>1, <3>1, Places
    <3> QED
      BY <2>1, <3>1, <3>2
  <2>2. CASE j # k
    <3>1. <<j, i>> \in InFlight(o) /\ i \in Nat
      BY <1>1, <1>2, <2>2, Places
    <3> QED
      BY <2>2, <3>1
  <2> QED
    BY <2>1, <2>2
<1>3. \A x \in InFlight(o)' : \E j \in Conn : \E i \in DOMAIN toServer'[j] : x = <<j, i>> /\ toServer'[j][i] = o
  BY DEF InFlight
<1>4. f \in Injection(InFlight(o)', S)
  <2>1. ASSUME NEW x \in InFlight(o)' PROVE back(x) \in S
    BY <1>2, <1>3
  <2>2. ASSUME NEW x \in InFlight(o)', NEW y \in InFlight(o)', back(x) = back(y) PROVE x = y
    <3>1. PICK j \in Conn : \E i \in DOMAIN toServer'[j] : x = <<j, i>> /\ toServer'[j][i] = o
      BY <1>3
    <3>2. PICK i \in DOMAIN toServer'[j] : x = <<j, i>> /\ toServer'[j][i] = o
      BY <3>1
    <3>3. PICK l \in Conn : \E m \in DOMAIN toServer'[l] : y = <<l, m>> /\ toServer'[l][m] = o
      BY <1>3
    <3>4. PICK m \in DOMAIN toServer'[l] : y = <<l, m>> /\ toServer'[l][m] = o
      BY <3>3
    <3>5. /\ back(x) = (IF j = k THEN <<k, i + 1>> ELSE <<j, i>>) /\ i \in Nat
          /\ back(y) = (IF l = k THEN <<k, m + 1>> ELSE <<l, m>>) /\ m \in Nat
      BY <1>2, <3>2, <3>4
    <3> HIDE DEF back
    <3> QED
      BY <2>2, <3>2, <3>4, <3>5
  <2> HIDE DEF back
  <2> QED
    BY <2>1, <2>2 DEF Injection, IsInjective
<1>5. /\ IsFiniteSet(S) /\ Cardinality(S) <= Cardinality(InFlight(o)) /\ Cardinality(InFlight(o)) \in Nat
      /\ <<k, 1>> \in InFlight(o) => Cardinality(S) = Cardinality(InFlight(o)) - 1
  <2> DEFINE F == InFlight(o)
  <2>1. Cardinality(F) \in Nat
    BY FS_CardinalityType
  <2>2. /\ IsFiniteSet(F \ {<<k, 1>>})
        /\ Cardinality(F \ {<<k, 1>>}) = IF <<k, 1>> \in F THEN Cardinality(F) - 1 ELSE Cardinality(F)
    BY FS_RemoveElement
  <2> HIDE DEF F
  <2>3. /\ IsFiniteSet(F \ {<<k, 1>>}) /\ Cardinality(F \ {<<k, 1>>}) <= Cardinality(F)
        /\ <<k, 1>> \in F => Cardinality(F \ {<<k, 1>>}) = Cardinality(F) - 1
    BY <2>1, <2>2
  <2> QED
    BY <2>1, <2>3 DEF F
<1>6. o = Head(toServer[k]) => <<k, 1>> \in InFlight(o)
  <2>1. toServer[k] \in Seq(Ops) /\ 1 \in DOMAIN toServer[k] /\ toServer[k][1] = Head(toServer[k])
    BY <1>1
  <2> QED
    BY <2>1, Places
<1> HIDE DEF f, S
<1>7. IsFiniteSet(InFlight(o)') /\ Cardinality(InFlight(o)') <= Cardinality(S)
  BY <1>4, <1>5, FS_Injection
<1>8. Cardinality(InFlight(o)') \in Nat /\ Cardinality(S) \in Nat
  BY <1>5, <1>7, FS_CardinalityType
<1> QED
  BY <1>5, <1>6, <1>7, <1>8

\* A request on its way sends one copy for each try.
LEMMA CountedRequest ==
  ASSUME ClientTypeOK, Bookkeeping, \A q \in Ops : IsFiniteSet(InFlight(q)) /\ Counted(q),
         NEW o \in Ops, Issue(o) \/ RequestStep(o)
  PROVE  \A q \in Ops : IsFiniteSet(InFlight(q)') /\ Counted(q)'
<1>0. \A q \in Ops : ran[q] \in Nat /\ try[q] \in 1..2 /\ Cardinality(InFlight(q)) \in Nat
  BY FS_CardinalityType DEF ClientTypeOK
<1>1. ran' = ran
  BY DEF RequestStep, Issue, UseConnection, ConnectBegin, ConnectOk, ConnectFails, Register,
     Send, SendFails, Answered, Timeout, Invalidate
<1>2. CASE Send(o)
  <2> DEFINE x == <<via[o], Len(toServer[via[o]]) + 1>>
  <2>1. /\ toServer \in [Conn -> Seq(Ops)] /\ via[o] \in Conn /\ pc[o] = "send" /\ try' = try
        /\ toServer' = [toServer EXCEPT ![via[o]] = Append(toServer[via[o]], o)]
        /\ \A q \in Ops : q # o => pc'[q] = pc[q]
        /\ pc'[o] = "wait"
    <3>1. via[o] \in 1..conns /\ conns \in 0..MaxConns
      BY <1>2 DEF Bookkeeping, Send, ClientTypeOK
    <3> QED
      BY <3>1, <1>2, ClientAssumption DEF ClientTypeOK, Send, Goto, Conn
  <2>2. ASSUME NEW q \in Ops, NEW y \in InFlight(q)' PROVE y \in InFlight(q) \/ (q = o /\ y = x)
    <3>1. PICK j \in Conn : \E i \in DOMAIN toServer'[j] : y = <<j, i>> /\ toServer'[j][i] = q
      BY DEF InFlight
    <3>2. PICK i \in DOMAIN toServer'[j] : y = <<j, i>> /\ toServer'[j][i] = q
      BY <3>1
    <3>3. CASE j = via[o]
      BY <3>2, <3>3, <2>1, Places
    <3>4. CASE j # via[o]
      BY <3>2, <3>4, <2>1, Places
    <3> QED
      BY <3>3, <3>4
  <2>3. ASSUME NEW q \in Ops, q # o PROVE IsFiniteSet(InFlight(q)') /\ Counted(q)'
    <3>1. InFlight(q)' \subseteq InFlight(q)
      BY <2>2, <2>3
    <3>2. Copies(q)' <= Copies(q) /\ Copies(q)' \in Nat /\ Copies(q) \in Nat /\ IsFiniteSet(InFlight(q)')
      BY <3>1, <1>1, FewerPlaces DEF Copies
    <3>3. pc'[q] = pc[q] /\ try'[q] = try[q] /\ try[q] \in Nat
      BY <2>1, <2>3, <1>0
    <3>4. /\ Copies(q) <= try[q]
          /\ pc[q] \in {"new", "connect", "connecting", "register", "send"} => Copies(q) < try[q]
      BY DEF Counted
    <3>5. /\ Copies(q)' <= try[q]
          /\ pc[q] \in {"new", "connect", "connecting", "register", "send"} => Copies(q)' < try[q]
      BY <3>2, <3>3, <3>4
    <3> QED
      BY <3>2, <3>3, <3>5 DEF Counted
  <2>4. IsFiniteSet(InFlight(o)') /\ Counted(o)'
    <3> DEFINE F == InFlight(o)
    <3>1. F' \subseteq F \cup {x}
      BY <2>2
    <3>2. IsFiniteSet(F \cup {x}) /\ Cardinality(F \cup {x}) <= Cardinality(F) + 1
          /\ Cardinality(F \cup {x}) \in Nat
      <4>1. IsFiniteSet(F) /\ Cardinality(F) \in Nat
        BY <1>0
      <4>2. /\ IsFiniteSet(F \cup {x})
            /\ Cardinality(F \cup {x}) = IF x \in F THEN Cardinality(F) ELSE Cardinality(F) + 1
        BY <4>1, FS_AddElement
      <4> HIDE DEF F, x
      <4> QED
        BY <4>1, <4>2
    <3>3. IsFiniteSet(F') /\ Cardinality(F') <= Cardinality(F \cup {x})
      BY <3>1, <3>2, FS_Subset
    <3>4. Cardinality(F') \in Nat
      BY <3>3, FS_CardinalityType
    <3>5. /\ Cardinality(F) + ran[o] < try[o] /\ Cardinality(F) \in Nat
          /\ ran[o] \in Nat /\ try[o] \in Nat /\ ran'[o] = ran[o] /\ try'[o] = try[o]
      BY <2>1, <1>0, <1>1 DEF Counted, Copies
    <3> HIDE DEF F, x
    <3>6. Cardinality(F') + ran'[o] <= try'[o]
      BY <3>2, <3>3, <3>4, <3>5
    <3> QED
      BY <3>3, <3>6, <2>1 DEF Counted, Copies, F
  <2> QED
    BY <2>3, <2>4
<1>3. CASE ~Send(o)
  <2>1. toServer' = toServer
    BY <1>3 DEF RequestStep, Issue, UseConnection, ConnectBegin, ConnectOk, ConnectFails, Register,
       SendFails, Answered, Timeout, Invalidate, wire
  <2>2. \A q \in Ops : Copies(q)' = Copies(q) /\ InFlight(q)' = InFlight(q) /\ Copies(q) \in Nat
    BY <2>1, <1>0, <1>1 DEF Copies, InFlight
  <2>3. CASE ConnectFails(o) \/ Invalidate(o)
    <3>1. GiveUp(o)
      BY <2>3 DEF ConnectFails, Invalidate
    <3>2. \A q \in Ops : q # o => pc'[q] = pc[q] /\ try'[q] = try[q]
      BY <3>1 DEF GiveUp, Goto, ClientTypeOK
    <3>3. \/ pc'[o] = "failed" /\ try'[o] = try[o]
          \/ try[o] = 1 /\ try'[o] = 2
      BY <3>1 DEF GiveUp, Goto, ClientTypeOK
    <3> QED
      BY <2>2, <3>2, <3>3, <1>0 DEF Counted
  <2>4. CASE Issue(o) \/ UseConnection(o) \/ ConnectBegin(o) \/ ConnectOk(o) \/ Register(o)
    <3>1. /\ pc[o] \in {"new", "connect", "connecting", "register"} /\ try' = try
          /\ \A q \in Ops : q # o => pc'[q] = pc[q]
      BY <2>4 DEF Issue, UseConnection, ConnectBegin, ConnectOk, Register, Goto, ClientTypeOK
    <3> QED
      BY <2>2, <3>1 DEF Counted
  <2>5. CASE SendFails(o) \/ Answered(o) \/ Timeout(o)
    <3>1. /\ pc'[o] \in {"invalidate", "answered"} /\ try' = try
          /\ \A q \in Ops : q # o => pc'[q] = pc[q]
      BY <2>5 DEF SendFails, Answered, Timeout, Goto, ClientTypeOK
    <3> QED
      BY <2>2, <3>1 DEF Counted
  <2> QED
    BY <1>3, <2>3, <2>4, <2>5 DEF RequestStep
<1> QED
  BY <1>2, <1>3

\* The server carries a copy out as it takes it, or it is lost.
LEMMA CountedTask ==
  ASSUME ClientTypeOK, \A q \in Ops : IsFiniteSet(InFlight(q)) /\ Counted(q), NEW k \in Conn,
         SharedReaderStep(k) \/ KeeperStops(k) \/ Serve(k) \/ ServerDies(k) \/ ServerIdle(k)
  PROVE  \A q \in Ops : IsFiniteSet(InFlight(q)') /\ Counted(q)'
<1>0. pc' = pc /\ try' = try
  BY DEF SharedReaderStep, ReaderTakes, ReaderEnds, ReaderClears, KeeperStops, Serve, ServerDies,
     ServerIdle, requestVars
<1> SUFFICES ASSUME NEW q \in Ops PROVE /\ IsFiniteSet(InFlight(q)') /\ Copies(q)' <= Copies(q)
                                        /\ Copies(q)' \in Nat /\ Copies(q) \in Nat /\ try[q] \in 1..2
  BY <1>0 DEF Counted
<1>1. try[q] \in 1..2 /\ ran[q] \in Nat /\ Cardinality(InFlight(q)) \in Nat
  BY FS_CardinalityType DEF ClientTypeOK
<1>2. CASE UNCHANGED <<toServer, ran>>
  BY <1>1, <1>2 DEF Copies, InFlight
<1>3. CASE toServer[k] # <<>> /\ (Serve(k) \/ ServerDies(k))
  <2>1. Head(toServer[k]) \in Ops /\ ran \in [Ops -> Nat]
    BY <1>3 DEF ClientTypeOK
  <2>2. ran' = ran \/ ran' = [ran EXCEPT ![Head(toServer[k])] = ran[Head(toServer[k])] + 1]
    BY <1>3 DEF Serve, ServerDies
  <2>3. ran'[q] \in Nat /\ (ran'[q] = ran[q] \/ (q = Head(toServer[k]) /\ ran'[q] = ran[q] + 1))
    BY <2>1, <2>2
  <2>4. /\ IsFiniteSet(InFlight(q)')
        /\ Cardinality(InFlight(q)') \in Nat
        /\ Cardinality(InFlight(q)') <= Cardinality(InFlight(q))
        /\ q = Head(toServer[k]) => Cardinality(InFlight(q)') + 1 <= Cardinality(InFlight(q))
    BY <1>3, TakenFromQueue DEF Serve, ServerDies
  <2> QED
    BY <1>1, <2>3, <2>4 DEF Copies
<1>4. CASE toServer[k] = <<>> /\ ServerDies(k)
  <2>1. UNCHANGED <<toServer, ran>>
    BY <1>4 DEF ServerDies, ClientTypeOK
  <2> QED
    BY <2>1, <1>2
<1> QED
  BY <1>2, <1>3, <1>4 DEF SharedReaderStep, ReaderTakes, ReaderEnds, ReaderClears, KeeperStops, Serve, ServerDies,
     ServerIdle, requestVars, wire

-----------------------------------------------------------------------------
(* The theorems *)

LEMMA Step == ClientInv /\ [ClientNext]_clientVars => ClientInv'
<1> SUFFICES ASSUME ClientInv, [ClientNext]_clientVars PROVE ClientInv'
  OBVIOUS
<1> USE DEF ClientInv
<1>1. CASE \E o \in Ops : Issue(o) \/ RequestStep(o)
  BY <1>1, RequestTyped, BookkeepingRequest, ServedRequest, WaitersRequest, RanRequest,
     CountedRequest
<1>2. CASE \E k \in Conn : SharedReaderStep(k) \/ KeeperStops(k) \/ Serve(k) \/ ServerDies(k)
                            \/ ServerIdle(k)
  BY <1>2, TaskTyped, BookkeepingTask, ServedTask, WaitersTask, RanTask, CountedTask
<1>3. CASE UNCHANGED clientVars
  <2>1. UNCHANGED <<socket, connState, lock, conns, up, reader, keeper, toServer, toGui, pc,
                    try, via, pending, heard, ran>>
    BY <1>3 DEF clientVars, taskVars, wire, requestVars
  <2>2. ClientTypeOK' /\ Bookkeeping' /\ CurrentIsServed' /\ WaitersAreRegistered' /\ AnsweredHasRun'
    BY <2>1 DEF ClientTypeOK, Bookkeeping, CurrentIsServed, WaitersAreRegistered, AnsweredHasRun
  <2>3. \A o \in Ops : IsFiniteSet(InFlight(o))' /\ Counted(o)'
    BY <2>1 DEF InFlight, Counted, Copies
  <2> QED
    BY <2>2, <2>3
<1> QED
  BY <1>1, <1>2, <1>3 DEF ClientNext

\* The inductive invariant of the requests and the connection they share, for any
\* requests, any number of connections, deaths of the server and timeouts.
THEOREM ClientHolds == ClientSpec => []ClientInv
BY InitIInv, Step, PTL DEF ClientSpec

\* The current connection has its reader, and its keep-alive while the server is there
\* (socket.rs:276-284, 310-316).
THEOREM Served == ClientSpec => []CurrentIsServed
<1>1. ClientInv => CurrentIsServed
  BY DEF ClientInv
<1> QED
  BY <1>1, ClientHolds, PTL

\* `pending` holds exactly the senders of the requests on their way that have no answer
\* yet (socket.rs:341-376).
THEOREM Registered == ClientSpec => []WaitersAreRegistered
<1>1. ClientInv => WaitersAreRegistered
  BY DEF ClientInv
<1> QED
  BY <1>1, ClientHolds, PTL

\* A command that returns an answer was carried out (socket.rs:355-390).
THEOREM AnsweredRan == ClientSpec => []AnsweredHasRun
<1>1. ClientInv => AnsweredHasRun
  BY DEF ClientInv
<1> QED
  BY <1>1, ClientHolds, PTL

\* An answered command was carried out, and none is carried out oftener than it was sent:
\* once, unless its connection failed it (socket.rs:286-309, 341-390).
THEOREM AnsweredOnce == ClientSpec => []AnsweredMeansRan
<1>1. ClientInv => AnsweredMeansRan
  BY DEF ClientInv, AnsweredMeansRan
<1> QED
  BY <1>1, ClientHolds, PTL

\* Only its own reader, or a request sent over it, clears the current connection
\* (Arc::ptr_eq in socket.rs:276-284, 325-331).
THEOREM OthersSpareIt == ClientSpec => OnlyItsOwnClearsIt
<1> DEFINE Clears == socket # 0 /\ socket' # socket =>
                       \/ reader[socket] = "leaving"
                       \/ \E o \in Ops : pc[o] = "invalidate" /\ via[o] = socket
<1>1. ClientInv /\ [ClientNext]_clientVars => Clears
  <2> SUFFICES ASSUME ClientInv, [ClientNext]_clientVars, socket # 0, socket' # socket
               PROVE  \/ reader[socket] = "leaving"
                      \/ \E o \in Ops : pc[o] = "invalidate" /\ via[o] = socket
    OBVIOUS
  <2>1. CASE \E o \in Ops : ConnectOk(o)
    BY <2>1, ClientAssumption DEF ClientInv, Bookkeeping, ConnectOk
  <2>2. CASE \E o \in Ops : Invalidate(o)
    BY <2>2 DEF Invalidate
  <2>3. CASE \E k \in Conn : ReaderClears(k)
    BY <2>3 DEF ReaderClears
  <2>4. CASE UNCHANGED socket
    BY <2>4
  <2> QED
    BY <2>1, <2>2, <2>3, <2>4 DEF ClientNext, RequestStep, SharedReaderStep, Issue, UseConnection,
       ConnectBegin, ConnectFails, Register, Send, SendFails, Answered, Timeout, ReaderTakes,
       ReaderEnds, KeeperStops, Serve, ServerDies, ServerIdle, clientVars
<1>2. ClientSpec => [][Clears]_clientVars
  BY <1>1, ClientHolds, PTL DEF ClientSpec
<1> QED
  BY <1>2 DEF OnlyItsOwnClearsIt

-----------------------------------------------------------------------------
(* The panels and the shells *)

\* The sets of ids as intervals, for the leaves that need one of these.
LEMMA Bounds ==
  /\ Panes \subseteq Atts /\ 1 \in Panes /\ 0 \notin Panes /\ 0 \notin Atts /\ 0 \notin Streams
  /\ 0..MaxAtts = Atts \cup {0} /\ 0..MaxStreams = Streams \cup {0} /\ 0..MaxPanes = Panes \cup {0}
  /\ Atts \subseteq Nat /\ Streams \subseteq Nat /\ MaxAtts \in Nat /\ MaxStreams \in Nat
  /\ 0..MaxAtts \subseteq Nat /\ MaxBreaks \in Nat
BY TerminalsAssumption DEF Panes, Atts, Streams

\* A window begins without panels.
LEMMA InitHolds == Init => IInv
<1> SUFFICES ASSUME Init PROVE IInv
  OBVIOUS
<1>1. TypeOK
  <2>1. NoAtt \in Attachment
    BY TerminalsAssumption DEF NoAtt, Attachment
  <2>2. att \in [Atts -> Attachment] /\ inbox \in [Atts -> Seq({"data", "exited"})]
    BY <2>1 DEF Init
  <2>3. nextStream \in 1..(MaxStreams + 1) /\ breaks \in 0..MaxBreaks
    BY TerminalsAssumption DEF Init
  <2>4. born \in [Panes -> 0..MaxStreams] /\ bound \in [Panes -> 0..MaxStreams]
        /\ next \in [Panes -> 0..MaxStreams] /\ ref \in [Panes -> 0..MaxStreams]
    BY Bounds DEF Init
  <2> QED
    BY <2>2, <2>3, <2>4, Bounds DEF Init, TypeOK
<1>2. Shutters /\ AllClaimed /\ Fresh /\ Apart
  BY Bounds DEF Init, Shutters, AllClaimed, Fresh, Apart, NoAtt
<1>3. \A p \in Panes : PanelInv(p) /\ Listens(p)
  BY DEF Init, PanelInv, Listens
<1>4. \A a \in Atts : AttInv(a) /\ Announced(a)
  BY Bounds DEF Init, AttInv, Announced, NoAtt
<1> QED
  BY <1>1, <1>2, <1>3, <1>4 DEF IInv

\* What the invariant says of one panel, and of one attachment.
LEMMA PanelFacts ==
  ASSUME IInv, NEW q \in Panes
  PROVE  /\ gen[q] \in Nat /\ gen[q] <= atts /\ (gen[q] # 0 => gen[q] \in Atts /\ att[gen[q]].owner = q)
         /\ bound[q] \in 0..MaxStreams /\ ref[q] \in 0..MaxStreams /\ busy[q] \in BOOLEAN
         /\ pane[q] = "none" => bound[q] = 0 /\ ref[q] = 0 /\ gen[q] = 0 /\ busy[q] = FALSE
         /\ pane[q] # "none" => gen[q] \in Atts
         /\ busy[q] => pane[q] # "none" /\ gen[q] \in Atts
         /\ born[q] \in 0..MaxStreams /\ next[q] \in 0..MaxStreams /\ Latest(q) \in 0..MaxStreams
         /\ next[q] # 0 => pane[q] = "open"
         /\ pane[q] = "open" /\ ref[q] # 0 => Latest(q) = ref[q]
<1>1. PanelInv(q)
  BY DEF IInv
<1>2. /\ gen[q] \in 0..MaxAtts /\ bound[q] \in 0..MaxStreams /\ ref[q] \in 0..MaxStreams /\ busy[q] \in BOOLEAN
      /\ born[q] \in 0..MaxStreams /\ next[q] \in 0..MaxStreams
  BY DEF IInv, TypeOK
<1> QED
  BY <1>1, <1>2, Bounds DEF PanelInv, Latest

LEMMA OwnerOf ==
  ASSUME IInv, NEW q \in Panes, NEW a \in Atts, gen[q] = a
  PROVE  att[a].owner = q
<1>1. gen[q] # 0 => att[gen[q]].owner = q
  BY DEF IInv, PanelInv
<1> QED
  BY <1>1, Bounds

LEMMA AttFacts ==
  ASSUME IInv, NEW a \in Atts
  PROVE  /\ att[a] \in Attachment /\ AttInv(a) /\ Announced(a)
         /\ att[a].owner \in Panes \cup {0} /\ att[a].stream \in Streams \cup {0}
         /\ att[a].hint \in Streams \cup {0}
         /\ atts \in Nat /\ a \in Nat
<1>1. att[a] \in Attachment /\ atts \in Nat
  BY Bounds DEF IInv, TypeOK
<1> QED
  BY <1>1, Bounds DEF IInv, Attachment

\* A panel that asks: its newest attachment is a new one, the others are as before.
Asks(p, hint) ==
  /\ atts + 1 \in Atts /\ atts' = atts + 1 /\ atts \in Nat /\ att[atts + 1] = NoAtt
  /\ inbox[atts + 1] = <<>>
  /\ att' \in [Atts -> Attachment]
  /\ att'[atts + 1] = Asking(p, hint)
  /\ \A a \in Atts : a # atts + 1 => att'[a] = att[a]
  /\ gen' \in [Panes -> 0..MaxAtts] /\ busy' \in [Panes -> BOOLEAN]
  /\ gen'[p] = atts + 1 /\ busy'[p]
  /\ \A q \in Panes : q # p => gen'[q] = gen[q] /\ busy'[q] = busy[q]
  /\ \A q \in Panes : gen[q] # atts + 1 /\ (gen[q] \in Atts => att'[gen[q]] = att[gen[q]])

LEMMA Establishes ==
  ASSUME IInv, NEW p \in Panes, NEW hint \in 0..MaxStreams, Establish(p, hint)
  PROVE  Asks(p, hint)
<1>1. atts + 1 \in Atts /\ atts' = atts + 1 /\ atts \in Nat
  BY TerminalsAssumption DEF Establish, IInv, TypeOK, Atts
<1>2. att[atts + 1] = NoAtt /\ inbox[atts + 1] = <<>>
  BY <1>1 DEF IInv, AttInv
<1>3. \A q \in Panes : gen[q] <= atts /\ gen[q] # atts + 1
  BY <1>1, Bounds DEF IInv, PanelInv, TypeOK
<1>4. NoAtt.owner = 0
  BY DEF NoAtt
<1>5. /\ att' = [att EXCEPT ![atts + 1] = Asking(p, hint)]
      /\ gen' = [gen EXCEPT ![p] = atts + 1] /\ busy' = [busy EXCEPT ![p] = TRUE]
  BY DEF Establish
<1>6. Asking(p, hint) \in Attachment
  BY TerminalsAssumption DEF Panes, Asking, Attachment
<1> QED
  <2>1. att \in [Atts -> Attachment] /\ gen \in [Panes -> 0..MaxAtts] /\ busy \in [Panes -> BOOLEAN]
    BY DEF IInv, TypeOK
  <2>2. atts + 1 \in 0..MaxAtts
    BY <1>1, Bounds
  <2> QED
    BY <1>1, <1>2, <1>3, <1>5, <1>6, <2>1, <2>2 DEF Asks

(***************************************************************************)
(* Steps of the panels                                                     *)
(***************************************************************************)
LEMMA OpenTerminalStep ==
  ASSUME IInv, NEW p \in Panes, OpenTerminal(p)
  PROVE  IInv'
<1> USE DEF panelVars, linkVars, closeVars, serverVars
<1>0. /\ pane[p] = "none" /\ window /\ bound[p] = 0 /\ next[p] = 0 /\ ref[p] = 0 /\ ~busy[p]
      /\ pane' = [pane EXCEPT ![p] = "open"]
      /\ UNCHANGED <<window, born, bound, next, ref, writeFailed, inbox, active, closing, toClose, stray,
                     swallowed, live, ended, dying, deaf, late, nextStream, restarted, breaks>>
  BY PanelFacts DEF OpenTerminal
<1>e. Asks(p, 0)
  BY Establishes, Bounds DEF OpenTerminal
<1>1. TypeOK'
  BY <1>0, <1>e, Bounds DEF IInv, TypeOK, Asks
<1>p. pane'[p] = "open" /\ \A q \in Panes : q # p => pane'[q] = pane[q]
  BY <1>0 DEF IInv, TypeOK
<1>2. Shutters'
  BY <1>0 DEF Shutters
<1>3. AllClaimed'
  <2> SUFFICES ASSUME NEW s \in live \ ended PROVE Claimed(s)'
    BY <1>0 DEF AllClaimed
  <2>1. Claimed(s)
    BY <1>0 DEF IInv, AllClaimed
  <2>2. ASSUME NEW q \in Panes, Has(q, s) PROVE Has(q, s)'
    <3>1. q # p
      BY <2>2, <1>0 DEF Has
    <3> QED
      <4>1. busy[q] \/ pane[q] # "none" => gen[q] \in Atts
        BY PanelFacts
      <4>2. gen'[q] = gen[q] /\ busy'[q] = busy[q] /\ (gen[q] \in Atts => att'[gen[q]] = att[gen[q]])
        BY <3>1, <1>e DEF Asks
      <4> QED
        BY <4>1, <4>2, <3>1, <2>2, <1>0, <1>p DEF Has, Told, Latest
  <2>3. ASSUME AnswerLost(s) PROVE AnswerLost(s)'
    BY <2>3, <1>e DEF Asks, AnswerLost, NoAtt
  <2> QED
    BY <2>1, <2>2, <2>3, <1>0 DEF Claimed
<1>k. ASSUME NEW q \in Panes, NEW s \in Streams PROVE Known(q, s)' => Known(q, s)
  <2>1. CASE q = p
    BY <2>1, <1>0, <1>e, Bounds DEF Known, Asks, Asking
  <2>2. CASE q # p
    <3>1. busy[q] => gen[q] \in Atts
      BY PanelFacts
    <3> QED
      BY <3>1, <2>2, <1>0, <1>e DEF Known, Asks
  <2> QED
    BY <2>1, <2>2
<1>f. Fresh'
  BY <1>0 DEF IInv, Fresh
<1>4. Apart'
  <2> SUFFICES ASSUME ~restarted PROVE Apart'
    BY <1>0 DEF Apart
  <2>1. \A s \in Streams : ~Known(p, s)
    BY <1>0, Bounds DEF Known
  <2>2. ASSUME NEW a \in Atts PROVE att'[a].stream < nextStream
    <3>1. att[a].stream < nextStream /\ 0 < nextStream
      BY DEF IInv, TypeOK, Apart
    <3> QED
      BY <3>1, <1>e DEF Asks, Asking
  <2> QED
    BY <1>0, <1>p, <1>k, <2>1, <2>2 DEF IInv, Apart
<1>5. ASSUME NEW q \in Panes PROVE PanelInv(q)' /\ Listens(q)'
  <2>1. CASE q = p
    BY <2>1, <1>0, <1>p, <1>e, Bounds DEF PanelInv, Listens, Asks, Asking, Latest
  <2>2. CASE q # p
    <3>1. PanelInv(q) /\ Listens(q) /\ gen[q] \in Nat /\ (gen[q] # 0 => gen[q] \in Atts)
      BY PanelFacts DEF IInv
    <3>2. /\ gen'[q] = gen[q] /\ busy'[q] = busy[q] /\ pane'[q] = pane[q]
          /\ bound'[q] = bound[q] /\ next'[q] = next[q] /\ ref'[q] = ref[q]
          /\ (gen[q] # 0 => att'[gen[q]] = att[gen[q]]) /\ gen[q] <= atts'
      BY <3>1, <2>2, <1>0, <1>p, <1>e DEF Asks, PanelInv
    <3> QED
      BY <3>1, <3>2, <1>0 DEF PanelInv, Listens, Latest
  <2> QED
    BY <2>1, <2>2
<1>6. ASSUME NEW a \in Atts PROVE AttInv(a)' /\ Announced(a)'
  <2>1. CASE a = atts + 1
    BY <2>1, <1>0, <1>e, Bounds DEF AttInv, Announced, Asks, Asking, Latest
  <2>2. CASE a # atts + 1
    BY <2>2, <1>0, <1>p, <1>e, AttFacts DEF AttInv, Announced, Asks, Latest, Told, Running
  <2> QED
    BY <2>1, <2>2
<1> QED
  BY <1>1, <1>2, <1>3, <1>f, <1>4, <1>5, <1>6 DEF IInv

\* A panel reconnects to the stream it is bound to.
LEMMA WriteFailsStep ==
  ASSUME IInv, NEW p \in Panes, WriteFails(p)
  PROVE  IInv'
<1> USE DEF panelVars, linkVars, closeVars, serverVars
<1>0. /\ pane[p] = "open" /\ Latest(p) = ref[p] /\ ref[p] \in 0..MaxStreams
      /\ UNCHANGED <<window, pane, born, bound, next, ref, inbox, active, closing, toClose, stray,
                     swallowed, live, ended, dying, deaf, late, nextStream, restarted, breaks>>
      /\ writeFailed' \in [Panes -> BOOLEAN]
  BY PanelFacts DEF WriteFails, IInv, TypeOK
<1>a. CASE busy[p]
  <2>1. UNCHANGED <<att, atts, gen, busy>>
    BY <1>a DEF WriteFails
  <2>2. TypeOK' /\ Shutters' /\ AllClaimed' /\ Fresh' /\ Apart'
    <3>1. TypeOK' /\ Shutters' /\ Fresh'
      BY <1>0, <2>1 DEF IInv, TypeOK, Shutters, Fresh
    <3>2. AllClaimed'
      <4>1. \A q \in Panes, s \in live : Has(q, s) => Has(q, s)'
        BY <1>0, <2>1 DEF Has, Told, Latest
      <4> QED
        BY <4>1, <1>0, <2>1 DEF IInv, AllClaimed, Claimed, AnswerLost
    <3>3. Apart'
      BY <1>0, <2>1 DEF IInv, Apart, Known
    <3> QED
      BY <3>1, <3>2, <3>3
  <2>3. ASSUME NEW q \in Panes PROVE PanelInv(q)' /\ Listens(q)'
    BY <1>0, <2>1 DEF IInv, PanelInv, Listens, Latest
  <2>4. ASSUME NEW a \in Atts PROVE AttInv(a)' /\ Announced(a)'
    BY <1>0, <2>1 DEF IInv, AttInv, Announced, Latest, Told, Running
  <2> QED
    BY <2>2, <2>3, <2>4 DEF IInv
<1>b. CASE ~busy[p]
  <2>e. Asks(p, ref[p])
    BY <1>0, <1>b, Establishes DEF WriteFails
  <2>1. TypeOK'
    BY <1>0, <2>e, Bounds DEF IInv, TypeOK, Asks
  <2>2. Shutters'
    BY <1>0 DEF Shutters, IInv
  <2>3. AllClaimed'
    <3> SUFFICES ASSUME window, NEW s \in live \ ended PROVE Claimed(s)'
      BY <1>0 DEF AllClaimed
    <3>1. Claimed(s) /\ s # 0
      BY Bounds DEF IInv, AllClaimed, TypeOK
    <3>2. ASSUME NEW q \in Panes, Has(q, s) PROVE Has(q, s)'
      <4>1. CASE q = p
        BY <4>1, <3>2, <3>1, <1>0, <1>b, <2>e DEF Has, Asks, Asking, Told, Latest
      <4>2. CASE q # p
        <5>1. gen[q] \in Atts
          BY <3>2, PanelFacts DEF Has
        <5>2. gen'[q] = gen[q] /\ busy'[q] = busy[q] /\ att'[gen[q]] = att[gen[q]]
          BY <5>1, <4>2, <2>e DEF Asks
        <5> QED
          BY <5>2, <3>2, <1>0 DEF Has, Told, Latest
      <4> QED
        BY <4>1, <4>2
    <3>3. ASSUME AnswerLost(s) PROVE AnswerLost(s)'
      BY <3>3, <2>e DEF Asks, AnswerLost, NoAtt
    <3> QED
      BY <3>1, <3>2, <3>3, <1>0 DEF Claimed
  <2>k. ASSUME NEW q \in Panes, NEW s \in Streams PROVE Known(q, s)' => Known(q, s)
    <3>1. CASE q = p
      BY <3>1, <1>0, <2>e, Bounds DEF Known, Asks, Asking
    <3>2. CASE q # p
      <4>1. busy[q] => gen[q] \in Atts
        BY PanelFacts
      <4> QED
        BY <4>1, <3>2, <1>0, <2>e DEF Known, Asks
    <3> QED
      BY <3>1, <3>2
  <2>f. Fresh'
    BY <1>0 DEF IInv, Fresh
  <2>4. Apart'
    <3> SUFFICES ASSUME ~restarted PROVE Apart'
      BY <1>0 DEF Apart
    <3>2. ASSUME NEW a \in Atts PROVE att'[a].stream < nextStream
      <4>1. att[a].stream < nextStream /\ 0 < nextStream
        BY DEF IInv, TypeOK, Apart
      <4> QED
        BY <4>1, <2>e DEF Asks, Asking
    <3> QED
      BY <1>0, <2>k, <3>2 DEF IInv, Apart
  <2>5. ASSUME NEW q \in Panes PROVE PanelInv(q)' /\ Listens(q)'
    <3>1. CASE q = p
      BY <3>1, <1>0, <2>e, Bounds DEF PanelInv, Listens, Asks, Asking, Latest, IInv
    <3>2. CASE q # p
      <4>1. PanelInv(q) /\ Listens(q) /\ gen[q] \in Nat /\ (gen[q] # 0 => gen[q] \in Atts)
        BY PanelFacts DEF IInv
      <4>2. /\ gen'[q] = gen[q] /\ busy'[q] = busy[q] /\ pane'[q] = pane[q]
            /\ bound'[q] = bound[q] /\ next'[q] = next[q] /\ ref'[q] = ref[q]
            /\ (gen[q] # 0 => att'[gen[q]] = att[gen[q]]) /\ gen[q] <= atts'
        BY <4>1, <3>2, <1>0, <2>e DEF Asks, PanelInv
      <4> QED
        BY <4>1, <4>2, <1>0 DEF PanelInv, Listens, Latest
    <3> QED
      BY <3>1, <3>2
  <2>6. ASSUME NEW a \in Atts PROVE AttInv(a)' /\ Announced(a)'
    <3>1. CASE a = atts + 1
      BY <3>1, <1>0, <2>e, Bounds DEF AttInv, Announced, Asks, Asking, Latest
    <3>2. CASE a # atts + 1
      <4>1. att'[a] = att[a] /\ inbox'[a] = inbox[a] /\ AttInv(a) /\ Announced(a) /\ (a > atts' => a > atts)
        BY <3>2, <1>0, <2>e, AttFacts DEF Asks
      <4>2. ASSUME att[a].conn \in {"asked", "answered"}
            PROVE  gen'[att[a].owner] = a /\ busy'[att[a].owner]
        <5>1. att[a].owner \in Panes /\ gen[att[a].owner] = a /\ busy[att[a].owner]
          BY <4>1, <4>2, AttFacts DEF AttInv
        <5> QED
          BY <5>1, <1>b, <2>e DEF Asks
      <4>3. AttInv(a)'
        BY <4>1, <4>2, <1>0 DEF AttInv, Latest
      <4>4. Announced(a)'
        BY <4>1, <1>0 DEF Announced, Told, Running
      <4> QED
        BY <4>3, <4>4
    <3> QED
      BY <3>1, <3>2
  <2> QED
    BY <2>1, <2>2, <2>3, <2>f, <2>4, <2>5, <2>6 DEF IInv
<1> QED
  BY <1>a, <1>b

\* A panel closed before the answer came has the session closed.
LEMMA ResolveStep ==
  ASSUME IInv, NEW p \in Panes, Resolve(p)
  PROVE  IInv'
<1> USE DEF panelVars, linkVars, closeVars, serverVars
<1> DEFINE t == att[gen[p]].stream
<1>0. /\ busy[p] /\ gen[p] \in Atts /\ att[gen[p]].conn \in {"open", "dropped"}
      /\ t \in Streams /\ t \in 0..MaxStreams /\ t # 0
      /\ UNCHANGED <<window, pane, born, bound, gen, att, atts, inbox, active, toClose, stray, swallowed, live, ended, dying, deaf, late, nextStream, restarted, breaks>>
      /\ busy' = [busy EXCEPT ![p] = FALSE]
  <2>1. busy[p] /\ gen[p] \in Atts /\ att[gen[p]].conn \in {"open", "dropped"} /\ att[gen[p]].reader # "none"
    BY PanelFacts DEF Resolve
  <2> QED
    BY <2>1, AttFacts, Bounds DEF Resolve, AttInv
<1>b. busy' \in [Panes -> BOOLEAN] /\ ~busy'[p] /\ \A q \in Panes : q # p => busy'[q] = busy[q]
  BY <1>0 DEF IInv, TypeOK
<1>p. \/ /\ pane[p] = "open" /\ closing' = closing
         /\ next' = [next EXCEPT ![p] = t] /\ ref' = [ref EXCEPT ![p] = t]
         /\ writeFailed' = [writeFailed EXCEPT ![p] = FALSE]
      \/ /\ pane[p] # "open" /\ closing' = closing \cup {t} /\ UNCHANGED <<next, ref, writeFailed>>
  BY DEF Resolve
<1>q. /\ \A q \in Panes : q # p => next'[q] = next[q] /\ ref'[q] = ref[q]
      /\ \/ pane[p] = "open" /\ next'[p] = t /\ ref'[p] = t /\ closing' = closing
         \/ pane[p] # "open" /\ next'[p] = next[p] /\ ref'[p] = ref[p] /\ closing' = closing \cup {t}
  BY <1>p DEF IInv, TypeOK
<1>1. TypeOK'
  BY <1>0, <1>b, <1>p DEF IInv, TypeOK
<1> HIDE DEF t
<1>2. Shutters'
  BY <1>0 DEF Shutters, IInv
<1>3. AllClaimed'
  <2> SUFFICES ASSUME window, NEW s \in live \ ended PROVE Claimed(s)'
    BY <1>0 DEF AllClaimed
  <2>1. Claimed(s) /\ s # 0
    BY Bounds DEF IInv, AllClaimed, TypeOK
  <2>2. ASSUME NEW q \in Panes, Has(q, s), q # p PROVE Has(q, s)'
    BY <2>2, <1>0, <1>b, <1>q DEF Has, Told, Latest
  <2>3. ASSUME Has(p, s) PROVE Has(p, s)' \/ s \in closing'
    <3>1. s = t
      BY <2>3, <1>0 DEF Has, t
    <3> QED
      BY <3>1, <2>3, <1>0, <1>b, <1>q DEF Has, Told, Latest, t
  <2>4. ASSUME AnswerLost(s) PROVE AnswerLost(s)'
    BY <2>4, <1>0 DEF AnswerLost
  <2> QED
    BY <1>0, <1>q, <2>1, <2>2, <2>3, <2>4 DEF Claimed
<1>k. ASSUME NEW q \in Panes, NEW s \in Streams, Known(q, s)', pane[q] = "open" PROVE Known(q, s)
  BY <1>k, <1>0, <1>b, <1>q DEF Known, t
<1>f. Fresh'
  BY <1>0 DEF IInv, Fresh
<1>4. Apart'
  <2> SUFFICES ASSUME ~restarted PROVE Apart'
    BY <1>0 DEF Apart
  <2>1. \A q \in Panes : bound'[q] < nextStream /\ next'[q] < nextStream
    BY <1>0, <1>q DEF IInv, Apart, t
  <2> QED
    BY <1>0, <1>k, <2>1 DEF IInv, Apart
<1>5. ASSUME NEW q \in Panes PROVE PanelInv(q)' /\ Listens(q)'
  <2>1. CASE q = p
    BY <2>1, <1>0, <1>b, <1>q, PanelFacts DEF PanelInv, Listens, IInv, Latest, t
  <2>2. CASE q # p
    BY <2>2, <1>0, <1>b, <1>q DEF PanelInv, Listens, IInv, Latest
  <2> QED
    BY <2>1, <2>2
<1>6. ASSUME NEW a \in Atts PROVE AttInv(a)' /\ Announced(a)'
  <2>1. ASSUME att[a].conn \in {"asked", "answered"} PROVE att[a].owner # p
    BY <2>1, <1>0, AttFacts DEF AttInv
  <2> QED
    BY <2>1, <1>0, <1>b, <1>q, AttFacts DEF AttInv, Announced, Latest, Told, Running
<1> QED
  BY <1>1, <1>2, <1>3, <1>f, <1>4, <1>5, <1>6 DEF IInv

\* React catches up: what the panel is bound to stays what it was about to be.
LEMMA RenderStep ==
  ASSUME IInv, NEW p \in Panes, Render(p)
  PROVE  IInv'
<1> USE DEF panelVars, linkVars, closeVars, serverVars
<1>0. /\ next[p] # 0 /\ bound' = [bound EXCEPT ![p] = next[p]] /\ next' = [next EXCEPT ![p] = 0]
      /\ UNCHANGED <<window, pane, born, ref, gen, busy, writeFailed, att, atts, inbox, active, closing,
                     toClose, stray, swallowed, live, ended, dying, deaf, late, nextStream, restarted,
                     breaks>>
  BY DEF Render
<1>t. bound \in [Panes -> 0..MaxStreams] /\ next \in [Panes -> 0..MaxStreams]
  BY DEF IInv, TypeOK
<1>a. /\ bound'[p] = next[p] /\ next'[p] = 0
      /\ \A q \in Panes : q # p => bound'[q] = bound[q] /\ next'[q] = next[q]
  BY <1>0, <1>t
<1>l. \A q \in Panes : Latest(q)' = Latest(q)
  BY <1>0, <1>a DEF Latest
<1>p. pane[p] = "open"
  BY <1>0, PanelFacts
<1>1. TypeOK'
  <2>1. bound' \in [Panes -> 0..MaxStreams] /\ next' \in [Panes -> 0..MaxStreams]
    BY <1>0, <1>t, Bounds
  <2> QED
    BY <1>0, <2>1 DEF IInv, TypeOK
<1>2. Shutters' /\ Fresh'
  BY <1>0 DEF IInv, Shutters, Fresh
<1>3. AllClaimed'
  <2>1. ASSUME NEW q \in Panes, NEW s \in live, Has(q, s) PROVE Has(q, s)'
    BY <2>1, <1>0, <1>l DEF Has, Told
  <2> QED
    BY <2>1, <1>0 DEF IInv, AllClaimed, Claimed, AnswerLost
<1>4. Apart'
  <2>1. ASSUME NEW q \in Panes, NEW s \in Streams, Known(q, s)' PROVE Known(q, s)
    BY <2>1, <1>0, <1>a, Bounds DEF Known
  <2>2. ASSUME ~restarted, NEW q \in Panes PROVE bound'[q] < nextStream /\ next'[q] < nextStream
    <3>1. 0 < nextStream /\ bound[q] < nextStream /\ next[q] < nextStream /\ next[p] < nextStream
      BY <2>2 DEF IInv, Apart, TypeOK
    <3> QED
      BY <3>1, <1>a
  <2> QED
    BY <1>0, <2>1, <2>2 DEF IInv, Apart
<1>5. ASSUME NEW q \in Panes PROVE PanelInv(q)' /\ Listens(q)'
  BY <1>0, <1>a, <1>l, <1>p DEF PanelInv, Listens, IInv
<1>6. ASSUME NEW a \in Atts PROVE AttInv(a)' /\ Announced(a)'
  <2>1. att[a].conn = "asked" => att[a].owner \in Panes
    BY AttFacts DEF AttInv
  <2> QED
    BY <2>1, <1>0, <1>l, AttFacts DEF AttInv, Announced, Told, Running
<1> QED
  BY <1>1, <1>2, <1>3, <1>4, <1>5, <1>6 DEF IInv

\* What the attachment got is lost; what the panel was bound to it keeps.
LEMMA RejectStep ==
  ASSUME IInv, NEW p \in Panes, Reject(p)
  PROVE  IInv'
<1> USE DEF panelVars, linkVars, closeVars, serverVars
<1>0. /\ busy[p] /\ gen[p] \in Atts /\ att[gen[p]].conn = "dropped" /\ att[gen[p]].reader = "none"
      /\ UNCHANGED <<window, pane, born, bound, next, ref, gen, att, atts, inbox, active, closing, toClose, stray,
                     swallowed, live, ended, dying, deaf, late, nextStream, restarted, breaks>>
      /\ UNCHANGED writeFailed
      /\ busy' = [busy EXCEPT ![p] = FALSE]
  BY Bounds DEF Reject, IInv, TypeOK, PanelInv, linkVars, closeVars, serverVars
<1>1. TypeOK'
  BY <1>0 DEF IInv, TypeOK
<1>2. Shutters'
  BY <1>0 DEF Shutters, IInv
<1>3. AllClaimed'
  <2> SUFFICES ASSUME window, NEW s \in live \ ended PROVE Claimed(s)'
    BY <1>0 DEF AllClaimed
  <2>1. Claimed(s)
    BY DEF IInv, AllClaimed
  <2>2. ASSUME NEW q \in Panes, Has(q, s) PROVE Has(q, s)' \/ AnswerLost(s)'
    BY <2>2, <1>0 DEF Has, Told, Latest, IInv, TypeOK, AnswerLost
  <2>4. ASSUME AnswerLost(s) PROVE AnswerLost(s)'
    BY <2>4, <1>0 DEF AnswerLost
  <2> QED
    BY <1>0, <2>1, <2>2, <2>4 DEF Claimed
<1>4. Fresh' /\ Apart'
  <2>1. \A q \in Panes : \A s \in Streams : Known(q, s)' => Known(q, s)
    BY <1>0 DEF Known, IInv, TypeOK
  <2> QED
    BY <2>1, <1>0 DEF IInv, Fresh, Apart
<1>5. ASSUME NEW q \in Panes PROVE PanelInv(q)' /\ Listens(q)'
  BY <1>0 DEF IInv, TypeOK, PanelInv, Listens, Latest
<1>6. ASSUME NEW a \in Atts PROVE AttInv(a)' /\ Announced(a)'
  BY <1>0 DEF IInv, TypeOK, AttInv, Announced, Panes, Attachment, Latest, Told, Running
<1> QED
  BY <1>1, <1>2, <1>3, <1>4, <1>5, <1>6 DEF IInv

\* A panel that knows its stream has it closed.
LEMMA ClosePaneStep ==
  ASSUME IInv, NEW p \in Panes, ClosePane(p)
  PROVE  IInv'
<1> USE DEF panelVars, linkVars, closeVars, serverVars
<1>0. /\ pane[p] # "none"
      /\ pane' \in [Panes -> {"none", "open", "exited", "closed"}] /\ closing' \subseteq Streams
      /\ pane'[p] = "closed" /\ \A q \in Panes : q # p => pane'[q] = pane[q]
      /\ closing' = IF bound[p] = 0 THEN closing ELSE closing \cup {bound[p]}
      /\ stray' \subseteq Streams /\ stray \subseteq stray'
      /\ next[p] \in {0, bound[p]} \/ next[p] \in stray'
      /\ next' \in [Panes -> 0..MaxStreams] /\ next'[p] = 0 /\ \A q \in Panes : q # p => next'[q] = next[q]
      /\ UNCHANGED <<window, born, bound, ref, gen, busy, writeFailed, att, atts, inbox, active, toClose,
                     swallowed, live, ended, dying, deaf, late, nextStream, restarted, breaks>>
  <2>1. /\ pane \in [Panes -> {"none", "open", "exited", "closed"}] /\ closing \subseteq Streams
        /\ bound[p] = 0 \/ bound[p] \in Streams
        /\ next \in [Panes -> 0..MaxStreams] /\ 0 \in 0..MaxStreams /\ stray \subseteq Streams
        /\ next[p] = 0 \/ next[p] \in Streams
    BY Bounds DEF IInv, TypeOK
  <2>2. /\ pane[p] \in {"open", "exited"} /\ pane' = [pane EXCEPT ![p] = "closed"]
        /\ next' = [next EXCEPT ![p] = 0]
    BY DEF ClosePane, Shut
  <2>3. /\ stray' \subseteq Streams /\ stray \subseteq stray'
        /\ next[p] \in {0, bound[p]} \/ next[p] \in stray'
    BY <2>1 DEF ClosePane
  <2> QED
    BY <2>1, <2>2, <2>3 DEF ClosePane, Shut
<1>l. \A q \in Panes : q # p => Latest(q)' = Latest(q)
  BY <1>0 DEF Latest
<1>1. TypeOK' /\ Shutters' /\ Fresh'
  BY <1>0 DEF IInv, TypeOK, Shutters, Fresh
<1>2. AllClaimed'
  <2> SUFFICES ASSUME window, NEW s \in live \ ended PROVE Claimed(s)'
    BY <1>0 DEF AllClaimed
  <2>1. Claimed(s) /\ s # 0
    BY Bounds DEF IInv, AllClaimed, TypeOK
  <2>2. ASSUME NEW q \in Panes, Has(q, s) PROVE Has(q, s)' \/ s \in closing' \cup stray'
    <3>1. CASE q = p
      BY <3>1, <2>1, <2>2, <1>0 DEF Has, Told, Latest
    <3>2. CASE q # p
      BY <3>2, <2>2, <1>0, <1>l DEF Has, Told
    <3> QED
      BY <3>1, <3>2
  <2> QED
    BY <2>1, <2>2, <1>0 DEF Claimed, AnswerLost
<1>3. Apart'
  <2>1. ASSUME NEW q \in Panes, NEW s \in Streams, Known(q, s)' PROVE Known(q, s)
    BY <2>1, <1>0, Bounds DEF Known
  <2>2. ASSUME ~restarted, NEW q \in Panes PROVE bound[q] < nextStream /\ next'[q] < nextStream
    <3>1. 0 < nextStream /\ bound[q] < nextStream /\ next[q] < nextStream
      BY <2>2 DEF IInv, Apart, TypeOK
    <3> QED
      BY <3>1, <1>0
  <2> QED
    BY <2>1, <2>2, <1>0 DEF IInv, Apart
<1>4. ASSUME NEW q \in Panes PROVE PanelInv(q)' /\ Listens(q)'
  <2>1. CASE q = p
    BY <2>1, <1>0, PanelFacts DEF PanelInv, Listens, IInv
  <2>2. CASE q # p
    BY <2>2, <1>0, <1>l DEF PanelInv, Listens, IInv
  <2> QED
    BY <2>1, <2>2
<1>5. ASSUME NEW a \in Atts PROVE AttInv(a)' /\ Announced(a)'
  <2>1. att[a].conn \in {"asked", "answered"} => att[a].owner \in Panes
    BY AttFacts DEF AttInv
  <2>2. Announced(a)'
    BY <1>0, AttFacts DEF Announced, Told, Running
  <2>3. AttInv(a)'
    BY <2>1, <1>0, <1>l, AttFacts DEF AttInv
  <2> QED
    BY <2>2, <2>3
<1> QED
  BY <1>1, <1>2, <1>3, <1>4, <1>5 DEF IInv

(***************************************************************************)
(* Steps that leave the panels and what the attachments are for as they    *)
(* are, and bring no session                                               *)
(***************************************************************************)
Lost(a) == att[a].conn = "dropped" /\ att[a].reader = "none"

Steady ==
  /\ UNCHANGED <<window, pane, bound, next, ref, gen, busy, atts>>
  /\ att' \in [Atts -> Attachment]
  /\ \A a \in Atts : /\ att'[a].owner = att[a].owner /\ att'[a].stream = att[a].stream
                     /\ Lost(a) => Lost(a)'
  /\ ended' \subseteq live' /\ live' \subseteq live /\ live' \ ended' \subseteq live \ ended
  /\ \A p \in Panes : \A s \in live' \ ended' : Has(p, s) => ~Told(gen[p])'
  /\ \A s \in live' : s \in closing \cup toClose \cup stray => s \in (closing \cup toClose \cup stray)'
  /\ (restarted' /\ live' = {}) \/ UNCHANGED <<nextStream, restarted>>

\* Such a step takes no panel's session.
LEMMA SteadyKeeps ==
  ASSUME IInv, Steady
  PROVE  Shutters' /\ AllClaimed' /\ Fresh' /\ Apart' /\ \A p \in Panes : PanelInv(p)'
<1>1. Shutters' /\ Fresh'
  BY DEF Steady, IInv, Shutters, Fresh
<1>l. \A q \in Panes : Latest(q)' = Latest(q)
  BY DEF Latest, Steady
<1>2. AllClaimed'
  <2> SUFFICES ASSUME window, NEW s \in live' \ ended' PROVE Claimed(s)'
    BY DEF AllClaimed, Steady
  <2>1. Claimed(s)
    BY DEF IInv, AllClaimed, Steady
  <2>2. ASSUME NEW p \in Panes, Has(p, s) PROVE Has(p, s)'
    <3>1. gen[p] \in Atts
      BY <2>2, PanelFacts, Bounds DEF Has
    <3>2. gen'[p] = gen[p] /\ busy'[p] = busy[p] /\ pane'[p] = pane[p] /\ ~Told(gen[p])'
      BY <2>2 DEF Steady
    <3>3. att'[gen[p]].stream = att[gen[p]].stream
      BY <3>1 DEF Steady
    <3> QED
      BY <2>2, <3>2, <3>3, <1>l DEF Has
  <2>3. ASSUME AnswerLost(s) PROVE AnswerLost(s)'
    BY <2>3 DEF Steady, AnswerLost, Lost
  <2> QED
    BY <2>1, <2>2, <2>3 DEF Claimed, Steady
<1>3. Apart'
  <2> SUFFICES ASSUME ~restarted' PROVE Apart'
    BY DEF Apart
  <2>1. ~restarted /\ nextStream' = nextStream
    BY DEF Steady
  <2>2. ASSUME NEW p \in Panes, NEW s \in Streams, Known(p, s)' PROVE Known(p, s)
    BY <2>2, PanelFacts DEF Steady, Known
  <2> QED
    BY <2>1, <2>2 DEF IInv, Apart, Steady
<1>4. ASSUME NEW p \in Panes PROVE PanelInv(p)'
  <2>1. PanelInv(p) /\ (gen[p] # 0 => att'[gen[p]].owner = att[gen[p]].owner)
    BY PanelFacts DEF Steady, IInv
  <2> QED
    BY <2>1, <1>l DEF Steady, PanelInv
<1> QED
  BY <1>1, <1>2, <1>3, <1>4

\* Changing a field leaves an attachment an attachment.
LEMMA Fields ==
  ASSUME NEW r \in Attachment
  PROVE  /\ \A c \in {"none", "asked", "answered", "open", "dropped"} : [r EXCEPT !.conn = c] \in Attachment
         /\ \A c \in {"none", "reading", "leaving", "gone"} : [r EXCEPT !.reader = c] \in Attachment
         /\ \A i \in 0..MaxStreams : [r EXCEPT !.stream = i] \in Attachment
         /\ \A i \in 0..MaxStreams : [r EXCEPT !.hint = i] \in Attachment
<1>1. \A c \in {"none", "asked", "answered", "open", "dropped"} : [r EXCEPT !.conn = c] \in Attachment
  BY DEF Attachment
<1>2. \A c \in {"none", "reading", "leaving", "gone"} : [r EXCEPT !.reader = c] \in Attachment
  BY DEF Attachment
<1>3. \A i \in 0..MaxStreams : [r EXCEPT !.stream = i] \in Attachment
  BY DEF Attachment
<1>4. \A i \in 0..MaxStreams : [r EXCEPT !.hint = i] \in Attachment
  BY DEF Attachment
<1> QED
  BY <1>1, <1>2, <1>3, <1>4

LEMMA OpenFailsStep ==
  ASSUME IInv, NEW a \in Atts, OpenFails(a)
  PROVE  IInv'
<1> USE DEF panelVars, linkVars, closeVars, serverVars
<1>0. /\ att[a].conn = "asked"
      /\ att' = [att EXCEPT ![a] = [att[a] EXCEPT !.conn = "dropped"]]
      /\ breaks < MaxBreaks /\ breaks' = breaks + 1
      /\ UNCHANGED <<window, pane, born, bound, next, ref, gen, busy, writeFailed, atts, inbox, active, closing,
                     toClose, stray, swallowed, live, ended, dying, deaf, late, nextStream, restarted>>
  BY DEF OpenFails, Break
<1>t. att \in [Atts -> Attachment]
  BY DEF IInv, TypeOK
<1>a. /\ att' \in [Atts -> Attachment] /\ att'[a].conn = "dropped" /\ att'[a].reader = att[a].reader
      /\ att'[a].owner = att[a].owner /\ att'[a].stream = att[a].stream
      /\ \A b \in Atts : b # a => att'[b] = att[b]
  <2>1. [att[a] EXCEPT !.conn = "dropped"] \in Attachment
    BY <1>t, Fields
  <2> QED
    BY <1>0, <1>t, <2>1 DEF Attachment
<1>1. TypeOK'
  <2>1. breaks' \in 0..MaxBreaks
    <3>1. breaks \in 0..MaxBreaks /\ MaxBreaks \in Nat
      BY Bounds DEF IInv, TypeOK
    <3> QED
      BY <3>1, <1>0
  <2> QED
    BY <1>0, <1>a, <2>1 DEF IInv, TypeOK
<1>2. Steady
  BY <1>0, <1>a DEF Steady, Lost, IInv, Fresh, Has, Told
<1>3. ASSUME NEW p \in Panes PROVE Listens(p)'
  <2>1. pane[p] = "open" => gen[p] \in Atts /\ Listens(p)
    BY PanelFacts DEF IInv
  <2> QED
    BY <2>1, <1>0, <1>a DEF Listens
<1>4. ASSUME NEW b \in Atts PROVE AttInv(b)' /\ Announced(b)'
  <2>1. CASE b = a
    BY <2>1, <1>0, <1>a, AttFacts, Bounds DEF AttInv, Announced, NoAtt, Latest, Told, Running
  <2>2. CASE b # a
    <3>1. AttInv(b) /\ Announced(b) /\ att'[b] = att[b] /\ inbox'[b] = inbox[b]
      BY <2>2, <1>0, <1>a, AttFacts DEF IInv, TypeOK
    <3> QED
      BY <3>1, <2>2, <1>0, AttFacts DEF AttInv, Announced, Latest, Told, Running
  <2> QED
    BY <2>1, <2>2
<1> QED
  BY <1>1, <1>2, <1>3, <1>4, SteadyKeeps DEF IInv

LEMMA OpenEndsStep ==
  ASSUME IInv, NEW a \in Atts, OpenEnds(a)
  PROVE  IInv'
<1> USE DEF panelVars, linkVars, closeVars, serverVars
<1>0. /\ att[a].conn = "answered" /\ att' = [att EXCEPT ![a].conn = "open", ![a].reader = "reading"]
      /\ active' = [active EXCEPT ![att[a].stream] = a]
      /\ UNCHANGED <<window, pane, born, bound, next, ref, gen, busy, writeFailed, atts, inbox, closing, toClose,
                      stray, swallowed, live, ended, dying, deaf, late, nextStream, restarted, breaks>>
  BY DEF OpenEnds
<1>t. att \in [Atts -> Attachment]
  BY DEF IInv, TypeOK
<1>a. /\ att'[a].conn = "open" /\ att'[a].reader = "reading"
      /\ att'[a].owner = att[a].owner /\ att'[a].stream = att[a].stream
      /\ \A b \in Atts : b # a => att'[b] = att[b]
  BY <1>0, <1>t DEF Attachment
<1>b. att' \in [Atts -> Attachment]
  <2>1. [att[a] EXCEPT !.conn = "open"] \in Attachment
    BY <1>t, Fields, Bounds
  <2>2. [[att[a] EXCEPT !.conn = "open"] EXCEPT !.reader = "reading"] \in Attachment
    BY <1>t, <2>1, Fields, Bounds
  <2> QED
    BY <1>t, <1>0, <2>2
<1>1. TypeOK'
  BY <1>0, <1>b, Bounds DEF IInv, TypeOK
<1>2. Steady
  BY <1>0, <1>a, <1>b DEF Steady, Lost, IInv, Fresh, Has, Told
<1>3. ASSUME NEW p \in Panes PROVE Listens(p)'
  <2>1. pane[p] = "open" => gen[p] \in Atts /\ Listens(p) /\ (gen[p] = a => busy[p])
    <3>1. gen[p] = a => att[a].owner = p
      BY OwnerOf
    <3>2. busy[att[a].owner]
      BY <1>0, AttFacts DEF AttInv
    <3> QED
      BY <3>1, <3>2, PanelFacts DEF IInv
  <2> QED
    BY <2>1, <1>0, <1>a DEF Listens
<1>4. ASSUME NEW b \in Atts PROVE AttInv(b)' /\ Announced(b)'
  <2>1. CASE b = a
    BY <2>1, <1>0, <1>a, AttFacts, Bounds DEF AttInv, Announced, NoAtt, Latest, Told, Running
  <2>2. CASE b # a
    <3>1. AttInv(b) /\ Announced(b) /\ att'[b] = att[b] /\ inbox'[b] = inbox[b]
      BY <2>2, <1>0, <1>a, AttFacts DEF IInv, TypeOK
    <3> QED
      BY <3>1, <2>2, <1>0, AttFacts DEF AttInv, Announced, Latest, Told, Running
  <2> QED
    BY <2>1, <2>2
<1> QED
  BY <1>1, <1>2, <1>3, <1>4, SteadyKeeps DEF IInv

LEMMA ReadEndStep ==
  ASSUME IInv, NEW a \in Atts, ReadEnd(a)
  PROVE  IInv'
<1> USE DEF panelVars, linkVars, closeVars, serverVars
<1>0. /\ att[a].reader = "reading" /\ att[a].conn = "dropped"
      /\ att' = [att EXCEPT ![a].reader = "leaving"]
      /\ UNCHANGED <<window, pane, born, bound, next, ref, gen, busy, writeFailed, atts, inbox, active, closing,
                      toClose, stray, swallowed, live, ended, dying, deaf, late, nextStream, restarted, breaks>>
  BY DEF ReadEnd
<1>t. att \in [Atts -> Attachment]
  BY DEF IInv, TypeOK
<1>a. /\ att'[a].conn = "dropped" /\ att'[a].reader = "leaving"
      /\ att'[a].owner = att[a].owner /\ att'[a].stream = att[a].stream
      /\ \A b \in Atts : b # a => att'[b] = att[b]
  BY <1>0, <1>t DEF Attachment
<1>b. att' \in [Atts -> Attachment]
  <2>1. [att[a] EXCEPT !.reader = "leaving"] \in Attachment
    BY <1>t, Fields, Bounds
  <2> QED
    BY <1>t, <1>0, <2>1
<1>1. TypeOK'
  BY <1>0, <1>b, Bounds DEF IInv, TypeOK
<1>2. Steady
  BY <1>0, <1>a, <1>b DEF Steady, Lost, IInv, Fresh, Has, Told
<1>3. ASSUME NEW p \in Panes PROVE Listens(p)'
  <2>1. pane[p] = "open" => gen[p] \in Atts /\ Listens(p)
    BY PanelFacts DEF IInv
  <2> QED
    BY <2>1, <1>0, <1>a DEF Listens
<1>4. ASSUME NEW b \in Atts PROVE AttInv(b)' /\ Announced(b)'
  <2>1. CASE b = a
    BY <2>1, <1>0, <1>a, AttFacts, Bounds DEF AttInv, Announced, NoAtt, Latest, Told, Running
  <2>2. CASE b # a
    <3>1. AttInv(b) /\ Announced(b) /\ att'[b] = att[b] /\ inbox'[b] = inbox[b]
      BY <2>2, <1>0, <1>a, AttFacts DEF IInv, TypeOK
    <3> QED
      BY <3>1, <2>2, <1>0, AttFacts DEF AttInv, Announced, Latest, Told, Running
  <2> QED
    BY <2>1, <2>2
<1> QED
  BY <1>1, <1>2, <1>3, <1>4, SteadyKeeps DEF IInv

LEMMA ReaderCleansStep ==
  ASSUME IInv, NEW a \in Atts, ReaderCleans(a)
  PROVE  IInv'
<1> USE DEF panelVars, linkVars, closeVars, serverVars
<1>0. /\ att[a].reader = "leaving"
      /\ att' = [att EXCEPT ![a].reader = "gone", ![a].conn = "dropped", ![a].hint = 0]
      /\ inbox' = [inbox EXCEPT ![a] = <<>>] /\ active' = [active EXCEPT ![att[a].stream] = 0]
      /\ UNCHANGED <<window, pane, born, bound, next, ref, gen, busy, writeFailed, atts, closing, toClose, stray,
                      swallowed, live, ended, dying, deaf, late, nextStream, restarted, breaks>>
  BY DEF ReaderCleans
<1>t. att \in [Atts -> Attachment]
  BY DEF IInv, TypeOK
<1>a. /\ att'[a].conn = "dropped" /\ att'[a].reader = "gone"
      /\ att'[a].owner = att[a].owner /\ att'[a].stream = att[a].stream
      /\ \A b \in Atts : b # a => att'[b] = att[b]
  BY <1>0, <1>t DEF Attachment
<1>b. att' \in [Atts -> Attachment]
  <2>1. [att[a] EXCEPT !.reader = "gone"] \in Attachment
    BY <1>t, Fields, Bounds
  <2>2. [[att[a] EXCEPT !.reader = "gone"] EXCEPT !.conn = "dropped"] \in Attachment
    BY <1>t, <2>1, Fields, Bounds
  <2>3. [[[att[a] EXCEPT !.reader = "gone"] EXCEPT !.conn = "dropped"] EXCEPT !.hint = 0] \in Attachment
    BY <1>t, <2>2, Fields, Bounds
  <2> QED
    BY <1>t, <1>0, <2>3
<1>1. TypeOK'
  <2>1. /\ inbox \in [Atts -> Seq({"data", "exited"})] /\ <<>> \in Seq({"data", "exited"})
        /\ active \in [Streams -> 0..MaxAtts] /\ 0 \in 0..MaxAtts
    BY Bounds DEF IInv, TypeOK
  <2>2. inbox' \in [Atts -> Seq({"data", "exited"})] /\ active' \in [Streams -> 0..MaxAtts]
    BY <2>1, <1>0
  <2> QED
    BY <1>0, <1>b, <2>2 DEF IInv, TypeOK
<1>2. Steady
  BY <1>0, <1>a, <1>b DEF Steady, Lost, IInv, Fresh, Has, Told
<1>3. ASSUME NEW p \in Panes PROVE Listens(p)'
  <2>1. pane[p] = "open" => gen[p] \in Atts /\ Listens(p)
    BY PanelFacts DEF IInv
  <2> QED
    BY <2>1, <1>0, <1>a DEF Listens
<1>4. ASSUME NEW b \in Atts PROVE AttInv(b)' /\ Announced(b)'
  <2>1. CASE b = a
    BY <2>1, <1>0, <1>a, AttFacts, Bounds DEF AttInv, Announced, NoAtt, Latest, Told, Running
  <2>2. CASE b # a
    <3>1. AttInv(b) /\ Announced(b) /\ att'[b] = att[b] /\ inbox'[b] = inbox[b]
      BY <2>2, <1>0, <1>a, AttFacts DEF IInv, TypeOK
    <3> QED
      BY <3>1, <2>2, <1>0, AttFacts DEF AttInv, Announced, Latest, Told, Running
  <2> QED
    BY <2>1, <2>2
<1> QED
  BY <1>1, <1>2, <1>3, <1>4, SteadyKeeps DEF IInv

LEMMA ConnDropsStep ==
  ASSUME IInv, NEW a \in Atts, ConnDrops(a)
  PROVE  IInv'
<1> USE DEF panelVars, linkVars, closeVars, serverVars
<1>0. /\ att[a].conn \in {"answered", "open"} /\ att' = [att EXCEPT ![a] = [att[a] EXCEPT !.conn = "dropped"]]
      /\ breaks < MaxBreaks /\ breaks' = breaks + 1
      /\ UNCHANGED <<window, pane, born, bound, next, ref, gen, busy, writeFailed, atts, inbox, active, closing,
                      toClose, stray, swallowed, live, ended, dying, deaf, late, nextStream, restarted>>
  BY DEF ConnDrops, Drop, Break
<1>t. att \in [Atts -> Attachment]
  BY DEF IInv, TypeOK
<1>a. /\ att'[a].conn = "dropped" /\ att'[a].reader = att[a].reader
      /\ att'[a].owner = att[a].owner /\ att'[a].stream = att[a].stream
      /\ \A b \in Atts : b # a => att'[b] = att[b]
  BY <1>0, <1>t DEF Attachment
<1>b. att' \in [Atts -> Attachment]
  <2>1. [att[a] EXCEPT !.conn = "dropped"] \in Attachment
    BY <1>t, Fields, Bounds
  <2> QED
    BY <1>t, <1>0, <2>1
<1>1. TypeOK'
  <2>1. breaks' \in 0..MaxBreaks
    <3>1. breaks \in 0..MaxBreaks /\ MaxBreaks \in Nat
      BY Bounds DEF IInv, TypeOK
    <3> QED
      BY <3>1, <1>0
  <2> QED
    BY <1>0, <1>b, <2>1 DEF IInv, TypeOK
<1>2. Steady
  BY <1>0, <1>a, <1>b DEF Steady, Lost, IInv, Fresh, Has, Told
<1>3. ASSUME NEW p \in Panes PROVE Listens(p)'
  <2>1. pane[p] = "open" => gen[p] \in Atts /\ Listens(p)
    BY PanelFacts DEF IInv
  <2> QED
    BY <2>1, <1>0, <1>a DEF Listens
<1>4. ASSUME NEW b \in Atts PROVE AttInv(b)' /\ Announced(b)'
  <2>1. CASE b = a
    BY <2>1, <1>0, <1>a, AttFacts, Bounds DEF AttInv, Announced, NoAtt, Latest, Told, Running
  <2>2. CASE b # a
    <3>1. AttInv(b) /\ Announced(b) /\ att'[b] = att[b] /\ inbox'[b] = inbox[b]
      BY <2>2, <1>0, <1>a, AttFacts DEF IInv, TypeOK
    <3> QED
      BY <3>1, <2>2, <1>0, AttFacts DEF AttInv, Announced, Latest, Told, Running
  <2> QED
    BY <2>1, <2>2
<1> QED
  BY <1>1, <1>2, <1>3, <1>4, SteadyKeeps DEF IInv

LEMMA ServerRestartsStep ==
  ASSUME IInv, ServerRestarts
  PROVE  IInv'
<1> USE DEF panelVars, linkVars, closeVars, serverVars
<1>0. /\ att' = [a \in Atts |-> Drop(a)] /\ restarted' = TRUE /\ live' = {} /\ nextStream' = 1
      /\ ended' = {} /\ dying' = {} /\ late' = {} /\ toClose' = {} /\ stray' = {} /\ breaks < MaxBreaks /\ breaks' = breaks + 1
      /\ UNCHANGED <<window, pane, born, bound, next, ref, gen, busy, writeFailed, atts, inbox, active, closing,
                      swallowed, deaf>>
  BY DEF ServerRestarts, Break
<1>a. ASSUME NEW a \in Atts
      PROVE  /\ att'[a] \in Attachment
             /\ att'[a].owner = att[a].owner /\ att'[a].stream = att[a].stream /\ att'[a].reader = att[a].reader
             /\ \/ att[a].conn = "none" /\ att'[a] = att[a]
                \/ att[a].conn # "none" /\ att'[a].conn = "dropped"
  <2>1. CASE att[a].conn = "none"
    <3>1. att'[a] = att[a] /\ att[a] \in Attachment
      BY <2>1, <1>0, AttFacts DEF Drop
    <3> QED
      BY <2>1, <3>1
  <2>2. CASE att[a].conn # "none"
    <3>1. att'[a] = [att[a] EXCEPT !.conn = "dropped"] /\ att[a] \in Attachment
      BY <2>2, <1>0, AttFacts DEF Drop
    <3>2. att'[a] \in Attachment
      BY <3>1, Fields
    <3> QED
      BY <2>2, <3>1, <3>2 DEF Attachment
  <2> QED
    BY <2>1, <2>2
<1>1. TypeOK'
  BY <1>0, <1>a, TerminalsAssumption DEF IInv, TypeOK
<1>2. Steady
  BY <1>0, <1>a DEF Steady, Lost, IInv, Fresh, Has, Told
<1>3. ASSUME NEW p \in Panes PROVE Listens(p)'
  <2> SUFFICES ASSUME pane[p] = "open" PROVE Listens(p)'
    BY <1>0 DEF Listens
  <2>1. gen[p] \in Atts /\ Listens(p)
    BY PanelFacts DEF IInv
  <2> QED
    BY <2>1, <1>0, <1>a DEF Listens
<1>4. ASSUME NEW b \in Atts PROVE AttInv(b)' /\ Announced(b)'
  BY <1>0, <1>a, AttFacts DEF AttInv, Announced, NoAtt, Latest, Told, Running
<1> QED
  BY <1>1, <1>2, <1>3, <1>4, SteadyKeeps DEF IInv

\* The merge loop takes two frames at once.
LEMMA TwoTails ==
  ASSUME NEW q \in Seq({"data", "exited"}), Len(q) > 1
  PROVE  Tail(Tail(q)) \in Seq({"data", "exited"}) /\ Tail(q) # <<>>
<1>1. q # <<>> /\ Len(q) \in Nat
  OBVIOUS
<1>2. Tail(q) \in Seq({"data", "exited"}) /\ Len(Tail(q)) = Len(q) - 1
  BY <1>1
<1>3. ASSUME NEW n \in Nat, n > 1 PROVE n - 1 # 0
  BY <1>3
<1>4. Len(Tail(q)) # 0
  BY <1>1, <1>2, <1>3
<1>5. Len(<<>>) = 0
  OBVIOUS
<1>6. Tail(q) # <<>>
  BY <1>4, <1>5
<1> QED
  BY <1>2, <1>6

\* What is behind the first frame was there before.
LEMMA TailHas ==
  ASSUME NEW q \in Seq({"data", "exited"}), q # <<>>,
         \E i \in DOMAIN Tail(q) : Tail(q)[i] = "exited"
  PROVE  \E i \in DOMAIN q : q[i] = "exited"
<1>1. PICK i \in DOMAIN Tail(q) : Tail(q)[i] = "exited"
  OBVIOUS
<1>2. i + 1 \in DOMAIN q /\ q[i + 1] = "exited"
  BY <1>1
<1> QED
  BY <1>2

LEMMA ReadDataStep ==
  ASSUME IInv, NEW a \in Atts, ReadData(a)
  PROVE  IInv'
<1> USE DEF panelVars, linkVars, closeVars, serverVars
<1>0. /\ inbox[a] # <<>> /\ Head(inbox[a]) = "data"
      /\ UNCHANGED <<window, pane, born, bound, next, ref, gen, busy, writeFailed, att, atts, active, closing, toClose,
                      stray, live, ended, dying, deaf, late, nextStream, restarted, breaks>>
  BY DEF ReadData
<1>t. inbox \in [Atts -> Seq({"data", "exited"})] /\ swallowed \subseteq Atts
  BY DEF IInv, TypeOK
<1>a. \/ inbox' = [inbox EXCEPT ![a] = Tail(inbox[a])] /\ swallowed' = swallowed
      \/ /\ Len(inbox[a]) > 1 /\ inbox' = [inbox EXCEPT ![a] = Tail(Tail(inbox[a]))]
         /\ swallowed' = swallowed \cup {a}
  BY DEF ReadData
<1>b. /\ inbox' \in [Atts -> Seq({"data", "exited"})] /\ swallowed' \subseteq Atts
      /\ \A b \in Atts : b # a => inbox'[b] = inbox[b] /\ (b \in swallowed' <=> b \in swallowed)
      /\ a \in swallowed' \/ (inbox'[a] = Tail(inbox[a]) /\ swallowed' = swallowed)
      /\ inbox'[a] = Tail(inbox[a]) \/ (Len(inbox[a]) > 1 /\ inbox'[a] = Tail(Tail(inbox[a])))
  <2>1. inbox[a] \in Seq({"data", "exited"}) /\ Tail(inbox[a]) \in Seq({"data", "exited"})
    BY <1>0, <1>t
  <2>2. Len(inbox[a]) > 1 => Tail(Tail(inbox[a])) \in Seq({"data", "exited"})
    BY <2>1, <1>0, TwoTails
  <2> QED
    BY <2>1, <2>2, <1>t, <1>a
<1>c. ASSUME NEW i \in DOMAIN inbox[a], inbox[a][i] = "exited"
      PROVE  i - 1 \in DOMAIN Tail(inbox[a]) /\ Tail(inbox[a])[i - 1] = "exited"
  BY <1>c, <1>0, <1>t
<1>d. ASSUME NEW b \in Atts, Told(b)' PROVE Told(b)
  <2>1. CASE b # a
    BY <2>1, <1>b, <1>d DEF Told
  <2>2. CASE b = a
    <3>1. inbox[a] \in Seq({"data", "exited"})
      BY <1>t
    <3>2. CASE inbox'[a] = Tail(inbox[a])
      BY <3>1, <3>2, <2>2, <1>0, <1>d, TailHas DEF Told
    <3>3. CASE Len(inbox[a]) > 1 /\ inbox'[a] = Tail(Tail(inbox[a]))
      <4>1. Tail(inbox[a]) \in Seq({"data", "exited"}) /\ Tail(inbox[a]) # <<>>
        BY <3>1, <3>3, TwoTails
      <4>2. \E i \in DOMAIN Tail(inbox[a]) : Tail(inbox[a])[i] = "exited"
        BY <4>1, <3>3, <2>2, <1>d, TailHas DEF Told
      <4> QED
        BY <4>2, <3>1, <2>2, <1>0, TailHas DEF Told
    <3> QED
      BY <3>2, <3>3, <1>b
  <2> QED
    BY <2>1, <2>2
<1>1. TypeOK'
  BY <1>0, <1>b DEF IInv, TypeOK
<1>2. Steady
  <2>1. ASSUME NEW p \in Panes, NEW s \in live, Has(p, s) PROVE ~Told(gen[p])'
    <3>1. gen[p] \in Atts
      BY <2>1, PanelFacts, Bounds DEF Has
    <3> QED
      BY <3>1, <2>1, <1>0, <1>d DEF Has, Told
  <2> QED
    BY <2>1, <1>0 DEF Steady, Lost, IInv, TypeOK, Fresh
<1>3. ASSUME NEW p \in Panes PROVE Listens(p)'
  BY <1>0 DEF IInv, Listens
<1>4. ASSUME NEW b \in Atts PROVE AttInv(b)' /\ Announced(b)'
  <2>1. AttInv(b)'
    <3>1. AttInv(b) /\ (inbox[b] = <<>> => inbox'[b] = <<>>)
      BY <1>0, <1>b, AttFacts
    <3> QED
      BY <3>1, <1>0 DEF AttInv, Latest
  <2>2. Announced(b)'
    <3>1. Announced(b)
      BY AttFacts
    <3>2. CASE b = a
      BY <3>1, <3>2, <1>0, <1>b, <1>c DEF Announced, Told, Running
    <3>3. CASE b # a
      BY <3>1, <3>3, <1>0, <1>b DEF Announced, Told, Running
    <3> QED
      BY <3>2, <3>3
  <2> QED
    BY <2>1, <2>2
<1> QED
  BY <1>1, <1>2, <1>3, <1>4, SteadyKeeps DEF IInv

LEMMA CloseStep ==
  ASSUME IInv, NEW s \in Streams, Close(s)
  PROVE  IInv'
<1> USE DEF panelVars, linkVars, closeVars, serverVars
<1>0. /\ s \in closing /\ closing' = closing \ {s}
      /\ \/ stray' = stray \cup {s} /\ UNCHANGED <<toClose, active>>
         \/ toClose' = toClose \cup {s} /\ active' = [active EXCEPT ![s] = 0] /\ UNCHANGED stray
      /\ UNCHANGED <<window, pane, born, bound, next, ref, gen, busy, writeFailed, att, atts, inbox, swallowed, live, ended, dying, deaf, late, nextStream, restarted, breaks>>
  BY DEF Close
<1>1. TypeOK'
  <2>1. active \in [Streams -> 0..MaxAtts] /\ 0 \in 0..MaxAtts
    BY Bounds DEF IInv, TypeOK
  <2>2. active' \in [Streams -> 0..MaxAtts]
    BY <2>1, <1>0
  <2> QED
    BY <1>0, <2>2 DEF IInv, TypeOK
<1>2. Steady
  BY <1>0 DEF Steady, Lost, IInv, TypeOK, Fresh, Has, Told
<1>3. ASSUME NEW p \in Panes PROVE Listens(p)'
  BY <1>0 DEF IInv, Listens
<1>4. ASSUME NEW b \in Atts PROVE AttInv(b)' /\ Announced(b)'
  BY <1>0, AttFacts DEF AttInv, Announced, Latest, Told, Running
<1> QED
  BY <1>1, <1>2, <1>3, <1>4, SteadyKeeps DEF IInv

\* A frame more behind an exit that waits.
LEMMA AppendKeeps ==
  ASSUME NEW q \in Seq({"data", "exited"}), NEW x \in {"data", "exited"}
  PROVE  /\ Append(q, x) \in Seq({"data", "exited"})
         /\ x = "data" /\ (\E i \in DOMAIN Append(q, x) : Append(q, x)[i] = "exited") =>
              \E i \in DOMAIN q : q[i] = "exited"
         /\ x = "exited" \/ (\E i \in DOMAIN q : q[i] = "exited") =>
              \E i \in DOMAIN Append(q, x) : Append(q, x)[i] = "exited"
<1>1. Append(q, x) \in Seq({"data", "exited"}) /\ DOMAIN Append(q, x) = 1..(Len(q) + 1) /\ DOMAIN q = 1..Len(q)
      /\ Len(q) \in Nat
  OBVIOUS
<1>2. Append(q, x)[Len(q) + 1] = x /\ \A i \in 1..Len(q) : Append(q, x)[i] = q[i]
  OBVIOUS
<1>3. /\ Len(q) + 1 \in 1..(Len(q) + 1) /\ \A i \in 1..Len(q) : i \in 1..(Len(q) + 1)
      /\ \A i \in 1..(Len(q) + 1) : i = Len(q) + 1 \/ i \in 1..Len(q)
  BY <1>1
<1> QED
  BY <1>1, <1>2, <1>3

LEMMA OutputStep ==
  ASSUME IInv, NEW s \in Streams, Output(s)
  PROVE  IInv'
<1> USE DEF panelVars, linkVars, closeVars, serverVars
<1>0. /\ inbox' = [a \in Atts |-> IF Subscribed(a, s) THEN Append(inbox[a], "data") ELSE inbox[a]]
      /\ UNCHANGED <<window, pane, born, bound, next, ref, gen, busy, writeFailed, att, atts, active, closing, toClose,
                      stray, swallowed, live, ended, dying, deaf, late, nextStream, restarted, breaks>>
  BY DEF Output
<1>t. \A a \in Atts : inbox[a] \in Seq({"data", "exited"})
  BY DEF IInv, TypeOK
<1>a. inbox' \in [Atts -> Seq({"data", "exited"})]
  BY <1>0, <1>t, AppendKeeps
<1>1. TypeOK'
  BY <1>0, <1>a DEF IInv, TypeOK
<1>d. ASSUME NEW b \in Atts, Told(b)' PROVE Told(b)
  <2>1. CASE Subscribed(b, s)
    BY <2>1, <1>0, <1>d, <1>t, AppendKeeps DEF Told
  <2>2. CASE ~Subscribed(b, s)
    BY <2>2, <1>0, <1>d DEF Told
  <2> QED
    BY <2>1, <2>2
<1>2. Steady
  <2>1. ASSUME NEW p \in Panes, NEW u \in live, Has(p, u) PROVE ~Told(gen[p])'
    <3>1. gen[p] \in Atts
      BY <2>1, PanelFacts, Bounds DEF Has
    <3> QED
      BY <3>1, <2>1, <1>0, <1>d DEF Has, Told
  <2> QED
    BY <2>1, <1>0 DEF Steady, Lost, IInv, TypeOK, Fresh
<1>3. ASSUME NEW p \in Panes PROVE Listens(p)'
  BY <1>0 DEF IInv, Listens
<1>4. ASSUME NEW b \in Atts PROVE AttInv(b)' /\ Announced(b)'
  <2>1. AttInv(b)'
    <3>1. att[b].conn = "asked" => ~Subscribed(b, s)
      BY DEF Subscribed
    <3>2. b > atts => ~Subscribed(b, s)
      BY AttFacts DEF AttInv, NoAtt, Subscribed
    <3> QED
      BY <3>1, <3>2, <1>0, AttFacts DEF AttInv, Latest
  <2>2. Announced(b)'
    <3>1. Announced(b) /\ (Told(b) => Told(b)')
      <4>1. CASE Subscribed(b, s)
        BY <4>1, <1>0, <1>t, AttFacts, AppendKeeps DEF Told
      <4>2. CASE ~Subscribed(b, s)
        BY <4>2, <1>0, AttFacts DEF Told
      <4> QED
        BY <4>1, <4>2
    <3> QED
      BY <3>1, <1>0 DEF Announced, Running
  <2> QED
    BY <2>1, <2>2
<1> QED
  BY <1>1, <1>2, <1>3, <1>4, SteadyKeeps DEF IInv

\* The end of a session is put where each of those subscribed will read it; none of
\* them is the claim to another session.
LEMMA AnnouncesStep ==
  ASSUME IInv, NEW s \in Streams, Announces(s)
  PROVE  IInv'
<1> USE DEF panelVars, linkVars, closeVars, serverVars
<1>0. /\ s \in Running
      /\ inbox' = [a \in Atts |-> IF Subscribed(a, s) THEN Append(inbox[a], "exited") ELSE inbox[a]]
      /\ ended' = IF s \in live THEN ended \cup {s} ELSE ended
      /\ dying' = dying \ {s}
      /\ UNCHANGED <<window, pane, born, bound, next, ref, gen, busy, writeFailed, att, atts, active, closing,
                      toClose, stray, swallowed, live, deaf, late, nextStream, restarted, breaks>>
  BY DEF Announces
<1>t. \A a \in Atts : inbox[a] \in Seq({"data", "exited"})
  BY DEF IInv, TypeOK
<1>a. inbox' \in [Atts -> Seq({"data", "exited"})]
  BY <1>0, <1>t, AppendKeeps
<1>r. Running' = Running \ {s}
  BY <1>0 DEF Running
<1>1. TypeOK'
  BY <1>0, <1>a DEF IInv, TypeOK
<1>2. Steady
  <2>1. ended' \subseteq live /\ live \ ended' \subseteq (live \ ended) \ {s}
    BY <1>0 DEF IInv, Fresh
  <2>2. ASSUME NEW p \in Panes, NEW u \in live \ ended', Has(p, u) PROVE ~Told(gen[p])'
    <3>1. gen[p] \in Atts /\ ~Told(gen[p]) /\ u # s /\ s # 0
      BY <2>1, <2>2, PanelFacts, Bounds DEF Has
    <3>2. ~Subscribed(gen[p], s)
      <4> SUFFICES ASSUME Subscribed(gen[p], s) PROVE FALSE
        OBVIOUS
      <4>1. pane[p] = "open" /\ Latest(p) = u /\ ~busy[p]
        BY <3>1, <2>2 DEF Has, Subscribed
      <4>2. att[gen[p]].owner = p /\ AttInv(gen[p]) /\ att[gen[p]].conn \in {"answered", "open"}
        BY <3>1, PanelFacts, AttFacts, Bounds DEF Subscribed
      <4>3. att[gen[p]].reader # "none"
        BY <4>1, <4>2 DEF AttInv
      <4>4. ref[p] = s
        BY <4>1, <4>3 DEF IInv, Listens, Subscribed
      <4> QED
        BY <4>1, <4>4, <3>1, PanelFacts
    <3> QED
      BY <3>1, <3>2, <1>0 DEF Told
  <2> QED
    BY <2>1, <2>2, <1>0 DEF Steady, Lost, IInv, TypeOK
<1>3. ASSUME NEW p \in Panes PROVE Listens(p)'
  BY <1>0 DEF IInv, Listens
<1>4. ASSUME NEW b \in Atts PROVE AttInv(b)' /\ Announced(b)'
  <2>1. AttInv(b)'
    <3>1. att[b].conn = "asked" => ~Subscribed(b, s)
      BY DEF Subscribed
    <3>2. b > atts => ~Subscribed(b, s)
      BY AttFacts DEF AttInv, NoAtt, Subscribed
    <3> QED
      BY <3>1, <3>2, <1>0, AttFacts DEF AttInv, Latest
  <2>2. Announced(b)'
    <3>1. CASE Subscribed(b, s)
      BY <3>1, <1>0, <1>t, AppendKeeps DEF Announced, Told
    <3>2. CASE ~Subscribed(b, s)
      <4>1. Announced(b) /\ inbox'[b] = inbox[b]
        BY <3>2, <1>0, AttFacts
      <4> QED
        BY <4>1, <3>2, <1>0, <1>r DEF Announced, Told, Subscribed
    <3> QED
      BY <3>1, <3>2
  <2> QED
    BY <2>1, <2>2
<1> QED
  BY <1>1, <1>2, <1>3, <1>4, SteadyKeeps DEF IInv

\* Who was to be told has been told.
LEMMA SessionGoesStep ==
  ASSUME IInv, NEW s \in Streams, SessionGoes(s)
  PROVE  IInv'
<1> USE DEF panelVars, linkVars, closeVars, serverVars
<1>0. /\ s \in ended /\ live' = live \ {s} /\ ended' = ended \ {s}
      /\ UNCHANGED <<window, pane, born, bound, next, ref, gen, busy, writeFailed, att, atts, inbox, active,
                      closing, toClose, stray, swallowed, dying, deaf, late, nextStream, restarted, breaks>>
  BY DEF SessionGoes
<1>1. TypeOK'
  BY <1>0 DEF IInv, TypeOK
<1>2. Steady
  BY <1>0 DEF Steady, Lost, IInv, TypeOK, Fresh, Has, Told
<1>3. ASSUME NEW p \in Panes PROVE Listens(p)'
  BY <1>0 DEF IInv, Listens
<1>4. ASSUME NEW b \in Atts PROVE AttInv(b)' /\ Announced(b)'
  <2>1. Running' = Running
    BY <1>0 DEF Running
  <2> QED
    BY <2>1, <1>0, AttFacts DEF AttInv, Announced, Latest, Told
<1> QED
  BY <1>1, <1>2, <1>3, <1>4, SteadyKeeps DEF IInv

LEMMA ServerClosesStep ==
  ASSUME IInv, NEW s \in Streams, ServerCloses(s)
  PROVE  IInv'
<1> USE DEF panelVars, linkVars, closeVars, serverVars
<1>0. /\ toClose' = toClose \ {s} /\ live' = live \ {s} /\ ended' = ended \ {s}
      /\ dying' = IF s \in live \ ended THEN dying \cup {s} ELSE dying
      /\ UNCHANGED <<window, pane, born, bound, next, ref, gen, busy, writeFailed, att, atts, inbox, active,
                      closing, stray, swallowed, deaf, late, nextStream, restarted, breaks>>
  BY DEF ServerCloses
<1>1. TypeOK'
  BY <1>0 DEF IInv, TypeOK
<1>2. Steady
  BY <1>0 DEF Steady, Lost, IInv, TypeOK, Fresh, Has, Told
<1>3. ASSUME NEW p \in Panes PROVE Listens(p)'
  BY <1>0 DEF IInv, Listens
<1>4. ASSUME NEW b \in Atts PROVE AttInv(b)' /\ Announced(b)'
  <2>1. Running' = Running
    BY <1>0 DEF Running
  <2> QED
    BY <2>1, <1>0, AttFacts DEF AttInv, Announced, Latest, Told
<1> QED
  BY <1>1, <1>2, <1>3, <1>4, SteadyKeeps DEF IInv

(***************************************************************************)
(* Steps that bring a session, an end, a window                            *)
(***************************************************************************)
\* What the server made for a window that is gone nobody has claimed.
LEMMA LateOpensStep ==
  ASSUME IInv, NEW r \in late, LateOpens(r)
  PROVE  IInv'
<1> USE DEF panelVars, linkVars, closeVars, serverVars
<1>0. /\ late' \subseteq late
      /\ UNCHANGED <<window, pane, born, bound, next, ref, gen, busy, writeFailed, att, atts, inbox, active,
                      closing, toClose, swallowed, ended, dying, deaf, restarted, breaks>>
      /\ \/ UNCHANGED <<live, nextStream, stray>>
         \/ /\ nextStream <= MaxStreams /\ live' = live \cup {nextStream} /\ nextStream' = nextStream + 1
            /\ stray' = IF window THEN stray \cup {nextStream} ELSE stray
  BY DEF LateOpens, NewSession
<1>t. nextStream \in 1..(MaxStreams + 1) /\ live \subseteq Streams /\ MaxStreams \in Nat
  BY Bounds DEF IInv, TypeOK
<1>a. /\ live \subseteq live' /\ nextStream <= nextStream' /\ nextStream' \in 1..(MaxStreams + 1)
      /\ live' \subseteq Streams /\ stray \subseteq stray' /\ stray' \subseteq Streams
      /\ \A s \in live' : s \in live \/ (s = nextStream /\ nextStream' = nextStream + 1)
      /\ window => \A s \in live' : s \in live \/ s \in stray'
  <2>1. nextStream <= MaxStreams => nextStream \in Streams /\ nextStream + 1 \in 1..(MaxStreams + 1)
    BY <1>t DEF Streams
  <2>2. stray \subseteq Streams
    BY DEF IInv, TypeOK
  <2> QED
    BY <2>1, <2>2, <1>0, <1>t
<1>1. TypeOK'
  BY <1>0, <1>a DEF IInv, TypeOK
<1>2. Shutters' /\ Fresh'
  <2>1. \A s \in live' : s < nextStream'
    BY <1>a, <1>t DEF IInv, Fresh, Streams
  <2> QED
    BY <2>1, <1>0, <1>a DEF IInv, Shutters, Fresh
<1>3. AllClaimed'
  <2>1. ASSUME NEW q \in Panes, NEW s \in live, Has(q, s) PROVE Has(q, s)'
    BY <2>1, <1>0 DEF Has, Told, Latest
  <2> QED
    BY <2>1, <1>0, <1>a DEF IInv, AllClaimed, Claimed, AnswerLost
<1>4. Apart'
  <2>1. \A n \in Nat : n < nextStream => n < nextStream'
    BY <1>a, <1>t
  <2>2. /\ \A q \in Panes : bound[q] \in Nat /\ next[q] \in Nat
        /\ \A b \in Atts : att[b].stream \in Nat
    BY AttFacts, Bounds DEF IInv, TypeOK
  <2>3. \A q \in Panes : \A s \in Streams : Known(q, s)' => Known(q, s)
    BY <1>0 DEF Known
  <2> QED
    BY <2>1, <2>2, <2>3, <1>0 DEF IInv, Apart
<1>5. ASSUME NEW p \in Panes PROVE PanelInv(p)' /\ Listens(p)'
  BY <1>0 DEF IInv, PanelInv, Listens, Latest
<1>6. ASSUME NEW b \in Atts PROVE AttInv(b)' /\ Announced(b)'
  <2>1. Running \subseteq Running'
    BY <1>0, <1>a DEF Running
  <2> QED
    BY <2>1, <1>0, AttFacts DEF AttInv, Announced, Latest, Told
<1> QED
  BY <1>1, <1>2, <1>3, <1>4, <1>5, <1>6 DEF IInv

\* The answer gives the asking panel what it is bound to, or a session nobody knows.
LEMMA ServerOpensStep ==
  ASSUME IInv, NEW a \in Atts, ServerOpens(a)
  PROVE  IInv'
<1> USE DEF panelVars, linkVars, closeVars, serverVars
<1> DEFINE p == att[a].owner
           t == IF att[a].hint \in live THEN att[a].hint ELSE nextStream
<1>0. /\ att[a].conn = "asked" /\ t \in Streams /\ t \in 0..MaxStreams /\ live' = live \cup {t}
      /\ att' = [att EXCEPT ![a].conn = "answered", ![a].stream = t]
      /\ nextStream' \in 1..(MaxStreams + 1) /\ inbox' \in [Atts -> Seq({"data", "exited"})]
      /\ \/ t = att[a].hint /\ t \in live /\ nextStream' = nextStream /\ (t \in ended => a \in deaf')
         \/ t = nextStream /\ att[a].hint \notin live /\ nextStream' = nextStream + 1
      /\ \A b \in Atts : b # a => inbox'[b] = inbox[b] /\ (b \in deaf' <=> b \in deaf)
      /\ ~Told(a)' /\ deaf' \subseteq Atts
      /\ UNCHANGED <<window, pane, born, bound, next, ref, gen, busy, writeFailed, atts, active, closing, toClose,
                      stray, swallowed, ended, dying, late, restarted, breaks>>
  <2>1. /\ att[a].conn = "asked" /\ nextStream \in 1..(MaxStreams + 1) /\ live \subseteq Streams
        /\ inbox \in [Atts -> Seq({"data", "exited"})] /\ <<"data">> \in Seq({"data", "exited"})
        /\ inbox[a] = <<>> /\ deaf \subseteq Atts
    BY AttFacts DEF ServerOpens, IInv, TypeOK, AttInv
  <2>2. CASE att[a].hint \in live
    <3>1. t = att[a].hint /\ t \in live /\ t \in Streams /\ t \in 0..MaxStreams
      BY <2>1, <2>2, Bounds
    <3>2. /\ att' = [att EXCEPT ![a].conn = "answered", ![a].stream = t]
          /\ inbox' = [inbox EXCEPT ![a] = <<"data">>] /\ UNCHANGED <<live, nextStream>>
          /\ deaf' = IF t \in ended THEN deaf \cup {a} ELSE deaf
      BY <2>2 DEF ServerOpens, Attach
    <3>3. inbox'[a] = <<"data">> /\ DOMAIN <<"data">> = {1} /\ <<"data">>[1] = "data"
      BY <3>2, <2>1
    <3>4. ~Told(a)'
      BY <3>3 DEF Told
    <3> QED
      BY <2>1, <3>1, <3>2, <3>4 DEF ServerOpens
  <2>3. CASE att[a].hint \notin live
    <3>1. t = nextStream /\ nextStream <= MaxStreams
      BY <2>3 DEF ServerOpens, NewSession
    <3>2. t \in Streams /\ t \in 0..MaxStreams /\ nextStream + 1 \in 1..(MaxStreams + 1)
      BY <2>1, <3>1, TerminalsAssumption DEF Streams
    <3>3. /\ att' = [att EXCEPT ![a].conn = "answered", ![a].stream = t]
          /\ inbox' = inbox /\ live' = live \cup {t} /\ nextStream' = nextStream + 1 /\ deaf' = deaf
      BY <2>3 DEF ServerOpens, NewSession
    <3>4. ~Told(a)'
      BY <3>3, <2>1 DEF Told
    <3> QED
      BY <2>1, <2>3, <3>1, <3>2, <3>3, <3>4 DEF ServerOpens
  <2> QED
    BY <2>2, <2>3
<1>t. att \in [Atts -> Attachment] /\ nextStream \in Nat
  BY DEF IInv, TypeOK
<1>h. /\ p \in Panes /\ gen[p] = a /\ busy[p] /\ att[a].reader = "none" /\ att[a].stream = 0 /\ t # 0
      /\ pane[p] = "open" => Latest(p) = att[a].hint
  BY <1>0, AttFacts, Bounds DEF AttInv
<1> HIDE DEF p, t
<1>l. \A q \in Panes : Latest(q)' = Latest(q)
  BY <1>0 DEF Latest
<1>a. /\ att'[a].conn = "answered" /\ att'[a].stream = t
      /\ att'[a].owner = att[a].owner /\ att'[a].hint = att[a].hint /\ att'[a].reader = att[a].reader
      /\ \A b \in Atts : b # a => att'[b] = att[b]
  BY <1>0, <1>t DEF Attachment
<1>b. att' \in [Atts -> Attachment]
  <2>1. [att[a] EXCEPT !.conn = "answered"] \in Attachment
    BY <1>t, Fields
  <2>2. [[att[a] EXCEPT !.conn = "answered"] EXCEPT !.stream = t] \in Attachment
    BY <2>1, <1>0, Fields
  <2> QED
    BY <1>t, <1>0, <2>2
<1>g. ASSUME NEW q \in Panes, q # p
      PROVE  gen[q] # a /\ (gen[q] \in Atts => att'[gen[q]] = att[gen[q]]) /\ (busy[q] => gen[q] \in Atts)
  <2>1. gen[q] # a
    BY <1>g, OwnerOf DEF p
  <2>2. busy[q] => gen[q] \in Atts
    BY PanelFacts
  <2> QED
    BY <2>1, <2>2, <1>a
<1>1. TypeOK'
  BY <1>0, <1>b DEF IInv, TypeOK
<1>2. Shutters'
  BY <1>0 DEF Shutters, IInv
<1>f. Fresh'
  <2>1. /\ \A s \in live : s < nextStream /\ s \in Nat
        /\ nextStream <= nextStream' /\ nextStream' \in Nat /\ t < nextStream'
    <3>1. nextStream \in Nat /\ \A s \in live : s < nextStream /\ s \in Nat
      BY <1>t, Bounds DEF IInv, Fresh, TypeOK
    <3>2. nextStream' = nextStream \/ nextStream' = nextStream + 1
      BY <1>0
    <3>3. t < nextStream'
      BY <3>1, <1>0
    <3> QED
      BY <3>1, <3>2, <3>3
  <2>2. \A s \in live' : s < nextStream'
    BY <2>1, <1>0, <1>t
  <2> QED
    BY <2>2, <1>0 DEF IInv, Fresh
<1>3. AllClaimed'
  <2> SUFFICES ASSUME window, NEW s \in live' \ ended PROVE Claimed(s)'
    BY <1>0 DEF AllClaimed
  <2>1. CASE s = t
    <3>1. gen'[p] = a /\ gen'[p] # 0 /\ busy'[p] /\ att'[gen'[p]].stream = s
      BY <2>1, <1>0, <1>a, <1>h, Bounds
    <3> QED
      <4>1. ASSUME NEW q \in Panes, q = p PROVE Has(q, s)'
        BY <4>1, <3>1, <1>0, <1>h DEF Has, Told
      <4> QED
        BY <4>1, <1>h DEF Claimed
  <2>2. CASE s # t
    <3>1. Claimed(s) /\ s \in live /\ s # 0
      BY <2>2, <1>0, Bounds DEF IInv, AllClaimed, TypeOK
    <3>2. ~Has(p, s)
      BY <2>2, <3>1, <1>0, <1>h DEF Has, Fresh, IInv
    <3>3. ASSUME NEW q \in Panes, Has(q, s), q # p PROVE Has(q, s)'
      <4>1. gen[q] \in Atts /\ gen[q] # a
        BY <3>3, <1>g, PanelFacts, Bounds DEF Has
      <4> QED
        BY <4>1, <3>3, <1>0, <1>g, <1>l DEF Has, Told
    <3>4. ASSUME AnswerLost(s) PROVE AnswerLost(s)'
      BY <3>4, <1>0, <1>a DEF AnswerLost
    <3> QED
      BY <3>1, <3>2, <3>3, <3>4, <1>0 DEF Claimed
  <2> QED
    BY <2>1, <2>2
<1>4. Apart'
  <2> SUFFICES ASSUME ~restarted PROVE Apart'
    BY <1>0 DEF Apart
  <2>n. /\ \A q \in Panes : bound[q] \in Nat /\ next[q] \in Nat
        /\ \A b \in Atts : att[b].stream \in Nat
        /\ \A s \in live : s \in Nat
    BY AttFacts, Bounds DEF IInv, TypeOK
  <2>1. /\ \A q \in Panes : bound[q] < nextStream /\ bound[q] \in Nat /\ next[q] < nextStream /\ next[q] \in Nat
        /\ \A b \in Atts : att[b].stream < nextStream /\ att[b].stream \in Nat
        /\ \A s \in live : s < nextStream /\ s \in Nat
        /\ t < nextStream' /\ nextStream <= nextStream' /\ nextStream' \in Nat
    BY <1>0, <1>t, <2>n DEF IInv, Apart, Fresh
  <2>2. ASSUME NEW q \in Panes, NEW s \in Streams, pane[q] = "open", Known(q, s)'
        PROVE  Known(q, s) \/ (q = p /\ s = t /\ t = nextStream /\ t \notin live)
    <3>1. CASE q = p
      <4>1. Known(q, s) \/ s = t
        BY <3>1, <2>2, <1>0, <1>a, <1>h DEF Known
      <4>2. t = att[a].hint => Known(q, t)
        BY <3>1, <2>2, <1>h DEF Known, Latest
      <4> QED
        BY <3>1, <4>1, <4>2, <2>1, <1>0, <1>t
    <3>2. CASE q # p
      BY <3>2, <2>2, <1>0, <1>g DEF Known
    <3> QED
      BY <3>1, <3>2
  <2>3. ASSUME NEW q \in Panes, pane[q] = "open" PROVE ~Known(q, nextStream)
    <3>1. busy[q] => gen[q] \in Atts
      BY PanelFacts
    <3> QED
      BY <3>1, <2>1, <1>t DEF Known
  <2>4. \A q, r \in Panes : \A s \in Streams :
          pane[q] = "open" /\ pane[r] = "open" /\ Known(q, s)' /\ Known(r, s)' => q = r
    BY <2>2, <2>3 DEF IInv, Apart
  <2>5. \A q \in Panes : bound[q] < nextStream' /\ next[q] < nextStream'
    BY <2>1, <1>t
  <2>6. \A b \in Atts : att'[b].stream < nextStream'
    BY <2>1, <1>a, <1>t
  <2>7. \A s \in live' : s < nextStream'
    BY <2>1, <1>0, <1>t
  <2> QED
    BY <2>4, <2>5, <2>6, <2>7, <1>0 DEF Apart
<1>5. ASSUME NEW q \in Panes PROVE PanelInv(q)' /\ Listens(q)'
  <2>1. CASE q = p
    BY <2>1, <1>0, <1>a, <1>h, <1>l DEF PanelInv, Listens, IInv
  <2>2. CASE q # p
    <3>1. PanelInv(q) /\ Listens(q) /\ (gen[q] # 0 => gen[q] \in Atts)
      BY PanelFacts DEF IInv
    <3>2. gen[q] # 0 => att'[gen[q]] = att[gen[q]]
      BY <2>2, <3>1, <1>g
    <3> QED
      BY <3>1, <3>2, <1>0, <1>l DEF PanelInv, Listens
  <2> QED
    BY <2>1, <2>2
<1>6. ASSUME NEW b \in Atts PROVE AttInv(b)' /\ Announced(b)'
  <2>1. CASE b = a
    <3>1. AttInv(b)'
      <4>1. AttInv(a) /\ a <= atts /\ att[a].owner = p /\ gen[p] = a /\ busy[p] /\ att[a].reader = "none"
        <5>1. AttInv(a) /\ att[a].conn = "asked"
          BY <1>0, AttFacts
        <5>2. att[a].owner # 0 /\ gen[att[a].owner] = a /\ busy[att[a].owner] /\ att[a].reader = "none"
          BY <5>1 DEF AttInv
        <5>3. ~(a > atts)
          BY <5>1 DEF AttInv, NoAtt
        <5> QED
          BY <5>1, <5>2, <5>3, <1>h, OwnerOf, AttFacts
      <4>2. gen'[p] = a /\ busy'[p] /\ att'[a].conn = "answered" /\ att'[a].owner = p
            /\ att'[a].stream = t /\ att'[a].reader = "none" /\ t # 0 /\ p # 0 /\ ~(a > atts')
        BY <4>1, <1>0, <1>a, <1>h, AttFacts, Bounds
      <4> QED
        BY <4>2, <2>1 DEF AttInv
    <3>2. t \in live' /\ (t \in ended => a \in deaf')
      <4>1. t = nextStream => t \notin ended
        BY <1>t DEF IInv, Fresh
      <4> QED
        BY <4>1, <1>0
    <3> QED
      BY <3>1, <3>2, <2>1, <1>0, <1>a DEF Announced, Running
  <2>2. CASE b # a
    <3>1. AttInv(b) /\ Announced(b) /\ att'[b] = att[b] /\ inbox'[b] = inbox[b] /\ (b \in deaf' <=> b \in deaf)
      BY <2>2, <1>0, <1>a, AttFacts
    <3>2. att[b].conn = "asked" => att[b].owner \in Panes
      BY AttFacts DEF AttInv
    <3>3. Running \subseteq Running'
      BY <1>0 DEF Running
    <3> QED
      BY <3>1, <3>2, <3>3, <1>0, <1>l DEF AttInv, Announced, Told
  <2> QED
    BY <2>1, <2>2
<1> QED
  BY <1>1, <1>2, <1>3, <1>f, <1>4, <1>5, <1>6 DEF IInv

\* The panel of a shell that ended closes, or shows the notice.
LEMMA ReadExitedStep ==
  ASSUME IInv, NEW a \in Atts, ReadExited(a)
  PROVE  IInv'
<1> USE DEF panelVars, linkVars, closeVars, serverVars
<1> DEFINE p == att[a].owner
<1>t. /\ att \in [Atts -> Attachment] /\ inbox \in [Atts -> Seq({"data", "exited"})]
      /\ pane \in [Panes -> {"none", "open", "exited", "closed"}] /\ closing \subseteq Streams
      /\ next \in [Panes -> 0..MaxStreams]
  BY DEF IInv, TypeOK
<1>0. /\ att[a].reader = "reading" /\ inbox[a] # <<>>
      /\ att' = [att EXCEPT ![a].reader = "leaving"] /\ inbox' = [inbox EXCEPT ![a] = Tail(inbox[a])]
      /\ UNCHANGED <<window, born, bound, ref, gen, busy, writeFailed, atts, active, toClose, stray,
                      swallowed, live, ended, dying, deaf, late, nextStream, restarted, breaks>>
  BY DEF ReadExited
<1>a. /\ att'[a].reader = "leaving" /\ att'[a].owner = att[a].owner /\ att'[a].hint = att[a].hint
      /\ att'[a].stream = att[a].stream /\ att'[a].conn = att[a].conn
      /\ \A b \in Atts : b # a => att'[b] = att[b]
  BY <1>0, <1>t DEF Attachment
<1>b. att' \in [Atts -> Attachment] /\ inbox' \in [Atts -> Seq({"data", "exited"})]
  <2>1. [att[a] EXCEPT !.reader = "leaving"] \in Attachment /\ Tail(inbox[a]) \in Seq({"data", "exited"})
    <3>1. att[a] \in Attachment /\ inbox[a] \in Seq({"data", "exited"}) /\ inbox[a] # <<>>
      BY <1>0, <1>t
    <3>2. [att[a] EXCEPT !.reader = "leaving"] \in Attachment
      BY <3>1, Fields
    <3>3. Tail(inbox[a]) \in Seq({"data", "exited"})
      BY <3>1
    <3> QED
      BY <3>2, <3>3
  <2> QED
    BY <2>1, <1>0, <1>t
<1>c. \/ gen[p] = a /\ pane[p] = "open" /\ Shut(p, born[p])
      \/ /\ gen[p] = a /\ pane[p] = "open" /\ pane' = [pane EXCEPT ![p] = "exited"]
         /\ ref[p] = 0 /\ next' = next /\ closing' = closing
      \/ (gen[p] # a \/ pane[p] # "open") /\ UNCHANGED <<pane, next, closing>>
  BY DEF ReadExited
<1>d. /\ pane' \in [Panes -> {"none", "open", "exited", "closed"}] /\ closing' \subseteq Streams
      /\ closing \subseteq closing' /\ next' \in [Panes -> 0..MaxStreams]
      /\ \A q \in Panes : \/ pane'[q] = pane[q] /\ next'[q] = next[q] /\ (gen[q] # a \/ pane[q] # "open")
                          \/ /\ pane[q] = "open" /\ pane'[q] \in {"exited", "closed"} /\ gen[q] = a
                             /\ next'[q] = 0
  <2>1. p \in Panes
    BY <1>0, AttFacts DEF AttInv
  <2>2. (born[p] = 0 \/ born[p] \in Streams) /\ (ref[p] = 0 => next[p] = 0)
    BY <2>1, Bounds DEF IInv, TypeOK, PanelInv
  <2>3. ASSUME NEW q \in Panes, gen[q] = a PROVE q = p
    BY <2>3, OwnerOf
  <2> HIDE DEF p
  <2>4. CASE gen[p] = a /\ pane[p] = "open" /\ Shut(p, born[p])
    BY <2>1, <2>2, <2>3, <2>4, <1>t, Bounds DEF Shut
  <2>5. CASE /\ gen[p] = a /\ pane[p] = "open" /\ pane' = [pane EXCEPT ![p] = "exited"]
             /\ ref[p] = 0 /\ next' = next /\ closing' = closing
    BY <2>1, <2>2, <2>3, <2>5, <1>t
  <2>6. CASE (gen[p] # a \/ pane[p] # "open") /\ UNCHANGED <<pane, next, closing>>
    BY <2>3, <2>6, <1>t
  <2> QED
    BY <2>4, <2>5, <2>6, <1>c
<1> HIDE DEF p
<1>e. Told(a)
  <2>1. inbox[a] \in Seq({"data", "exited"}) /\ inbox[a] # <<>> /\ Head(inbox[a]) = "exited"
    BY <1>0, <1>t DEF ReadExited
  <2>2. 1 \in DOMAIN inbox[a] /\ inbox[a][1] = "exited"
    BY <2>1
  <2> QED
    BY <2>2 DEF Told
<1>1. TypeOK'
  BY <1>0, <1>b, <1>d DEF IInv, TypeOK
<1>2. Shutters' /\ Fresh'
  BY <1>0, <1>d DEF Shutters, Fresh, IInv
<1>3. AllClaimed'
  <2> SUFFICES ASSUME window, NEW s \in live \ ended PROVE Claimed(s)'
    BY <1>0 DEF AllClaimed
  <2>1. Claimed(s)
    BY DEF IInv, AllClaimed
  <2>2. ASSUME NEW q \in Panes, Has(q, s) PROVE Has(q, s)'
    <3>1. gen[q] \in Atts /\ gen[q] # a
      BY <2>2, <1>e, PanelFacts, Bounds DEF Has
    <3>2. att'[gen[q]] = att[gen[q]] /\ inbox'[gen[q]] = inbox[gen[q]]
      BY <3>1, <1>0, <1>a, <1>t
    <3> QED
      BY <3>1, <3>2, <2>2, <1>0, <1>d DEF Has, Told, Latest
  <2>3. ASSUME AnswerLost(s) PROVE AnswerLost(s)'
    BY <2>3, <1>0, <1>a DEF AnswerLost
  <2> QED
    BY <2>1, <2>2, <2>3, <1>0, <1>d DEF Claimed
<1>4. Apart'
  <2>1. ASSUME NEW q \in Panes, NEW s \in Streams, pane'[q] = "open", Known(q, s)'
        PROVE  pane[q] = "open" /\ Known(q, s)
    <3>1. pane[q] = "open" /\ next'[q] = next[q] /\ gen[q] \in Atts
      BY <2>1, <1>d, PanelFacts
    <3> QED
      BY <3>1, <2>1, <1>0, <1>a DEF Known
  <2>2. \A b \in Atts : att'[b].stream = att[b].stream
    BY <1>a
  <2>3. ASSUME ~restarted, NEW q \in Panes PROVE next'[q] < nextStream /\ bound[q] < nextStream
    <3>1. 0 < nextStream /\ next[q] < nextStream /\ bound[q] < nextStream
      BY <2>3 DEF IInv, Apart, TypeOK
    <3> QED
      BY <3>1, <1>d
  <2> QED
    BY <2>1, <2>2, <2>3, <1>0, <1>d DEF IInv, Apart
<1>5. ASSUME NEW q \in Panes PROVE PanelInv(q)' /\ Listens(q)'
  <2>1. PanelInv(q) /\ Listens(q) /\ (gen[q] # 0 => gen[q] \in Atts)
    BY PanelFacts DEF IInv
  <2>2. CASE pane'[q] = pane[q] /\ next'[q] = next[q] /\ (gen[q] # a \/ pane[q] # "open")
    BY <2>1, <2>2, <1>0, <1>a DEF PanelInv, Listens, Latest
  <2>3. CASE pane[q] = "open" /\ pane'[q] \in {"exited", "closed"} /\ gen[q] = a /\ next'[q] = 0
    BY <2>1, <2>3, <1>0, <1>a DEF PanelInv, Listens, Latest
  <2> QED
    BY <2>2, <2>3, <1>d
<1>6. ASSUME NEW b \in Atts PROVE AttInv(b)' /\ Announced(b)'
  <2>1. att[b].conn \in {"asked", "answered"} => att[b].owner \in Panes
    BY AttFacts DEF AttInv
  <2>2. CASE b = a
    BY <2>1, <2>2, <1>0, <1>a, <1>d, AttFacts DEF AttInv, Announced, NoAtt
  <2>3. CASE b # a
    <3>1. att'[b] = att[b] /\ inbox'[b] = inbox[b] /\ AttInv(b) /\ Announced(b)
      BY <2>3, <1>0, <1>a, <1>t, AttFacts
    <3>2. Announced(b)'
      BY <3>1, <1>0 DEF Announced, Told, Running
    <3>3. att[b].conn = "asked" /\ pane'[att[b].owner] = "open" =>
            pane[att[b].owner] = "open" /\ Latest(att[b].owner)' = Latest(att[b].owner)
      BY <2>1, <1>0, <1>d DEF Latest
    <3> QED
      BY <3>1, <3>2, <3>3, <1>0 DEF AttInv
  <2> QED
    BY <2>2, <2>3
<1> QED
  BY <1>1, <1>2, <1>3, <1>4, <1>5, <1>6 DEF IInv

LEMMA WindowClosesStep ==
  ASSUME IInv, WindowCloses
  PROVE  IInv'
<1> USE DEF serverVars, NoAtt
<1>1. TypeOK'
  <2>1. NoAtt \in Attachment
    BY TerminalsAssumption DEF Attachment
  <2> QED
    <3>1. breaks' \in 0..MaxBreaks /\ toClose' \subseteq Streams /\ live' \subseteq Streams
          /\ nextStream' \in 1..(MaxStreams + 1) /\ restarted' \in BOOLEAN
          /\ ended' \subseteq Streams /\ dying' \subseteq Streams
      BY Bounds DEF WindowCloses, Break, IInv, TypeOK
    <3>2. 0 \in 0..MaxAtts /\ 0 \in 0..MaxStreams /\ <<>> \in Seq({"data", "exited"})
      BY Bounds
    <3>3. late' \subseteq Atts \X (0..MaxStreams)
      <4>1. \A a \in Atts : att[a].hint \in 0..MaxStreams
        BY DEF IInv, TypeOK, Attachment
      <4> QED
        BY <4>1 DEF WindowCloses, IInv, TypeOK
    <3> HIDE DEF NoAtt
    <3> QED
      BY <2>1, <3>1, <3>2, <3>3 DEF WindowCloses, TypeOK
<1>2. Shutters' /\ Fresh'
  BY DEF WindowCloses, Shutters, Fresh, IInv
<1>3. AllClaimed'
  BY DEF WindowCloses, AllClaimed
<1>4. Apart'
  <2>1. nextStream \in Nat /\ nextStream > 0
    BY DEF IInv, TypeOK
  <2> QED
    BY <2>1, Bounds DEF WindowCloses, IInv, Apart, Known
<1>5. ASSUME NEW q \in Panes PROVE PanelInv(q)' /\ Listens(q)'
  BY DEF WindowCloses, PanelInv, Listens, Latest
<1>6. ASSUME NEW b \in Atts PROVE AttInv(b)' /\ Announced(b)'
  BY Bounds DEF WindowCloses, AttInv, Announced
<1> QED
  BY <1>1, <1>2, <1>3, <1>4, <1>5, <1>6 DEF IInv

\* A window restored from a list that names every session once; those it does not
\* name are given up.
LEMMA Restored ==
  ASSUME IInv, ~window, window', NEW n \in 1..MaxPanes, NEW list \in Seq(Streams \cup {0}), Len(list) = n,
         \A s \in live : s \in stray' \/ \E i \in 1..n : list[i] = s,
         stray' \subseteq Streams,
         \A i, j \in 1..n : list[i] = list[j] /\ list[i] # 0 => i = j,
         \A i \in 1..n : list[i] = 0 \/ list[i] \in live,
         Restore(list),
         UNCHANGED <<next, ref, writeFailed, inbox, active, closing, toClose, swallowed,
                     live, ended, dying, deaf, late, nextStream, restarted, breaks>>
  PROVE  IInv'
<1>n. /\ 1..n \subseteq Panes /\ n \in Nat /\ n \in Atts /\ \A i \in 1..n : list[i] \in Streams \cup {0}
      /\ \A x \in Nat : x \in 1..n <=> 1 <= x /\ x <= n
  BY TerminalsAssumption DEF Panes, Atts
<1>m. /\ \A p \in Panes : p <= n <=> p \in 1..n
      /\ \A a \in Atts : a <= n <=> a \in 1..n
  BY <1>n, TerminalsAssumption DEF Panes, Atts
<1>0. /\ pane' = [p \in Panes |-> IF p <= n THEN "open" ELSE "none"]
      /\ born' = [p \in Panes |-> IF p <= n THEN list[p] ELSE 0]
      /\ bound' = [p \in Panes |-> IF p <= n THEN list[p] ELSE 0]
      /\ atts' = n
      /\ att' = [a \in Atts |-> IF a <= n THEN Asking(a, IF a <= n THEN list[a] ELSE 0) ELSE NoAtt]
      /\ gen' = [p \in Panes |-> IF p <= n THEN p ELSE 0]
      /\ busy' = [p \in Panes |-> p <= n]
  BY DEF Restore
<1>a. /\ \A p \in Panes : p \in 1..n => /\ pane'[p] = "open" /\ bound'[p] = list[p] /\ gen'[p] = p /\ busy'[p]
      /\ \A p \in Panes : p \notin 1..n => /\ pane'[p] = "none" /\ bound'[p] = 0 /\ gen'[p] = 0 /\ ~busy'[p]
      /\ \A a \in Atts : a \in 1..n => att'[a] = Asking(a, list[a])
      /\ \A a \in Atts : a \notin 1..n => att'[a] = NoAtt
  BY <1>0, <1>m
<1>s. ASSUME NEW a \in Atts PROVE att'[a].stream = 0
  <2>1. Asking(a, list[a]).stream = 0 /\ NoAtt.stream = 0
    BY DEF Asking, NoAtt
  <2> QED
    BY <2>1, <1>a
<1>r. \A p \in Panes : ref[p] = 0 /\ next[p] = 0
  BY PanelFacts DEF IInv, Shutters
<1>i. \A a \in Atts : inbox[a] = <<>> /\ ~Told(a)'
  <2>1. \A a \in Atts : a > 0
    BY DEF Atts
  <2>2. \A a \in Atts : inbox[a] = <<>>
    BY <2>1 DEF IInv, Shutters, AttInv
  <2> QED
    BY <2>2 DEF Told
<1>l. \A p \in Panes : Latest(p)' = bound'[p]
  BY <1>r DEF Latest
<1>1. TypeOK'
  <2>1. /\ pane' \in [Panes -> {"none", "open", "exited", "closed"}] /\ bound' \in [Panes -> 0..MaxStreams]
        /\ born' \in [Panes -> 0..MaxStreams]
        /\ busy' \in [Panes -> BOOLEAN] /\ gen' \in [Panes -> 0..MaxAtts] /\ atts' \in 0..MaxAtts
    BY <1>0, <1>n, <1>m, Bounds
  <2>2. NoAtt \in Attachment /\ \A a \in 1..n : Asking(a, list[a]) \in Attachment
    BY <1>n, Bounds DEF NoAtt, Asking, Attachment
  <2>3. att' \in [Atts -> Attachment]
    BY <1>0, <1>m, <2>2
  <2> QED
    BY <2>1, <2>3 DEF IInv, TypeOK
<1>2. Shutters' /\ Fresh'
  BY DEF Shutters, Fresh, IInv
<1>3. AllClaimed'
  <2> SUFFICES ASSUME NEW s \in live, s \notin stray' PROVE Claimed(s)'
    BY DEF AllClaimed, Claimed
  <2>1. PICK i \in 1..n : list[i] = s
    OBVIOUS
  <2>2. Has(i, s)'
    <3>1. i \in Panes /\ i \in Atts /\ s # 0
      BY <2>1, <1>n, Bounds DEF IInv, TypeOK
    <3>2. pane'[i] = "open" /\ bound'[i] = s /\ gen'[i] = i /\ att'[i].stream = 0
      BY <2>1, <3>1, <1>a, <1>s
    <3> QED
      BY <3>1, <3>2, <1>i, <1>l, Bounds DEF Has
  <2> QED
    BY <2>2, <1>n DEF Claimed
<1>4. Apart'
  <2> SUFFICES ASSUME ~restarted PROVE Apart'
    BY DEF Apart
  <2>1. 0 < nextStream /\ \A s \in live : s < nextStream
    BY DEF IInv, TypeOK, Fresh
  <2>2. ASSUME NEW p \in Panes, NEW s \in Streams, pane'[p] = "open", Known(p, s)'
        PROVE  p \in 1..n /\ list[p] = s
    <3>1. p \in 1..n
      BY <2>2, <1>a
    <3>2. p \in Atts /\ bound'[p] = list[p] /\ gen'[p] = p /\ att'[p].stream = 0 /\ s # 0 /\ next[p] = 0
      BY <3>1, <1>a, <1>s, <1>n, <1>r, Bounds
    <3> QED
      BY <2>2, <3>1, <3>2 DEF Known
  <2>3. \A p \in Panes : bound'[p] < nextStream /\ next[p] < nextStream
    BY <2>1, <1>a, <1>r
  <2>4. \A a \in Atts : att'[a].stream < nextStream
    BY <1>s, <2>1
  <2> QED
    BY <2>1, <2>2, <2>3, <2>4, Bounds DEF Apart
<1>5. ASSUME NEW p \in Panes PROVE PanelInv(p)' /\ Listens(p)'
  <2>1. CASE p \in 1..n
    BY <2>1, <1>a, <1>n, <1>m, <1>r, <1>0, Bounds DEF PanelInv, Listens, Asking, Latest
  <2>2. CASE p \notin 1..n
    BY <2>2, <1>a, <1>n, <1>r, <1>0 DEF PanelInv, Listens, Latest
  <2> QED
    BY <2>1, <2>2
<1>6. ASSUME NEW a \in Atts PROVE AttInv(a)' /\ Announced(a)'
  <2>1. CASE a \in 1..n
    BY <2>1, <1>a, <1>i, <1>l, <1>n, <1>m, <1>0, Bounds DEF AttInv, Announced, Asking
  <2>2. CASE a \notin 1..n
    BY <2>2, <1>a, <1>i DEF AttInv, Announced, NoAtt
  <2> QED
    BY <2>1, <2>2
<1> QED
  BY <1>1, <1>2, <1>3, <1>4, <1>5, <1>6 DEF IInv

LEMMA WindowOpensStep ==
  ASSUME IInv, WindowOpens
  PROVE  IInv'
<1> USE DEF closeVars, serverVars
<1>0. /\ ~window /\ window' /\ live \subseteq Streams /\ stray \subseteq Streams
      /\ UNCHANGED <<next, ref, writeFailed, inbox, active, closing, toClose, swallowed, live, ended, dying, deaf, late, nextStream, restarted, breaks>>
  BY DEF WindowOpens, IInv, TypeOK
<1>1. CASE Restore(<<0>>) /\ stray' = stray \cup live
  <2>1. <<0>> \in Seq(Streams \cup {0}) /\ Len(<<0>>) = 1 /\ 1 \in 1..MaxPanes /\ 1..1 = {1} /\ <<0>>[1] = 0
    BY TerminalsAssumption
  <2> QED
    BY <1>0, <1>1, <2>1, Restored
<1>2. CASE /\ live # {} /\ Cardinality(live) <= MaxPanes /\ UNCHANGED stray
           /\ \E list \in Bijection(1..Cardinality(live), live) : Restore(list)
  <2> DEFINE n == Cardinality(live)
  <2>1. PICK list \in Bijection(1..n, live) : Restore(list)
    BY <1>2
  <2>2. IsFiniteSet(live)
    <3>1. IsFiniteSet(Streams)
      BY FS_Interval, TerminalsAssumption DEF Streams
    <3> QED
      BY <3>1, <1>0, FS_Subset
  <2>3. n \in 1..MaxPanes
    <3>1. n \in Nat /\ n # 0
      BY <2>2, <1>2, FS_CardinalityType, FS_EmptySet
    <3> QED
      BY <3>1, <1>2, TerminalsAssumption
  <2>4. /\ list \in [1..n -> live]
        /\ \A i, j \in 1..n : list[i] = list[j] => i = j
        /\ \A s \in live : \E i \in 1..n : list[i] = s
    BY <2>1 DEF Bijection, Injection, Surjection, IsInjective
  <2> HIDE DEF n
  <2>5. list \in Seq(Streams \cup {0}) /\ Len(list) = n
    BY <2>3, <2>4, <1>0
  <2> QED
    BY <1>0, <1>2, <2>1, <2>3, <2>4, <2>5, Restored
<1> QED
  BY <1>1, <1>2 DEF WindowOpens

(***************************************************************************)
(* The theorems                                                            *)
(***************************************************************************)
\* Every step keeps the invariant.
LEMMA NextKeeps ==
  ASSUME IInv, [Next]_vars
  PROVE  IInv'
<1>1. ASSUME NEW p \in Panes, OpenTerminal(p) \/ ClosePane(p) \/ WriteFails(p) \/ Resolve(p)
                                   \/ Render(p) \/ Reject(p)
      PROVE  IInv'
  BY <1>1, OpenTerminalStep, ClosePaneStep, WriteFailsStep, ResolveStep, RenderStep, RejectStep
<1>2. ASSUME WindowCloses \/ WindowOpens \/ ServerRestarts PROVE IInv'
  BY <1>2, WindowClosesStep, WindowOpensStep, ServerRestartsStep
<1>3. ASSUME NEW a \in Atts, OpenFails(a) \/ OpenEnds(a) \/ ServerOpens(a) \/ ConnDrops(a) PROVE IInv'
  BY <1>3, OpenFailsStep, OpenEndsStep, ServerOpensStep, ConnDropsStep
<1>4. ASSUME NEW a \in Atts, ReaderStep(a) PROVE IInv'
  BY <1>4, ReadDataStep, ReadExitedStep, ReadEndStep, ReaderCleansStep DEF ReaderStep
<1>5. ASSUME NEW s \in Streams, Close(s) \/ Output(s) \/ Announces(s) \/ SessionGoes(s) \/ ServerCloses(s)
      PROVE  IInv'
  BY <1>5, CloseStep, OutputStep, AnnouncesStep, SessionGoesStep, ServerClosesStep
<1>7. ASSUME NEW r \in late, LateOpens(r) PROVE IInv'
  BY <1>7, LateOpensStep
<1>6. CASE UNCHANGED vars
  <2> USE <1>6 DEF vars, panelVars, linkVars, closeVars, serverVars
  <2>1. TypeOK' /\ Shutters' /\ Fresh' /\ Apart'
    BY DEF IInv, TypeOK, Shutters, Fresh, Apart, Known
  <2>2. AllClaimed'
    <3>1. \A p \in Panes, s \in live : Has(p, s) => Has(p, s)'
      BY DEF Has, Told, Latest
    <3> QED
      BY <3>1 DEF IInv, AllClaimed, Claimed, AnswerLost
  <2>3. ASSUME NEW p \in Panes PROVE PanelInv(p)' /\ Listens(p)'
    BY DEF IInv, PanelInv, Listens, Latest
  <2>4. ASSUME NEW a \in Atts PROVE AttInv(a)' /\ Announced(a)'
    BY DEF IInv, AttInv, Announced, Latest, Told, Running
  <2> QED
    BY <2>1, <2>2, <2>3, <2>4 DEF IInv
<1> QED
  BY <1>1, <1>2, <1>3, <1>4, <1>5, <1>6, <1>7 DEF Next

\* The panels, their attachments and the sessions of the server fit together at every
\* step (TerminalInner, pty_open, pty_close, handle_pty_open, pty_reader_thread),
\* whatever fails or restarts in between.
THEOREM PanelsHold == Spec => []IInv
<1>1. Init => IInv
  BY InitHolds
<1>2. IInv /\ [Next]_vars => IInv'
  BY NextKeeps
<1> QED
  BY <1>1, <1>2, PTL DEF Spec

\* No shell is left that no panel shows, gets or closes, but those NoShellUnclaimed
\* names; until a restart of the server no two panels show one shell
\* (Terminal.tsx:63-66, WorkerView.tsx:379-381).
THEOREM ShellsHavePanels == Spec => []EveryShellHasItsPanel
<1>1. ASSUME IInv PROVE NoShellUnclaimed
  <2> SUFFICES ASSUME window, NEW s \in live \ ended,
                      ~(\E p \in Panes : pane[p] = "open" /\ s \in {bound[p], next[p]}),
                      ~AnswerLost(s), s \notin closing \cup toClose \cup stray
               PROVE  Underway(s)
    BY DEF NoShellUnclaimed
  <2>1. PICK p \in Panes : Has(p, s)
    BY <1>1 DEF IInv, AllClaimed, Claimed
  <2> QED
    BY <2>1 DEF Has, Latest, Underway
<1>2. ASSUME IInv PROVE PanelsDoNotShare
  BY <1>2, PanelFacts, Bounds DEF IInv, Apart, Known, PanelsDoNotShare
<1> QED
  BY <1>1, <1>2, PanelsHold, PTL DEF EveryShellHasItsPanel

\* The end of a panel's shell is on its way to the panel, unless the merge loop
\* dropped it, the panel attached after the announcement or the channel is gone
\* (pty_open's reader, pty_reader_thread, attach_to_session).
THEOREM ExitsArrive == Spec => []ExitIsUnderway
<1>1. ASSUME IInv PROVE ExitIsUnderway
  <2> SUFFICES ASSUME NEW p \in Panes, pane[p] = "open", ref[p] # 0, ref[p] \notin Running, ~busy[p],
                      gen[p] \notin swallowed \cup deaf, att[gen[p]].conn # "dropped"
               PROVE  /\ att[gen[p]].reader = "reading"
                      /\ \E i \in DOMAIN inbox[gen[p]] : inbox[gen[p]][i] = "exited"
    BY DEF ExitIsUnderway
  <2>1. gen[p] \in Atts
    BY <1>1, PanelFacts
  <2>2. att[gen[p]].conn = "open" /\ att[gen[p]].reader \in {"none", "reading"}
    BY <1>1 DEF IInv, Listens
  <2>3. att[gen[p]].reader # "none" /\ Announced(gen[p])
    BY <1>1, <2>1, <2>2, AttFacts DEF AttInv
  <2>4. att[gen[p]].stream = ref[p]
    BY <1>1, <2>3 DEF IInv, Listens
  <2> QED
    BY <2>2, <2>3, <2>4 DEF Announced, Told
<1> QED
  BY <1>1, PanelsHold, PTL
=============================================================================

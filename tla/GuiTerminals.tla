---------------------------- MODULE GuiTerminals ----------------------------
(***************************************************************************)
(* The terminal panels of a GUI window.                                    *)
(*                                                                         *)
(* Each time a panel establishes its stream, pty_open makes a connection   *)
(* of its own (an attachment), asks the server for the panel's session or  *)
(* a new persistent one, enters the write side in active_ptys under the    *)
(* stream id and leaves a reader task behind.  The panel (Terminal.tsx,    *)
(* WorkerView.tsx) learns the stream when the promise resolves, and is     *)
(* rendered with it later; a write that fails makes it establish its       *)
(* stream again; closing the panel closes the stream it was rendered with. *)
(* A window that is opened again lists the sessions and attaches a panel   *)
(* to each.                                                                *)
(*                                                                         *)
(* The server keeps a map of sessions.  When a shell ends its reader       *)
(* thread first tells those subscribed and clears them, then removes the   *)
(* session; pty.close removes the session first.  An attach holds the map  *)
(* from the look-up to its subscription, so it is one step here.           *)
(* Left out: sizes, cwd events, pings, the remounts of React's development *)
(* mode, the panel of a container that does not run, sessions of other     *)
(* programs, and output as such: a frame is "data" or "exited".            *)
(***************************************************************************)
EXTENDS Naturals, Sequences, FiniteSets, Functions

CONSTANTS MaxPanes, MaxStreams, MaxAtts,  \* ids are 1..Max
          MaxData,                        \* output frames waiting per attachment
          MaxBreaks   \* connections that fail, restarts of the server, windows closed

ASSUME TerminalsAssumption ==
  /\ MaxAtts \in Nat /\ MaxPanes \in 1..MaxAtts   \* every panel of a window can ask once
  /\ MaxStreams \in Nat /\ MaxData \in Nat /\ MaxBreaks \in Nat

VARIABLES
  window,     \* the window is open
  pane,       \* none, open, exited (the notice stays on show), closed
  born,       \* the streamId its Terminal was mounted with, 0 for null
  bound,      \* the streamId the pane was last rendered with
  next,       \* a streamId that setPanes has queued, 0 for none
  ref,        \* streamIdRef of its Terminal, 0 for null
  gen,        \* the attachment of the newest streamGen, 0 before the first
  busy,       \* establishStream is under way
  writeFailed,
  att,        \* attachments: owner, stream asked for, stream got, conn, reader
  atts,       \* attachments made so far
  inbox,      \* frames on their way to the reader of an attachment
  active,     \* active_ptys: stream -> attachment, 0 for none
  closing,    \* streams for which the command pty_close was invoked
  toClose,    \* streams whose pty.close is on its way to the server
  stray,      \* streams given up (Close, ClosePane, LateOpens, WindowOpens)
  swallowed,  \* attachments whose merge loop consumed pty.exited
  live,       \* sessions in the map of the server
  ended,      \* those of them whose end was announced
  dying,      \* sessions closed, their end not announced yet
  deaf,       \* attachments that subscribed after the announcement
  late,       \* requests of a window that is gone, not carried out yet
  nextStream,
  restarted,  \* the server was restarted
  breaks      \* bounded by MaxBreaks

panelVars == <<window, pane, born, bound, next, ref, gen, busy, writeFailed>>
linkVars == <<att, atts, inbox, active>>
closeVars == <<closing, toClose, stray>>
serverVars == <<live, ended, dying, deaf, late, nextStream, restarted>>
vars == <<panelVars, linkVars, closeVars, swallowed, serverVars, breaks>>

Panes == 1..MaxPanes
Streams == 1..MaxStreams
Atts == 1..MaxAtts

NoAtt == [owner |-> 0, hint |-> 0, stream |-> 0, conn |-> "none", reader |-> "none"]
Asking(p, hint) == [owner |-> p, hint |-> hint, stream |-> 0, conn |-> "asked", reader |-> "none"]

Attachment == [owner : 0..MaxPanes, hint : 0..MaxStreams, stream : 0..MaxStreams,
               conn : {"none", "asked", "answered", "open", "dropped"},
               reader : {"none", "reading", "leaving", "gone"}]

TypeOK ==
  /\ window \in BOOLEAN
  /\ pane \in [Panes -> {"none", "open", "exited", "closed"}]
  /\ born \in [Panes -> 0..MaxStreams] /\ bound \in [Panes -> 0..MaxStreams]
  /\ next \in [Panes -> 0..MaxStreams] /\ ref \in [Panes -> 0..MaxStreams]
  /\ gen \in [Panes -> 0..MaxAtts]
  /\ busy \in [Panes -> BOOLEAN] /\ writeFailed \in [Panes -> BOOLEAN]
  /\ att \in [Atts -> Attachment]
  /\ atts \in 0..MaxAtts
  /\ inbox \in [Atts -> Seq({"data", "exited"})]
  /\ active \in [Streams -> 0..MaxAtts]
  /\ closing \subseteq Streams /\ toClose \subseteq Streams /\ stray \subseteq Streams
  /\ swallowed \subseteq Atts
  /\ live \subseteq Streams /\ ended \subseteq Streams /\ dying \subseteq Streams
  /\ deaf \subseteq Atts /\ late \subseteq Atts \X (0..MaxStreams)
  /\ nextStream \in 1..(MaxStreams + 1)
  /\ restarted \in BOOLEAN /\ breaks \in 0..MaxBreaks

Init ==
  /\ window = TRUE
  /\ pane = [p \in Panes |-> "none"]
  /\ born = [p \in Panes |-> 0] /\ bound = [p \in Panes |-> 0]
  /\ next = [p \in Panes |-> 0] /\ ref = [p \in Panes |-> 0]
  /\ gen = [p \in Panes |-> 0] /\ busy = [p \in Panes |-> FALSE]
  /\ writeFailed = [p \in Panes |-> FALSE]
  /\ att = [a \in Atts |-> NoAtt] /\ atts = 0 /\ inbox = [a \in Atts |-> <<>>]
  /\ active = [s \in Streams |-> 0]
  /\ closing = {} /\ toClose = {} /\ stray = {} /\ swallowed = {}
  /\ live = {} /\ ended = {} /\ dying = {} /\ deaf = {} /\ late = {}
  /\ nextStream = 1 /\ restarted = FALSE /\ breaks = 0

Break == breaks < MaxBreaks /\ breaks' = breaks + 1

\* active_ptys has a write side for the stream and its connection is there.
Writable(s) == \E a \in Atts : active[s] = a /\ att[a].conn # "dropped"

\* Attachments subscribed to a session.
Subscribed(a, s) == att[a].stream = s /\ att[a].conn \in {"answered", "open"} /\ a \notin deaf

\* Shells whose end nobody was told yet.
Running == (live \ ended) \cup dying

(***************************************************************************)
(* Panels                                                                  *)
(***************************************************************************)
\* establishStream: the stream to attach to, 0 to have a new one.
Establish(p, hint) ==
  /\ atts < MaxAtts
  /\ atts' = atts + 1
  /\ att' = [att EXCEPT ![atts + 1] = Asking(p, hint)]
  /\ gen' = [gen EXCEPT ![p] = atts + 1] /\ busy' = [busy EXCEPT ![p] = TRUE]

\* openTerminal: a panel for a new session.  nextPaneId counts.
OpenTerminal(p) ==
  /\ window /\ pane[p] = "none" /\ (\A q \in Panes : q < p => pane[q] # "none")
  /\ Establish(p, 0)
  /\ pane' = [pane EXCEPT ![p] = "open"]
  /\ UNCHANGED <<window, born, bound, next, ref, writeFailed, inbox, active, closeVars, swallowed,
                 serverVars, breaks>>

Resolve_Unclaimed(p) ==
  /\ busy[p] /\ att[gen[p]].conn \in {"open", "dropped"} /\ att[gen[p]].reader # "none"
  /\ busy' = [busy EXCEPT ![p] = FALSE]
  /\ ref' = [ref EXCEPT ![p] = att[gen[p]].stream]
  /\ next' = [next EXCEPT ![p] = att[gen[p]].stream]
  /\ writeFailed' = [writeFailed EXCEPT ![p] = FALSE]
  /\ UNCHANGED <<window, pane, born, bound, gen, linkVars, closeVars, swallowed, serverVars, breaks>>

\* The promise of pty_open resolves: the ref has the stream at once, the pane when it
\* is rendered again.  A panel closed in the meantime has nobody to show the session:
\* it is closed again (also after a reconnect, through onStream).
Resolve(p) ==
  /\ busy[p] /\ att[gen[p]].conn \in {"open", "dropped"} /\ att[gen[p]].reader # "none"
  /\ busy' = [busy EXCEPT ![p] = FALSE]
  /\ LET s == att[gen[p]].stream IN
       IF pane[p] = "open"
       THEN /\ ref' = [ref EXCEPT ![p] = s] /\ next' = [next EXCEPT ![p] = s]
            /\ writeFailed' = [writeFailed EXCEPT ![p] = FALSE]
            /\ UNCHANGED closing
       ELSE closing' = closing \cup {s} /\ UNCHANGED <<ref, next, writeFailed>>
  /\ UNCHANGED <<window, pane, born, bound, gen, linkVars, toClose, stray, swallowed, serverVars,
                 breaks>>

\* React applies what bindTerminalStream queued.
Render(p) ==
  /\ next[p] # 0
  /\ bound' = [bound EXCEPT ![p] = next[p]] /\ next' = [next EXCEPT ![p] = 0]
  /\ UNCHANGED <<window, pane, born, ref, gen, busy, writeFailed, linkVars, closeVars, swallowed,
                 serverVars, breaks>>

Reject(p) ==
  /\ busy[p] /\ att[gen[p]].conn = "dropped" /\ att[gen[p]].reader = "none"
  /\ busy' = [busy EXCEPT ![p] = FALSE]
  /\ UNCHANGED <<window, pane, born, bound, next, ref, gen, writeFailed, linkVars, closeVars, swallowed,
                 serverVars, breaks>>

\* pty_write finds no write side, or one whose connection is gone: once per channel
\* the panel reconnects, unless it is doing so already.
WriteFails(p) ==
  /\ pane[p] = "open" /\ ref[p] # 0 /\ ~writeFailed[p]
  /\ ~Writable(ref[p])
  /\ writeFailed' = [writeFailed EXCEPT ![p] = TRUE]
  /\ IF busy[p] THEN UNCHANGED <<att, atts, gen, busy>> ELSE Establish(p, ref[p])
  /\ UNCHANGED <<window, pane, born, bound, next, ref, inbox, active, closeVars, swallowed, serverVars,
                 breaks>>

\* closePane, called by a render in which the pane has the stream s.
Shut(p, s) ==
  /\ pane' = [pane EXCEPT ![p] = "closed"] /\ next' = [next EXCEPT ![p] = 0]
  /\ closing' = IF s = 0 THEN closing ELSE closing \cup {s}

\* A stream that is queued but not rendered yet is not the one that is closed.
ClosePane(p) ==
  /\ pane[p] \in {"open", "exited"} /\ Shut(p, bound[p])
  /\ stray' = IF next[p] \in {0, bound[p]} THEN stray ELSE stray \cup {next[p]}
  /\ UNCHANGED <<window, born, bound, ref, gen, busy, writeFailed, linkVars, toClose, swallowed,
                 serverVars, breaks>>

\* The window is closed: its connections end, the sessions stay with the server, which
\* may still read a pty.open that was sent.
WindowCloses ==
  /\ window /\ window' = FALSE /\ Break
  /\ pane' = [p \in Panes |-> "none"] /\ ref' = [p \in Panes |-> 0]
  /\ born' = [p \in Panes |-> 0] /\ bound' = [p \in Panes |-> 0] /\ next' = [p \in Panes |-> 0]
  /\ gen' = [p \in Panes |-> 0] /\ busy' = [p \in Panes |-> FALSE]
  /\ writeFailed' = [p \in Panes |-> FALSE]
  /\ att' = [a \in Atts |-> NoAtt] /\ atts' = 0 /\ inbox' = [a \in Atts |-> <<>>]
  /\ active' = [s \in Streams |-> 0] /\ closing' = {} /\ stray' = {} /\ swallowed' = {}
  /\ deaf' = {} /\ late' = late \cup {<<a, att[a].hint>> : a \in {b \in Atts : att[b].conn = "asked"}}
  /\ UNCHANGED <<toClose, live, ended, dying, nextStream, restarted>>

\* WorkerView asks for the list and restores a panel for each session, which
\* attaches to it; without any, or when the list could not be had, it opens one
\* terminal.  The server's sessions are a HashMap: the list has them in any order.
Restore(hints) ==
  LET n == Len(hints)
      hint(p) == IF p <= n THEN hints[p] ELSE 0
  IN  /\ pane' = [p \in Panes |-> IF p <= n THEN "open" ELSE "none"]
      /\ born' = [p \in Panes |-> hint(p)] /\ bound' = [p \in Panes |-> hint(p)]
      /\ atts' = n
      /\ att' = [a \in Atts |-> IF a <= n THEN Asking(a, hint(a)) ELSE NoAtt]
      /\ gen' = [p \in Panes |-> IF p <= n THEN p ELSE 0]
      /\ busy' = [p \in Panes |-> p <= n]

WindowOpens ==
  /\ ~window /\ window' = TRUE
  /\ \/ Restore(<<0>>) /\ stray' = stray \cup live   \* nothing to list, or the list failed
     \/ live # {} /\ Cardinality(live) <= MaxPanes /\ UNCHANGED stray
        /\ \E list \in Bijection(1..Cardinality(live), live) : Restore(list)
  /\ UNCHANGED <<next, ref, writeFailed, inbox, active, closing, toClose, swallowed, serverVars, breaks>>

(***************************************************************************)
(* pty_open and its reader task                                            *)
(***************************************************************************)
OpenFails(a) ==
  /\ att[a].conn = "asked" /\ Break
  /\ att' = [att EXCEPT ![a].conn = "dropped"]
  /\ UNCHANGED <<panelVars, atts, inbox, active, closeVars, swallowed, serverVars>>

\* The answer is read; the sink replaces whatever the stream had.
OpenEnds(a) ==
  /\ att[a].conn = "answered"
  /\ att' = [att EXCEPT ![a].conn = "open", ![a].reader = "reading"]
  /\ active' = [active EXCEPT ![att[a].stream] = a]
  /\ UNCHANGED <<panelVars, atts, inbox, closeVars, swallowed, serverVars, breaks>>

\* Frames of output that follow within 8 ms are merged into one event; the first
\* other frame the merge loop meets ends it and is lost.
ReadData(a) ==
  /\ att[a].reader = "reading" /\ inbox[a] # <<>> /\ Head(inbox[a]) = "data"
  /\ \/ inbox' = [inbox EXCEPT ![a] = Tail(@)] /\ UNCHANGED swallowed
     \/ /\ Len(inbox[a]) > 1 /\ inbox[a][2] = "exited"
        /\ inbox' = [inbox EXCEPT ![a] = Tail(Tail(@))]
        /\ swallowed' = swallowed \cup {a}
  /\ UNCHANGED <<panelVars, att, atts, active, closeVars, serverVars, breaks>>

ReadExited_Silent(a) ==
  /\ att[a].reader = "reading" /\ inbox[a] # <<>> /\ Head(inbox[a]) = "exited"
  /\ inbox' = [inbox EXCEPT ![a] = Tail(@)]
  /\ att' = [att EXCEPT ![a].reader = "leaving"]
  /\ UNCHANGED <<panelVars, atts, active, closeVars, swallowed, serverVars, breaks>>

\* pty.exited reaches the panel if this is still its channel; the panel closes.  Its
\* onExit is the one of the render it was mounted in: what is closed is the stream it
\* had then.  Before the promise of pty_open resolves
\* the panel has no stream to report and stays, with the notice.
ReadExited(a) ==
  /\ att[a].reader = "reading" /\ inbox[a] # <<>> /\ Head(inbox[a]) = "exited"
  /\ inbox' = [inbox EXCEPT ![a] = Tail(@)]
  /\ att' = [att EXCEPT ![a].reader = "leaving"]
  /\ LET p == att[a].owner IN
       \/ gen[p] = a /\ pane[p] = "open" /\ ref[p] # 0 /\ Shut(p, born[p])
       \/ /\ gen[p] = a /\ pane[p] = "open" /\ ref[p] = 0
          /\ pane' = [pane EXCEPT ![p] = "exited"] /\ UNCHANGED <<next, closing>>
       \/ (gen[p] # a \/ pane[p] # "open") /\ UNCHANGED <<pane, next, closing>>
  /\ UNCHANGED <<window, born, bound, ref, gen, busy, writeFailed, atts, active, toClose, stray, swallowed,
                 serverVars, breaks>>

ReadEnd(a) ==
  /\ att[a].reader = "reading" /\ inbox[a] = <<>> /\ att[a].conn = "dropped"
  /\ att' = [att EXCEPT ![a].reader = "leaving"]
  /\ UNCHANGED <<panelVars, atts, inbox, active, closeVars, swallowed, serverVars, breaks>>

\* The entry of the stream goes, be it of this attachment or of a newer one.  With
\* both halves dropped the connection closes.
ReaderCleans(a) ==
  /\ att[a].reader = "leaving"
  /\ att' = [att EXCEPT ![a].reader = "gone", ![a].conn = "dropped", ![a].hint = 0]
  /\ inbox' = [inbox EXCEPT ![a] = <<>>]
  /\ active' = [active EXCEPT ![att[a].stream] = 0]
  /\ UNCHANGED <<panelVars, atts, closeVars, swallowed, serverVars, breaks>>

(***************************************************************************)
(* pty_close                                                               *)
(***************************************************************************)
\* Over the stream's own connection when there is one; if that is gone the command
\* fails and nobody tries again.  Without one over the shared connection.
Close(s) ==
  /\ s \in closing /\ closing' = closing \ {s}
  /\ IF active[s] # 0 /\ ~Writable(s)
     THEN stray' = stray \cup {s} /\ UNCHANGED <<toClose, active>>
     ELSE /\ toClose' = toClose \cup {s} /\ active' = [active EXCEPT ![s] = 0]
          /\ UNCHANGED stray
  /\ UNCHANGED <<panelVars, att, atts, inbox, swallowed, serverVars, breaks>>

(***************************************************************************)
(* The server                                                              *)
(***************************************************************************)
\* attach_to_session: the replay, then the subscription, in the list that the reader
\* thread may have told and cleared already.
Attach(a) ==
  /\ att' = [att EXCEPT ![a].conn = "answered", ![a].stream = att[a].hint]
  /\ inbox' = [inbox EXCEPT ![a] = <<"data">>]
  /\ deaf' = IF att[a].hint \in ended THEN deaf \cup {a} ELSE deaf
  /\ UNCHANGED <<live, nextStream>>

NewSession ==
  /\ nextStream <= MaxStreams
  /\ live' = live \cup {nextStream} /\ nextStream' = nextStream + 1

\* pty.open with attach_stream and persistent.
ServerOpens(a) ==
  /\ att[a].conn = "asked"
  /\ \/ att[a].hint \in live /\ Attach(a)
     \/ /\ att[a].hint \notin live /\ NewSession
        /\ att' = [att EXCEPT ![a].conn = "answered", ![a].stream = nextStream]
        /\ UNCHANGED <<inbox, deaf>>
  /\ UNCHANGED <<panelVars, atts, active, closeVars, swallowed, ended, dying, late, restarted, breaks>>

\* The same for a window that is gone: its shell is in no list a window asked for
\* before.
LateOpens(r) ==
  /\ late' = late \ {r}
  /\ \/ r[2] \in live /\ UNCHANGED <<live, nextStream, stray>>
     \/ /\ r[2] \notin live /\ NewSession
        /\ stray' = IF window THEN stray \cup {nextStream} ELSE stray
  /\ UNCHANGED <<panelVars, linkVars, closing, toClose, swallowed, ended, dying, deaf, restarted, breaks>>

Output(s) ==
  /\ s \in Running /\ \E a \in Atts : Subscribed(a, s)
  /\ \A a \in Atts : Subscribed(a, s) => Len(inbox[a]) < MaxData
  /\ inbox' = [a \in Atts |-> IF Subscribed(a, s) THEN Append(inbox[a], "data") ELSE inbox[a]]
  /\ UNCHANGED <<panelVars, att, atts, active, closeVars, swallowed, serverVars, breaks>>

\* The shell has ended: the reader thread tells those subscribed and clears them.
Announces(s) ==
  /\ s \in Running
  /\ inbox' = [a \in Atts |-> IF Subscribed(a, s) THEN Append(inbox[a], "exited") ELSE inbox[a]]
  /\ ended' = IF s \in live THEN ended \cup {s} ELSE ended
  /\ dying' = dying \ {s}
  /\ UNCHANGED <<panelVars, att, atts, active, closeVars, swallowed, live, deaf, late, nextStream,
                 restarted, breaks>>

\* Then it removes the session.
SessionGoes(s) ==
  /\ s \in ended /\ live' = live \ {s} /\ ended' = ended \ {s}
  /\ UNCHANGED <<panelVars, linkVars, closeVars, swallowed, dying, deaf, late, nextStream, restarted,
                 breaks>>

\* pty.close removes the session; its shell ends for want of input.
ServerCloses(s) ==
  /\ s \in toClose /\ toClose' = toClose \ {s}
  /\ live' = live \ {s} /\ ended' = ended \ {s}
  /\ dying' = IF s \in live \ ended THEN dying \cup {s} ELSE dying
  /\ UNCHANGED <<panelVars, linkVars, closing, stray, swallowed, deaf, late, nextStream, restarted, breaks>>

Drop(a) == IF att[a].conn = "none" THEN att[a] ELSE [att[a] EXCEPT !.conn = "dropped"]

ConnDrops(a) ==
  /\ att[a].conn \in {"answered", "open"} /\ Break
  /\ att' = [att EXCEPT ![a] = Drop(a)]
  /\ UNCHANGED <<panelVars, atts, inbox, active, closeVars, swallowed, serverVars>>

\* The container is started again: ids begin anew.
ServerRestarts ==
  /\ Break /\ restarted' = TRUE
  /\ live' = {} /\ ended' = {} /\ dying' = {} /\ late' = {} /\ nextStream' = 1
  /\ toClose' = {} /\ stray' = {}
  /\ att' = [a \in Atts |-> Drop(a)]
  /\ UNCHANGED <<panelVars, atts, inbox, active, closing, swallowed, deaf>>

(***************************************************************************)
(* The specification                                                       *)
(***************************************************************************)
ReaderStep(a) == ReadData(a) \/ ReadExited(a) \/ ReadEnd(a) \/ ReaderCleans(a)

Next ==
  \/ \E p \in Panes : \/ OpenTerminal(p) \/ ClosePane(p) \/ WriteFails(p)
                       \/ Resolve(p) \/ Render(p) \/ Reject(p)
  \/ WindowCloses \/ WindowOpens \/ ServerRestarts
  \/ \E a \in Atts : \/ OpenFails(a) \/ OpenEnds(a) \/ ServerOpens(a) \/ ConnDrops(a)
                      \/ ReaderStep(a)
  \/ \E s \in Streams : Close(s) \/ Output(s) \/ Announces(s) \/ SessionGoes(s) \/ ServerCloses(s)
  \/ \E r \in late : LateOpens(r)

Spec == Init /\ [][Next]_vars

(***************************************************************************)
(* Properties                                                              *)
(***************************************************************************)
\* A session is on its way to a panel from the moment the server makes or finds it.
Underway(s) == \E p \in Panes :
  busy[p] /\ (att[gen[p]].stream = s \/ (att[gen[p]].conn = "asked" /\ att[gen[p]].hint = s))

AnswerLost(s) == \E a \in Atts :
  att[a].stream = s /\ att[a].conn = "dropped" /\ att[a].reader = "none"

\* While the window is open every shell of the server is shown by a panel, about
\* to be, or about to be closed: no shell runs on that nobody can reach (the leak
\* Terminal.tsx:63-66 and WorkerView.tsx:379-381 guard against).  The exceptions are
\* an answer lost with its connection, and the shells given up: a pty_close that
\* failed because the stream's connection had just gone, a panel closed before it was
\* rendered with its stream, a list that failed, and a request the server carried out
\* after the window that sent it was gone and another had asked for its list.
NoShellUnclaimed ==
  window => \A s \in live \ ended :
    \/ \E p \in Panes : pane[p] = "open" /\ s \in {bound[p], next[p]}
    \/ Underway(s) \/ AnswerLost(s)
    \/ s \in closing \cup toClose \cup stray

\* Panels show terminals of their own (WorkerView.tsx:329) as long as the server has
\* not been restarted: afterwards ids are given out again, and a panel that asks for
\* its old one may get another panel's new one.
PanelsDoNotShare ==
  ~restarted => \A p, q \in Panes :
    pane[p] = "open" /\ pane[q] = "open" /\ bound[p] = bound[q] /\ bound[p] # 0 => p = q

\* Every shell has one panel.
EveryShellHasItsPanel == NoShellUnclaimed /\ PanelsDoNotShare

\* A panel whose shell has ended will hear of it: the notice waits for the reader of
\* its channel, unless the merge loop swallowed it (ReadData), the panel attached
\* between the announcement and the removal (Attach) or the channel is gone.
ExitIsUnderway ==
  \A p \in Panes :
    pane[p] = "open" /\ ref[p] # 0 /\ ref[p] \notin Running /\ ~busy[p] =>
      \/ gen[p] \in swallowed \cup deaf \/ att[gen[p]].conn = "dropped"
      \/ att[gen[p]].reader = "reading" /\ \E i \in DOMAIN inbox[gen[p]] : inbox[gen[p]][i] = "exited"

(***************************************************************************)
(* What makes them inductive                                               *)
(***************************************************************************)
\* What a pane is rendered with as soon as React gets to it.
Latest(p) == IF next[p] = 0 THEN bound[p] ELSE next[p]

\* A panel and its newest attachment know each other.
PanelInv(p) ==
  /\ gen[p] <= atts /\ (gen[p] # 0 => att[gen[p]].owner = p)
  /\ pane[p] = "none" => bound[p] = 0 /\ ref[p] = 0 /\ gen[p] = 0 /\ ~busy[p]
  /\ pane[p] # "none" => gen[p] # 0
  /\ next[p] # 0 => pane[p] = "open" /\ ref[p] # 0
  /\ pane[p] = "open" /\ ref[p] # 0 => Latest(p) = ref[p]

\* An attachment that is being made is its panel's newest, and asks for what the
\* panel is bound to; one that was answered has a stream.
AttInv(a) ==
  /\ a > atts => att[a] = NoAtt /\ inbox[a] = <<>>
  /\ att[a].conn \in {"asked", "answered"} =>
       att[a].owner # 0 /\ gen[att[a].owner] = a /\ busy[att[a].owner] /\ att[a].reader = "none"
  /\ att[a].conn = "asked" =>
       /\ att[a].stream = 0 /\ inbox[a] = <<>>
       /\ pane[att[a].owner] = "open" => Latest(att[a].owner) = att[a].hint
  /\ att[a].conn = "open" => att[a].reader # "none"
  /\ att[a].conn \in {"answered", "open"} \/ att[a].reader # "none" =>
       att[a].stream # 0 /\ att[a].owner # 0

\* A window that is closed leaves no panel, attachment or command behind.
Shutters == ~window => (\A p \in Panes : pane[p] = "none") /\ atts = 0

\* The notice of an end waits at an attachment.
Told(a) == \E i \in DOMAIN inbox[a] : inbox[a][i] = "exited"

\* A panel has a session if it is about to get it, or is bound to it and about to
\* get no other; not if it is about to hear of an end.
Has(p, s) ==
  /\ gen[p] # 0 /\ ~Told(gen[p])
  /\ \/ busy[p] /\ att[gen[p]].stream = s
     \/ pane[p] = "open" /\ Latest(p) = s /\ (busy[p] => att[gen[p]].stream = 0)

Claimed(s) ==
  (\E p \in Panes : Has(p, s)) \/ AnswerLost(s) \/ s \in closing \cup toClose \cup stray

AllClaimed == window => \A s \in live \ ended : Claimed(s)

\* A new id is new to the server, and until a restart to everybody; no two panels are
\* after one stream.
Fresh == ended \subseteq live /\ \A s \in live : s < nextStream

Known(p, s) == bound[p] = s \/ next[p] = s \/ (busy[p] /\ att[gen[p]].stream = s)

Apart ==
  ~restarted =>
    /\ \A p \in Panes : bound[p] < nextStream /\ next[p] < nextStream
    /\ \A a \in Atts : att[a].stream < nextStream
    /\ \A p, q \in Panes : \A s \in Streams :
         pane[p] = "open" /\ pane[q] = "open" /\ Known(p, s) /\ Known(q, s) => p = q

\* The end of a session is announced to its attachments: the notice waits, or was
\* read, or was swallowed, or came before the attachment.
Announced(a) ==
  att[a].conn \in {"answered", "open"} /\ att[a].stream \notin Running =>
    a \in swallowed \cup deaf \/ att[a].reader \in {"leaving", "gone"} \/ Told(a)

\* An open panel has not heard an end from its newest attachment, and shows that
\* attachment's stream once it is there.
Listens(p) ==
  pane[p] = "open" =>
    /\ att[gen[p]].conn # "dropped" => att[gen[p]].reader \in {"none", "reading"}
    /\ ~busy[p] /\ ref[p] # 0 => att[gen[p]].conn \in {"dropped", "open"}
    /\ ~busy[p] /\ att[gen[p]].reader # "none" => att[gen[p]].stream = ref[p]

IInv ==
  /\ TypeOK /\ Shutters /\ AllClaimed /\ Fresh /\ Apart
  /\ \A p \in Panes : PanelInv(p) /\ Listens(p)
  /\ \A a \in Atts : AttInv(a) /\ Announced(a)
=============================================================================

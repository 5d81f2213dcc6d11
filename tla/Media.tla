-------------------------------- MODULE Media --------------------------------
(***************************************************************************)
(* Clipboard and audio of EmbeddedRdpBackend                               *)
(* (src/daemon/embeddedrdpbackend.cpp).                                    *)
(*                                                                         *)
(* Texts travel between the session's clipboard and the clipboard of the   *)
(* client in control, each way by queued messages.  The daemon's own write *)
(* to the session clipboard comes back as a notification like any other;   *)
(* clientClipboardEcho, cleared after one second at the latest, is to keep *)
(* it from going back to the client.                                       *)
(*                                                                         *)
(* Playback is the output of a child process, pw-cat, cut into frames of   *)
(* four bytes (two channels of 16 bits); audioRemainder keeps the bytes of *)
(* a frame that is not complete yet.                                       *)
(***************************************************************************)
EXTENDS Naturals, Sequences

CONSTANTS
    ConnId, NoId,       \* connection ids, the empty id
    Text, NoText,       \* texts, no text
    FrameBytes,         \* the bytes of an audio frame
    MaxCopies,          \* bound: texts copied in the session and by clients
    MaxQueue            \* bound: texts under way to a client

ASSUME MediaAssumption ==
    /\ NoId \notin ConnId /\ NoText \notin Text
    /\ FrameBytes \in Nat \ {0}
    /\ MaxCopies \in Nat /\ MaxQueue \in Nat

VARIABLES
    listening,      \* d->listening
    connections,    \* d->connections
    controllerId,   \* d->controllerId
    gate,           \* clipboard()->enabled() of each connection
    settings,       \* d->settings.clipboard and d->settings.audio
    system,         \* the text on the session's clipboard
    notes,          \* notifications of a changed session clipboard under way
    echo,           \* clientClipboardEcho
    timers,         \* the one-second timers of client texts, oldest first
    inbox,          \* texts from clients under way to the daemon
    outbox,         \* texts under way to each client
    clientText,     \* the text on the clipboard of each client
    copies,         \* how many texts were copied so far
    raced,          \* history: the last copy or handover met an unsettled clipboard
    starting,       \* calls of start() that wait for the virtual outputs
    capture,        \* audioCapture runs
    position,       \* bytes read from this capture, modulo FrameBytes
    audioRemainder, \* its length
    clean           \* history: stopAudio found no capture, and none has ended since

serverVars == <<listening, connections, settings, starting>>
clipboardVars == <<controllerId, gate, system, notes, echo, timers, inbox, outbox,
                   clientText, copies, raced>>
audioVars == <<capture, position, audioRemainder, clean>>
vars == <<serverVars, clipboardVars, audioVars>>

TypeOK ==
    /\ connections \subseteq ConnId
    /\ controllerId \in ConnId \cup {NoId}
    /\ gate \in [ConnId -> BOOLEAN]
    /\ settings \in [clipboard : BOOLEAN, audio : BOOLEAN]
    /\ {system, echo} \subseteq Text \cup {NoText}
    /\ notes \in 0..MaxCopies
    /\ timers \in Seq(Text)
    /\ inbox \in Seq(ConnId \X Text)
    /\ outbox \in [ConnId -> Seq(Text)]
    /\ clientText \in [ConnId -> Text \cup {NoText}]
    /\ copies \in 0..MaxCopies
    /\ starting \in 0..2
    /\ {listening, raced, capture, clean} \subseteq BOOLEAN
    /\ {position, audioRemainder} \subseteq 0 .. FrameBytes - 1

Init ==
    /\ listening = FALSE
    /\ connections = {} /\ controllerId = NoId
    /\ gate = [c \in ConnId |-> FALSE]
    /\ settings = [clipboard |-> FALSE, audio |-> FALSE]
    /\ system \in Text \cup {NoText} /\ notes = 0
    /\ echo = NoText /\ timers = << >>
    /\ inbox = << >> /\ outbox = [c \in ConnId |-> << >>]
    /\ clientText = [c \in ConnId |-> NoText]
    /\ copies = 0 /\ raced = FALSE
    /\ starting = 0
    /\ capture = FALSE /\ position = 0 /\ audioRemainder = 0 /\ clean = TRUE

-----------------------------------------------------------------------------
(* The clipboard                                                             *)

Quiet == notes = 0 /\ inbox = << >> /\ \A c \in ConnId : outbox[c] = << >>
Settled == Quiet /\ timers = << >>

Sent(cs, text) == [c \in ConnId |->
                      IF c \in cs THEN Append(outbox[c], text) ELSE outbox[c]]

Send(cs, text) == outbox' = Sent(cs, text)

(* Somebody copies a text in the session.                                    *)
LocalCopy(t) ==
    /\ copies < MaxCopies
    /\ copies' = copies + 1
    /\ system' = t /\ notes' = notes + 1
    /\ raced' = ~Settled
    /\ UNCHANGED <<serverVars, controllerId, gate, echo, timers,
                   inbox, outbox, clientText, audioVars>>

(* The user of a client copies a text; KRdp tells of it while the gate of the *)
(* connection is open.                                                       *)
ClientCopy(c, t) ==
    /\ c \in connections
    /\ copies < MaxCopies
    /\ copies' = copies + 1
    /\ clientText' = [clientText EXCEPT ![c] = t]
    /\ inbox' = IF gate[c] THEN Append(inbox, <<c, t>>) ELSE inbox
    /\ raced' = IF gate[c] THEN ~Settled ELSE raced
    /\ UNCHANGED <<serverVars, controllerId, gate, system, notes, echo,
                   timers, outbox, audioVars>>

(* clientTextChanged: the text of the controller becomes the session's.       *)
ClientTextArrives ==
    /\ inbox # << >>
    /\ inbox' = Tail(inbox)
    /\ LET c == inbox[1][1]
           t == inbox[1][2]
       IN  IF c \in connections /\ c = controllerId /\ settings.clipboard /\ gate[c]
           THEN /\ echo' = t
                /\ system' = t /\ notes' = notes + 1
                /\ timers' = Append(timers, t)
           ELSE UNCHANGED <<echo, system, notes, timers>>
    /\ UNCHANGED <<serverVars, controllerId, gate, outbox, clientText,
                   copies, raced, audioVars>>

(* KSystemClipboard::changed: the slot reads the text of this moment, which   *)
(* need not be the one the notification was sent for.                        *)
ClipboardChanged ==
    /\ notes > 0
    /\ notes' = notes - 1
    /\ LET heard == settings.clipboard /\ system # NoText
       IN  /\ echo' = IF heard /\ system = echo THEN NoText ELSE echo
           /\ Send({c \in connections : heard /\ system # echo /\ gate[c]}, system)
    /\ UNCHANGED <<serverVars, controllerId, gate, system, timers, inbox,
                   clientText, copies, raced, audioVars>>

(* Mutant: the timer does nothing.                                           *)
EchoTimerIdle ==
    /\ timers # << >>
    /\ timers' = Tail(timers)
    /\ UNCHANGED <<serverVars, controllerId, gate, system, notes, echo,
                   inbox, outbox, clientText, copies, raced, audioVars>>

EchoTimer ==
    /\ timers # << >>
    /\ timers' = Tail(timers)
    /\ echo' = IF echo = Head(timers) THEN NoText ELSE echo
    /\ UNCHANGED <<serverVars, controllerId, gate, system, notes, inbox,
                   outbox, clientText, copies, raced, audioVars>>

ServerTextArrives(c) ==
    /\ outbox[c] # << >>
    /\ outbox' = [outbox EXCEPT ![c] = Tail(@)]
    /\ clientText' = [clientText EXCEPT ![c] = Head(outbox[c])]
    /\ UNCHANGED <<serverVars, controllerId, gate, system, notes, echo,
                   timers, inbox, copies, raced, audioVars>>

-----------------------------------------------------------------------------
(* Connections                                                               *)

(* Ids are never used again: not while a text of an old connection is under   *)
(* way.                                                                      *)
AddConnection(c) ==
    /\ listening /\ c \notin connections
    /\ \A k \in DOMAIN inbox : inbox[k][1] # c
    /\ connections' = connections \cup {c}
    /\ UNCHANGED <<listening, settings, starting, clipboardVars, audioVars>>

(* The elected controller is handed the session's text before its gate opens. *)
setController(id) ==
    /\ controllerId' = id
    /\ gate' = [c \in ConnId |-> c = id /\ settings.clipboard]
    /\ id \in ConnId => Len(outbox[id]) < MaxQueue
    /\ raced' = ~Settled
    /\ UNCHANGED <<system, notes, echo, timers, inbox, copies>>

Handed(id) == IF settings.clipboard /\ system # NoText THEN {id} ELSE {}

(* A client joins: connectionAuthenticated.                                  *)
ClientJoins(id) ==
    /\ setController(id)
    /\ Send(Handed(id), system)
    /\ UNCHANGED <<serverVars, clientText, audioVars>>

(* A connection is closed: the controller is elected among the others, then   *)
(* it is destroyed.                                                          *)
ConnectionClosed(c, id) ==
    /\ setController(id)
    /\ connections' = connections \ {c}
    /\ outbox' = [Sent(Handed(id), system) EXCEPT ![c] = << >>]
    /\ clientText' = [clientText EXCEPT ![c] = NoText]
    /\ UNCHANGED <<listening, settings, starting, audioVars>>

-----------------------------------------------------------------------------
(* Audio                                                                     *)

(* Mutant: what was sent stays in the remainder.                             *)
AudioArrivesKeeping(n) ==
    /\ capture
    /\ audioRemainder' = audioRemainder + n
    /\ position' = (position + n) % FrameBytes
    /\ UNCHANGED <<serverVars, clipboardVars, capture, clean>>

(* readyReadStandardOutput: whole frames go to every connection.             *)
AudioArrives(n) ==
    /\ capture
    /\ audioRemainder' = (audioRemainder + n) % FrameBytes
    /\ position' = (position + n) % FrameBytes
    /\ UNCHANGED <<serverVars, clipboardVars, capture, clean>>

(* pw-cat ends by itself, which is only reported.                            *)
CaptureEnds ==
    /\ capture
    /\ capture' = FALSE /\ clean' = FALSE /\ position' = 0
    /\ UNCHANGED <<serverVars, clipboardVars, audioRemainder>>

(* Mutant: stopAudio returns early before it clears the remainder.           *)
RemainderEarlyReturn(late) == IF capture THEN late ELSE audioRemainder

(* stopAudio clears the remainder, then terminates pw-cat and waits; the last *)
(* bytes that arrive in the wait go through readyReadStandardOutput.         *)
RemainderStopped(late) == IF capture THEN late ELSE 0

(* stop(): the connections are destroyed, and what they had under way.        *)
Disconnect ==
    /\ listening' = FALSE
    /\ connections' = {}
    /\ gate' = [c \in ConnId |-> FALSE]
    /\ inbox' = << >> /\ outbox' = [c \in ConnId |-> << >>]
    /\ clientText' = [c \in ConnId |-> NoText]
    /\ UNCHANGED <<controllerId, system, notes, echo, timers, copies, raced>>

(* Also the end of a start() that fails.  A start() that is overtaken by a    *)
(* stop() finds no server; see LayoutService.                                *)
Stop(late) ==
    /\ Disconnect
    /\ starting' = 0
    /\ audioRemainder' = RemainderStopped(late)
    /\ capture' = FALSE /\ clean' = ~capture /\ position' = 0
    /\ UNCHANGED settings

(* start() up to the wait for the outputs: stop() and the new settings.  A    *)
(* nested Start may have brought up a server since running() was looked at.  *)
BeginStart(late, s) ==
    /\ starting < 2
    /\ starting' = starting + 1
    /\ Disconnect
    /\ audioRemainder' = RemainderStopped(late)
    /\ capture' = FALSE /\ position' = 0
    /\ clean' = ~capture
    /\ settings' = s

(* startAudio; a capture that runs already (a nested start()) stays.          *)
FinishStart ==
    /\ starting > 0
    /\ starting' = starting - 1
    /\ capture' = (capture \/ settings.audio)
    /\ listening' = TRUE
    /\ UNCHANGED <<connections, settings, clipboardVars, position, audioRemainder, clean>>

Next ==
    \/ \E t \in Text : LocalCopy(t)
    \/ \E c \in ConnId, t \in Text : ClientCopy(c, t)
    \/ ClientTextArrives
    \/ ClipboardChanged
    \/ EchoTimer
    \/ \E c \in ConnId : ServerTextArrives(c) \/ AddConnection(c)
    \/ \E id \in connections \cup {NoId} : ClientJoins(id)
    \/ \E c \in connections : \E id \in (connections \ {c}) \cup {NoId} :
          ConnectionClosed(c, id)
    \/ \E n \in 1 .. FrameBytes : AudioArrives(n)
    \/ CaptureEnds
    \/ \E late \in 0 .. FrameBytes - 1 : Stop(late)
    \/ \E late \in 0 .. FrameBytes - 1, s \in [clipboard : BOOLEAN, audio : BOOLEAN] :
          BeginStart(late, s)
    \/ FinishStart

Spec == Init /\ [][Next]_vars

-----------------------------------------------------------------------------
(* Properties                                                                *)

(* The controller's clipboard and the session's hold the same text once       *)
(* everything under way has arrived, whoever copied last, across handovers    *)
(* and restarts of the server: a text is neither lost nor kept back as an     *)
(* echo.  Not so for a copy or handover that meets texts under way or comes   *)
(* within a second of a client's text: those can cross, or be swallowed.      *)
ClipboardsAgree ==
    Quiet /\ ~raced /\ controllerId \in connections /\ gate[controllerId] /\ system # NoText
        => clientText[controllerId] = system

(* The remainder belongs to the frame the running capture is in, so that the  *)
(* samples every client gets are whole frames: bytes of an earlier capture    *)
(* never shift them.  Not so if start() met a capture that was running, or    *)
(* one that another start() had begun and that ended meanwhile.              *)
AudioIsAligned == capture /\ clean => audioRemainder = position
=============================================================================

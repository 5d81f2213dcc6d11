----------------------------- MODULE Media_proofs -----------------------------
(***************************************************************************)
(* Theorems about Media, for any clients and texts, frames of any size and *)
(* any number of texts under way.                                          *)
(***************************************************************************)
EXTENDS Media, SequenceTheorems, TLAPS

Queues == [ConnId -> Seq(Text)]

(* TypeOK, conjunct by conjunct; every notification goes back to a copy.     *)
Types ==
    /\ connections \in SUBSET ConnId
    /\ controllerId \in ConnId \cup {NoId}
    /\ gate \in [ConnId -> BOOLEAN]
    /\ settings \in [clipboard : BOOLEAN, audio : BOOLEAN]
    /\ system \in Text \cup {NoText} /\ echo \in Text \cup {NoText}
    /\ timers \in Seq(Text)
    /\ inbox \in Seq(ConnId \X Text)
    /\ outbox \in Queues
    /\ clientText \in [ConnId -> Text \cup {NoText}]
    /\ notes \in Nat /\ copies \in Nat /\ copies <= MaxCopies
    /\ notes + Len(inbox) <= copies
    /\ starting \in 0..2
    /\ listening \in BOOLEAN /\ raced \in BOOLEAN
    /\ capture \in BOOLEAN /\ clean \in BOOLEAN
    /\ position \in 0 .. FrameBytes - 1 /\ audioRemainder \in 0 .. FrameBytes - 1

(* Only the gate of a controller that is connected can be open.              *)
GatesFollow ==
    \A c \in ConnId : gate[c] => /\ c = controllerId /\ c \in connections
                                 /\ settings.clipboard

(* An echo is expected until the timer of the text it belongs to.            *)
EchoFollows == echo # NoText => timers # << >> /\ echo = timers[Len(timers)]

(* The only text under way between the session and the controller c: the     *)
(* client's own, its echo, a notification, or the session's text.            *)
OneUnderWay(c) ==
    \/ /\ inbox = << <<c, clientText[c]>> >>
       /\ notes = 0 /\ outbox[c] = << >>
    \/ /\ inbox = << >> /\ notes = 1 /\ outbox[c] = << >>
       /\ echo = NoText \/ (echo = system /\ clientText[c] = system)
    \/ /\ inbox = << >> /\ notes = 0
       /\ \/ system = NoText /\ outbox[c] = << >>
          \/ outbox[c] = << >> /\ clientText[c] = system
          \/ outbox[c] = <<system>>

ClipboardFollows == ~raced => \A c \in ConnId : gate[c] => OneUnderWay(c)

(* Without a capture the remainder of the last one is gone.                  *)
RemainderFollows == clean => audioRemainder = position

MediaInv ==
    /\ Types /\ GatesFollow /\ EchoFollows /\ ClipboardFollows /\ RemainderFollows

-----------------------------------------------------------------------------
(* Every step keeps the invariant                                            *)

(* Initially nothing is under way.                                           *)
LEMMA MediaInit == Init => MediaInv
<1> SUFFICES ASSUME Init PROVE MediaInv
  OBVIOUS
<1>1. /\ timers = << >> /\ inbox = << >> /\ timers \in Seq(Text)
      /\ inbox \in Seq(ConnId \X Text) /\ Len(inbox) = 0
      /\ outbox \in Queues
  BY DEF Init, Queues
<1>2. Types
  <2>1. /\ gate \in [ConnId -> BOOLEAN]
        /\ settings \in [clipboard : BOOLEAN, audio : BOOLEAN]
        /\ listening \in BOOLEAN /\ raced \in BOOLEAN
        /\ capture \in BOOLEAN /\ clean \in BOOLEAN
    BY Zenon DEF Init
  <2> QED BY <1>1, <2>1, MediaAssumption DEF Init, Types
<1> QED BY <1>1, <1>2
        DEF Init, MediaInv, GatesFollow, EchoFollows, ClipboardFollows, RemainderFollows

(* Texts are copied in the session.                                          *)
LEMMA LocalCopyStep ==
    ASSUME MediaInv, NEW t \in Text, LocalCopy(t)
    PROVE  MediaInv'
<1>1. /\ copies < MaxCopies /\ copies' = copies + 1
      /\ system' = t /\ notes' = notes + 1 /\ raced' = ~Settled
      /\ UNCHANGED <<listening, connections, settings, starting, controllerId, gate,
                     echo, timers, inbox, outbox, clientText,
                     capture, position, audioRemainder, clean>>
  BY DEF LocalCopy, serverVars, audioVars
<1>2. Types'
  <2>1. raced' \in BOOLEAN
    BY <1>1
  <2>2. Len(inbox) \in Nat
    BY LenProperties DEF MediaInv, Types
  <2>3. /\ notes' \in Nat /\ copies' \in Nat /\ copies' <= MaxCopies
        /\ notes' + Len(inbox) <= copies'
    BY <1>1, <2>2, MediaAssumption DEF MediaInv, Types
  <2> QED BY <1>1, <2>1, <2>3 DEF MediaInv, Types
<1>3. GatesFollow' /\ EchoFollows' /\ RemainderFollows'
  BY <1>1 DEF MediaInv, GatesFollow, EchoFollows, RemainderFollows
<1>4. ClipboardFollows'
  <2> SUFFICES ASSUME Settled, NEW c \in ConnId
               PROVE  OneUnderWay(c)'
    BY <1>1 DEF ClipboardFollows
  <2>1. /\ notes = 0 /\ inbox = << >> /\ outbox[c] = << >> /\ timers = << >>
    BY DEF Settled, Quiet
  <2>2. echo = NoText
    BY <2>1 DEF MediaInv, EchoFollows
  <2> QED BY <1>1, <2>1, <2>2 DEF OneUnderWay
<1> QED BY <1>2, <1>3, <1>4 DEF MediaInv

(* A client's text sets out.                                                 *)
LEMMA ClientCopyStep ==
    ASSUME MediaInv, NEW c \in ConnId, NEW t \in Text, ClientCopy(c, t)
    PROVE  MediaInv'
<1>1. /\ copies < MaxCopies /\ copies' = copies + 1
      /\ clientText' = [clientText EXCEPT ![c] = t]
      /\ inbox' = IF gate[c] THEN Append(inbox, <<c, t>>) ELSE inbox
      /\ raced' = IF gate[c] THEN ~Settled ELSE raced
      /\ UNCHANGED <<listening, connections, settings, starting, controllerId, gate,
                     system, notes, echo, timers, outbox,
                     capture, position, audioRemainder, clean>>
  BY DEF ClientCopy, serverVars, audioVars
<1>2. /\ inbox \in Seq(ConnId \X Text) /\ Len(inbox) \in Nat
      /\ clientText \in [ConnId -> Text \cup {NoText}] /\ gate[c] \in BOOLEAN
  BY LenProperties DEF MediaInv, Types
<1>3. Types'
  <2>1. /\ inbox' \in Seq(ConnId \X Text) /\ Len(inbox') <= Len(inbox) + 1
        /\ Len(inbox') \in Nat
    BY <1>1, <1>2, AppendProperties, LenProperties
  <2>2. raced' \in BOOLEAN
    BY <1>1, <1>2 DEF MediaInv, Types
  <2>3. clientText' \in [ConnId -> Text \cup {NoText}]
    BY <1>1, <1>2
  <2>4. /\ copies' \in Nat /\ copies' <= MaxCopies
        /\ notes' + Len(inbox') <= copies'
    BY <1>1, <1>2, <2>1, MediaAssumption DEF MediaInv, Types
  <2> QED BY <1>1, <2>1, <2>2, <2>3, <2>4 DEF MediaInv, Types
<1>4. GatesFollow' /\ EchoFollows' /\ RemainderFollows'
  BY <1>1 DEF MediaInv, GatesFollow, EchoFollows, RemainderFollows
<1>5. ClipboardFollows'
  <2> SUFFICES ASSUME ~raced', NEW d \in ConnId, gate[d]
               PROVE  OneUnderWay(d)'
    BY <1>1 DEF ClipboardFollows
  <2>1. CASE gate[c]
    <3>1. c = d
      BY <2>1 DEF MediaInv, GatesFollow
    <3>2. notes = 0 /\ inbox = << >> /\ outbox[d] = << >>
      BY <1>1, <2>1 DEF Settled, Quiet
    <3>3. inbox' = << <<d, clientText'[d]>> >>
      BY <1>1, <1>2, <2>1, <3>1, <3>2
    <3> QED BY <1>1, <3>2, <3>3 DEF OneUnderWay
  <2>2. CASE ~gate[c]
    <3>1. clientText'[d] = clientText[d] /\ inbox' = inbox
      BY <1>1, <1>2, <2>2
    <3>2. OneUnderWay(d)
      BY <1>1, <2>2 DEF MediaInv, ClipboardFollows
    <3> QED BY <1>1, <3>1, <3>2 DEF OneUnderWay
  <2> QED BY <2>1, <2>2
<1> QED BY <1>3, <1>4, <1>5 DEF MediaInv

(* It arrives.                                                               *)
LEMMA ClientTextArrivesStep ==
    ASSUME MediaInv, ClientTextArrives
    PROVE  MediaInv'
<1>1. /\ inbox # << >> /\ inbox' = Tail(inbox)
      /\ UNCHANGED <<listening, connections, settings, starting, controllerId, gate,
                     outbox, clientText, copies, raced,
                     capture, position, audioRemainder, clean>>
  BY DEF ClientTextArrives, serverVars, audioVars
<1> DEFINE c == inbox[1][1]
           t == inbox[1][2]
<1>2. /\ inbox \in Seq(ConnId \X Text) /\ Len(inbox) \in Nat /\ Len(inbox) >= 1
      /\ c \in ConnId /\ t \in Text
      /\ inbox' \in Seq(ConnId \X Text) /\ Len(inbox') = Len(inbox) - 1
  <2>1. /\ inbox \in Seq(ConnId \X Text) /\ Len(inbox) \in Nat /\ Len(inbox) # 0
        /\ inbox' \in Seq(ConnId \X Text) /\ Len(inbox') = Len(inbox) - 1
    BY <1>1, HeadTailProperties, EmptySeq, LenProperties DEF MediaInv, Types
  <2>2. inbox[1] \in ConnId \X Text
    BY <2>1, ElementOfSeq
  <2> QED BY <2>1, <2>2
<1>3. \/ /\ c \in connections /\ c = controllerId /\ settings.clipboard /\ gate[c]
         /\ echo' = t /\ system' = t /\ notes' = notes + 1
         /\ timers' = Append(timers, t)
      \/ UNCHANGED <<echo, system, notes, timers>>
  BY DEF ClientTextArrives
<1> HIDE DEF c, t
<1>4. Types'
  <2>1. /\ notes' \in Nat /\ notes' + Len(inbox') <= copies
        /\ system' \in Text \cup {NoText} /\ echo' \in Text \cup {NoText}
    BY <1>2, <1>3 DEF MediaInv, Types
  <2>2. timers \in Seq(Text) /\ Append(timers, t) \in Seq(Text)
    BY <1>2, AppendProperties DEF MediaInv, Types
  <2>3. timers' \in Seq(Text)
    BY <1>3, <2>2
  <2> QED BY <1>1, <1>2, <2>1, <2>3 DEF MediaInv, Types
<1>5. GatesFollow' /\ RemainderFollows'
  BY <1>1 DEF MediaInv, GatesFollow, RemainderFollows
<1>6. EchoFollows'
  <2>1. CASE echo' = t /\ timers' = Append(timers, t)
    <3>1. /\ Len(timers) \in Nat /\ Len(timers') = Len(timers) + 1
          /\ timers'[Len(timers) + 1] = t
      BY <1>2, <2>1, AppendProperties, LenProperties DEF MediaInv, Types
    <3>2. timers' # << >>
      BY <3>1
    <3> QED BY <2>1, <3>1, <3>2 DEF EchoFollows
  <2>2. CASE UNCHANGED <<echo, timers>>
    BY <2>2 DEF MediaInv, EchoFollows
  <2> QED BY <1>3, <2>1, <2>2
<1>7. ClipboardFollows'
  <2> SUFFICES ASSUME ~raced, NEW d \in ConnId, gate[d]
               PROVE  OneUnderWay(d)'
    BY <1>1 DEF ClipboardFollows
  <2>1. /\ inbox = << <<d, clientText[d]>> >> /\ notes = 0 /\ outbox[d] = << >>
    BY <1>1 DEF MediaInv, ClipboardFollows, OneUnderWay
  <2>2. c = d /\ t = clientText[d] /\ inbox' = << >>
    BY <1>1, <2>1 DEF c, t
  <2>3. d = controllerId /\ d \in connections /\ settings.clipboard
    BY DEF MediaInv, GatesFollow
  <2>4. echo' = t /\ system' = t /\ notes' = notes + 1
    BY <2>2, <2>3 DEF ClientTextArrives, c, t
  <2> QED BY <1>1, <2>1, <2>2, <2>4 DEF OneUnderWay
<1> QED BY <1>4, <1>5, <1>6, <1>7 DEF MediaInv

(* The slot of a changed session clipboard.                                  *)
LEMMA ClipboardChangedStep ==
    ASSUME MediaInv, ClipboardChanged
    PROVE  MediaInv'
<1> DEFINE heard == settings.clipboard /\ system # NoText
<1>1. /\ notes > 0 /\ notes' = notes - 1
      /\ echo' = IF heard /\ system = echo THEN NoText ELSE echo
      /\ outbox' = [c \in ConnId |->
                       IF c \in {d \in connections : heard /\ system # echo /\ gate[d]}
                       THEN Append(outbox[c], system) ELSE outbox[c]]
      /\ UNCHANGED <<listening, connections, settings, starting, controllerId, gate,
                     system, timers, inbox, clientText, copies, raced,
                     capture, position, audioRemainder, clean>>
  BY DEF ClipboardChanged, Send, Sent, serverVars, audioVars
<1>2. Types'
  <2>1. notes' \in Nat /\ notes' + Len(inbox) <= copies
    BY <1>1, LenProperties DEF MediaInv, Types
  <2>2. echo' \in Text \cup {NoText}
    BY <1>1 DEF MediaInv, Types
  <2>3. ASSUME NEW c \in ConnId
        PROVE  outbox[c] \in Seq(Text)
               /\ (system # NoText => Append(outbox[c], system) \in Seq(Text))
    BY AppendProperties DEF MediaInv, Types, Queues
  <2>4. outbox' \in Queues
    BY <1>1, <2>3 DEF Queues
  <2> QED BY <1>1, <2>1, <2>2, <2>4 DEF MediaInv, Types
<1>3. GatesFollow' /\ EchoFollows' /\ RemainderFollows'
  BY <1>1 DEF MediaInv, GatesFollow, EchoFollows, RemainderFollows
<1>4. ClipboardFollows'
  <2> SUFFICES ASSUME ~raced, NEW c \in ConnId, gate[c]
               PROVE  OneUnderWay(c)'
    BY <1>1 DEF ClipboardFollows
  <2>1. /\ inbox = << >> /\ notes = 1 /\ outbox[c] = << >>
        /\ echo = NoText \/ (echo = system /\ clientText[c] = system)
    BY <1>1 DEF MediaInv, ClipboardFollows, OneUnderWay
  <2>2. c \in connections /\ settings.clipboard
    BY DEF MediaInv, GatesFollow
  <2>3. notes' = 0 /\ inbox' = << >>
    BY <1>1, <2>1
  <2>4. CASE system = NoText
    BY <1>1, <2>1, <2>3, <2>4 DEF OneUnderWay
  <2>5. CASE system # NoText /\ system = echo
    BY <1>1, <2>1, <2>3, <2>5 DEF OneUnderWay
  <2>6. CASE system # NoText /\ system # echo
    <3>1. Append(outbox[c], system) = <<system>>
      BY <2>1
    <3>2. outbox'[c] = <<system>>
      BY <1>1, <2>2, <2>6, <3>1
    <3> QED BY <1>1, <2>3, <3>2 DEF OneUnderWay
  <2> QED BY <2>4, <2>5, <2>6
<1> QED BY <1>2, <1>3, <1>4 DEF MediaInv

(* A second after a client's text.                                           *)
LEMMA EchoTimerStep ==
    ASSUME MediaInv, EchoTimer
    PROVE  MediaInv'
<1>1. /\ timers # << >> /\ timers' = Tail(timers)
      /\ echo' = IF echo = Head(timers) THEN NoText ELSE echo
      /\ UNCHANGED <<listening, connections, settings, starting, controllerId, gate,
                     system, notes, inbox, outbox, clientText, copies, raced,
                     capture, position, audioRemainder, clean>>
  BY DEF EchoTimer, serverVars, audioVars
<1>2. /\ timers \in Seq(Text) /\ Len(timers) \in Nat /\ Len(timers) # 0
      /\ timers' \in Seq(Text) /\ Len(timers') = Len(timers) - 1
      /\ \A k \in 1..Len(timers') : timers'[k] = timers[k + 1]
      /\ Head(timers) = timers[1]
  BY <1>1, HeadTailProperties, EmptySeq, LenProperties DEF MediaInv, Types
<1>3. Types'
  <2>1. echo' \in Text \cup {NoText}
    BY <1>1 DEF MediaInv, Types
  <2> QED BY <1>1, <1>2, <2>1 DEF MediaInv, Types
<1>4. EchoFollows'
  <2> SUFFICES ASSUME echo' # NoText
               PROVE  timers' # << >> /\ echo' = timers'[Len(timers')]
    BY DEF EchoFollows
  <2>1. echo' = echo /\ echo # timers[1] /\ echo = timers[Len(timers)]
    BY <1>1, <1>2 DEF MediaInv, EchoFollows
  <2>2. Len(timers) # 1
    BY <2>1
  <2>3. Len(timers') \in 1..Len(timers') /\ Len(timers') + 1 = Len(timers)
    BY <1>2, <2>2
  <2>4. timers'[Len(timers')] = timers[Len(timers)]
    BY <1>2, <2>3
  <2>5. timers' # << >>
    BY <2>3
  <2> QED BY <2>1, <2>4, <2>5
<1>5. GatesFollow' /\ RemainderFollows'
  BY <1>1 DEF MediaInv, GatesFollow, RemainderFollows
<1>6. ClipboardFollows'
  <2> SUFFICES ASSUME ~raced, NEW c \in ConnId, gate[c]
               PROVE  OneUnderWay(c)'
    BY <1>1 DEF ClipboardFollows
  <2>1. OneUnderWay(c) /\ (echo' = echo \/ echo' = NoText)
    BY <1>1 DEF MediaInv, ClipboardFollows
  <2> QED BY <1>1, <2>1 DEF OneUnderWay
<1> QED BY <1>3, <1>4, <1>5, <1>6 DEF MediaInv

(* A text arrives at a client.                                               *)
LEMMA ServerTextArrivesStep ==
    ASSUME MediaInv, NEW c \in ConnId, ServerTextArrives(c)
    PROVE  MediaInv'
<1>1. /\ outbox[c] # << >> /\ outbox' = [outbox EXCEPT ![c] = Tail(outbox[c])]
      /\ clientText' = [clientText EXCEPT ![c] = Head(outbox[c])]
      /\ UNCHANGED <<listening, connections, settings, starting, controllerId, gate,
                     system, notes, echo, timers, inbox, copies, raced,
                     capture, position, audioRemainder, clean>>
  BY DEF ServerTextArrives, serverVars, audioVars
<1>2. /\ outbox \in Queues /\ outbox[c] \in Seq(Text)
      /\ clientText \in [ConnId -> Text \cup {NoText}]
  BY DEF MediaInv, Types, Queues
<1>3. Head(outbox[c]) \in Text /\ Tail(outbox[c]) \in Seq(Text)
  <2>1. /\ Tail(outbox[c]) \in Seq(Text) /\ Head(outbox[c]) = outbox[c][1]
        /\ Len(outbox[c]) # 0 /\ Len(outbox[c]) \in Nat
    BY <1>1, <1>2, HeadTailProperties, EmptySeq, LenProperties
  <2>2. outbox[c][1] \in Text
    BY <1>2, <2>1, ElementOfSeq
  <2> QED BY <2>1, <2>2
<1>4. Types'
  <2>1. outbox' \in Queues /\ clientText' \in [ConnId -> Text \cup {NoText}]
    BY <1>1, <1>2, <1>3 DEF Queues
  <2> QED BY <1>1, <2>1 DEF MediaInv, Types
<1>5. GatesFollow' /\ EchoFollows' /\ RemainderFollows'
  BY <1>1 DEF MediaInv, GatesFollow, EchoFollows, RemainderFollows
<1>6. ClipboardFollows'
  <2> SUFFICES ASSUME ~raced, NEW d \in ConnId, gate[d]
               PROVE  OneUnderWay(d)'
    BY <1>1 DEF ClipboardFollows
  <2>1. OneUnderWay(d)
    BY DEF MediaInv, ClipboardFollows
  <2>2. CASE d # c
    <3>1. outbox'[d] = outbox[d] /\ clientText'[d] = clientText[d]
      BY <1>1, <1>2, <2>2 DEF Queues
    <3> QED BY <1>1, <2>1, <3>1 DEF OneUnderWay
  <2>3. CASE d = c
    <3>1. inbox = << >> /\ notes = 0 /\ outbox[c] = <<system>>
      BY <1>1, <2>1, <2>3 DEF OneUnderWay
    <3>2. Tail(outbox[c]) = << >> /\ Head(outbox[c]) = system
      BY <3>1
    <3>3. outbox'[c] = << >> /\ clientText'[c] = system
      BY <1>1, <1>2, <3>2 DEF Queues
    <3> QED BY <1>1, <2>3, <3>1, <3>3 DEF OneUnderWay
  <2> QED BY <2>2, <2>3
<1> QED BY <1>4, <1>5, <1>6 DEF MediaInv

(* Control is handed over.                                                   *)
LEMMA SetControllerStep ==
    ASSUME MediaInv, NEW id, setController(id),
           connections' \subseteq connections, id \in connections' \cup {NoId},
           clientText' \in [ConnId -> Text \cup {NoText}], outbox' \in Queues,
           id \in ConnId => outbox'[id] = Sent(Handed(id), system)[id],
           UNCHANGED <<listening, settings, starting, audioVars>>
    PROVE  MediaInv'
<1>1. /\ controllerId' = id
      /\ gate' = [c \in ConnId |-> c = id /\ settings.clipboard]
      /\ raced' = ~Settled
      /\ UNCHANGED <<listening, settings, starting, system, notes, echo, timers, inbox, copies,
                     capture, position, audioRemainder, clean>>
  BY DEF setController, audioVars
<1>2. Types'
  <2>1. raced' \in BOOLEAN
    BY <1>1
  <2>2. gate' \in [ConnId -> BOOLEAN]
    BY <1>1
  <2>3. controllerId' \in ConnId \cup {NoId} /\ connections' \in SUBSET ConnId
    BY <1>1 DEF MediaInv, Types
  <2> QED BY <1>1, <2>1, <2>2, <2>3 DEF MediaInv, Types
<1>3. \A c \in ConnId : gate'[c] => c = id /\ settings.clipboard
  BY <1>1
<1>4. GatesFollow' /\ EchoFollows' /\ RemainderFollows'
  BY <1>1, <1>3, MediaAssumption DEF MediaInv, GatesFollow, EchoFollows, RemainderFollows
<1>5. ClipboardFollows'
  <2> SUFFICES ASSUME Settled, NEW c \in ConnId, gate'[c]
               PROVE  OneUnderWay(c)'
    BY <1>1 DEF ClipboardFollows
  <2>1. notes = 0 /\ inbox = << >> /\ outbox[c] = << >>
    BY DEF Settled, Quiet
  <2>2. Append(outbox[c], system) = <<system>>
    BY <2>1
  <2>3. outbox'[c] = IF system # NoText THEN <<system>> ELSE << >>
    BY <1>3, <2>1, <2>2 DEF Sent, Handed
  <2> QED BY <1>1, <2>1, <2>3 DEF OneUnderWay
<1> QED BY <1>2, <1>4, <1>5 DEF MediaInv

(* What is handed to the controller goes into the queues.                    *)
LEMMA SentText ==
    ASSUME MediaInv, NEW id
    PROVE  Sent(Handed(id), system) \in Queues
<1>1. ASSUME NEW c \in ConnId
      PROVE  outbox[c] \in Seq(Text)
             /\ (system # NoText => Append(outbox[c], system) \in Seq(Text))
  BY AppendProperties DEF MediaInv, Types, Queues
<1> QED BY <1>1 DEF Sent, Handed, Queues

LEMMA ClientJoinsStep ==
    ASSUME MediaInv, NEW id \in connections \cup {NoId}, ClientJoins(id)
    PROVE  MediaInv'
<1>1. clientText' \in [ConnId -> Text \cup {NoText}]
  BY DEF ClientJoins, MediaInv, Types
<1> QED BY <1>1, SentText, SetControllerStep DEF ClientJoins, Send, serverVars

LEMMA ConnectionClosedStep ==
    ASSUME MediaInv, NEW c \in connections, NEW id \in (connections \ {c}) \cup {NoId},
           ConnectionClosed(c, id)
    PROVE  MediaInv'
<1> DEFINE sent == Sent(Handed(id), system)
<1>1. sent \in Queues /\ c \in ConnId
  BY SentText DEF MediaInv, Types
<1> HIDE DEF sent
<1>2. /\ setController(id) /\ connections' = connections \ {c}
      /\ outbox' = [sent EXCEPT ![c] = << >>]
      /\ clientText' = [clientText EXCEPT ![c] = NoText]
      /\ UNCHANGED <<listening, settings, starting, audioVars>>
  BY DEF ConnectionClosed, sent
<1>3. clientText' \in [ConnId -> Text \cup {NoText}]
  BY <1>1, <1>2 DEF MediaInv, Types
<1>4. outbox' \in Queues
  BY <1>1, <1>2 DEF Queues
<1>5. id # c
  BY <1>1, MediaAssumption
<1>6. id \in ConnId => outbox'[id] = sent[id]
  BY <1>1, <1>2, <1>5 DEF Queues
<1> QED BY <1>2, <1>3, <1>4, <1>5, <1>6, SetControllerStep DEF sent

(* The server stops, or is about to start anew.                              *)
LEMMA DisconnectStep ==
    ASSUME MediaInv, NEW late \in 0 .. FrameBytes - 1, Disconnect,
           starting' \in 0..2, settings' \in [clipboard : BOOLEAN, audio : BOOLEAN],
           audioRemainder' = RemainderStopped(late),
           capture' = FALSE, clean' = ~capture, position' = 0
    PROVE  MediaInv'
<1>1. /\ listening' = FALSE /\ connections' = {}
      /\ gate' = [c \in ConnId |-> FALSE]
      /\ inbox' = << >> /\ outbox' = [c \in ConnId |-> << >>]
      /\ clientText' = [c \in ConnId |-> NoText]
      /\ UNCHANGED <<controllerId, system, notes, echo, timers, copies, raced>>
  BY DEF Disconnect
<1>2. /\ inbox' \in Seq(ConnId \X Text) /\ Len(inbox') = 0
      /\ outbox' \in Queues
      /\ clientText' \in [ConnId -> Text \cup {NoText}]
  BY <1>1 DEF Queues
<1>3. gate' \in [ConnId -> BOOLEAN] /\ \A c \in ConnId : ~gate'[c]
  BY <1>1
<1>4. /\ capture' \in BOOLEAN /\ clean' \in BOOLEAN /\ listening' \in BOOLEAN
  BY <1>1, Zenon
<1>5. /\ position' \in 0 .. FrameBytes - 1 /\ audioRemainder' \in 0 .. FrameBytes - 1
      /\ clean' => audioRemainder' = position'
  <2>1. audioRemainder' = late \/ audioRemainder' = 0
    BY DEF RemainderStopped
  <2>2. clean' => audioRemainder' = 0
    BY Zenon DEF RemainderStopped
  <2> QED BY <2>1, <2>2, MediaAssumption
<1>6. notes' \in Nat /\ notes' + Len(inbox') <= copies'
  BY <1>1, <1>2, LenProperties DEF MediaInv, Types
<1>7. Types'
  BY <1>1, <1>2, <1>3, <1>4, <1>5, <1>6 DEF MediaInv, Types
<1>8. EchoFollows'
  BY <1>1 DEF MediaInv, EchoFollows
<1> QED BY <1>3, <1>5, <1>7, <1>8
        DEF MediaInv, GatesFollow, ClipboardFollows, RemainderFollows

(* A client connects, or the capture of the playback begins, goes on or ends. *)
LEMMA OtherSteps ==
    ASSUME MediaInv
    PROVE  /\ \A c \in ConnId : AddConnection(c) => MediaInv'
           /\ \A k \in 1 .. FrameBytes : AudioArrives(k) => MediaInv'
           /\ CaptureEnds \/ FinishStart \/ UNCHANGED vars => MediaInv'
<1>1. ASSUME UNCHANGED <<clipboardVars, settings>>, connections \subseteq connections',
             connections' \in SUBSET ConnId, starting' \in 0..2,
             listening' \in BOOLEAN, capture' \in BOOLEAN, clean' \in BOOLEAN,
             position' \in 0 .. FrameBytes - 1, audioRemainder' \in 0 .. FrameBytes - 1,
             RemainderFollows'
      PROVE  MediaInv'
  <2>1. Types' /\ GatesFollow' /\ EchoFollows'
    BY <1>1 DEF MediaInv, Types, GatesFollow, EchoFollows, clipboardVars
  <2>2. ClipboardFollows'
    BY <1>1 DEF MediaInv, ClipboardFollows, OneUnderWay, clipboardVars
  <2> QED BY <1>1, <2>1, <2>2 DEF MediaInv
<1>2. ASSUME NEW c \in ConnId, AddConnection(c)
      PROVE  MediaInv'
  BY <1>1, <1>2 DEF AddConnection, MediaInv, Types, RemainderFollows, audioVars
<1>3. ASSUME NEW k \in 1 .. FrameBytes, AudioArrives(k)
      PROVE  MediaInv'
  <2>1. /\ audioRemainder' = (audioRemainder + k) % FrameBytes
        /\ position' = (position + k) % FrameBytes
        /\ UNCHANGED <<listening, connections, settings, starting, clipboardVars,
                       capture, clean>>
    BY <1>3 DEF AudioArrives, serverVars
  <2>2. /\ position' \in 0 .. FrameBytes - 1 /\ audioRemainder' \in 0 .. FrameBytes - 1
    BY <2>1, MediaAssumption DEF MediaInv, Types
  <2>3. RemainderFollows'
    BY <2>1 DEF MediaInv, RemainderFollows
  <2> QED BY <1>1, <2>1, <2>2, <2>3 DEF MediaInv, Types
<1>4. CASE CaptureEnds
  <2>1. /\ capture' \in BOOLEAN /\ clean' \in BOOLEAN /\ ~clean'
    BY <1>4, Zenon DEF CaptureEnds
  <2>2. /\ position' = 0 /\ UNCHANGED <<listening, connections, settings, starting,
                                        clipboardVars, audioRemainder>>
    BY <1>4 DEF CaptureEnds, serverVars
  <2> QED BY <1>1, <2>1, <2>2, MediaAssumption DEF MediaInv, Types, RemainderFollows
<1>5. CASE FinishStart
  <2>1. /\ starting > 0 /\ starting' = starting - 1
        /\ UNCHANGED <<connections, settings, clipboardVars, position, audioRemainder,
                       clean>>
    BY <1>5 DEF FinishStart
  <2>2. capture' \in BOOLEAN /\ listening' \in BOOLEAN
    BY <1>5, Zenon DEF FinishStart, MediaInv, Types
  <2>3. starting' \in 0..2
    BY <2>1 DEF MediaInv, Types
  <2> QED BY <1>1, <2>1, <2>2, <2>3 DEF MediaInv, Types, RemainderFollows
<1>6. CASE UNCHANGED vars
  BY <1>1, <1>6 DEF vars, serverVars, audioVars, MediaInv, Types, RemainderFollows
<1> QED BY <1>2, <1>3, <1>4, <1>5, <1>6

(* Every step keeps the invariant.                                           *)
LEMMA MediaNext == MediaInv /\ [Next]_vars => MediaInv'
<1> SUFFICES ASSUME MediaInv, [Next]_vars PROVE MediaInv'
  OBVIOUS
<1>1. ASSUME NEW t \in Text, LocalCopy(t)
      PROVE  MediaInv'
  BY <1>1, LocalCopyStep
<1>2. ASSUME NEW c \in ConnId, NEW t \in Text, ClientCopy(c, t)
      PROVE  MediaInv'
  BY <1>2, ClientCopyStep
<1>3. CASE ClientTextArrives \/ ClipboardChanged \/ EchoTimer
  BY <1>3, ClientTextArrivesStep, ClipboardChangedStep, EchoTimerStep
<1>4. ASSUME NEW c \in ConnId, ServerTextArrives(c) \/ AddConnection(c)
      PROVE  MediaInv'
  BY <1>4, ServerTextArrivesStep, OtherSteps
<1>5. ASSUME NEW id \in connections \cup {NoId}, ClientJoins(id)
      PROVE  MediaInv'
  BY <1>5, ClientJoinsStep
<1>10. ASSUME NEW c \in connections, NEW id \in (connections \ {c}) \cup {NoId},
              ConnectionClosed(c, id)
       PROVE  MediaInv'
  BY <1>10, ConnectionClosedStep
<1>6. ASSUME NEW k \in 1 .. FrameBytes, AudioArrives(k)
      PROVE  MediaInv'
  BY <1>6, OtherSteps
<1>7. ASSUME NEW late \in 0 .. FrameBytes - 1, Stop(late)
      PROVE  MediaInv'
  <2>1. /\ Disconnect /\ starting' = 0 /\ settings' = settings
        /\ audioRemainder' = RemainderStopped(late)
        /\ capture' = FALSE /\ clean' = ~capture /\ position' = 0
    BY <1>7 DEF Stop
  <2>2. starting' \in 0..2 /\ settings' \in [clipboard : BOOLEAN, audio : BOOLEAN]
    BY <2>1 DEF MediaInv, Types
  <2> QED BY <2>1, <2>2, DisconnectStep
<1>8. ASSUME NEW late \in 0 .. FrameBytes - 1,
             NEW s \in [clipboard : BOOLEAN, audio : BOOLEAN], BeginStart(late, s)
      PROVE  MediaInv'
  <2>1. /\ Disconnect /\ starting < 2 /\ starting' = starting + 1 /\ settings' = s
        /\ audioRemainder' = RemainderStopped(late)
        /\ capture' = FALSE /\ clean' = ~capture /\ position' = 0
    BY <1>8 DEF BeginStart
  <2>2. starting' \in 0..2 /\ settings' \in [clipboard : BOOLEAN, audio : BOOLEAN]
    BY <2>1 DEF MediaInv, Types
  <2> QED BY <2>1, <2>2, DisconnectStep
<1>9. CASE CaptureEnds \/ FinishStart \/ UNCHANGED vars
  BY <1>9, OtherSteps
<1> QED BY <1>1, <1>2, <1>3, <1>4, <1>5, <1>6, <1>7, <1>8, <1>9, <1>10 DEF Next

(* The invariant always holds.                                               *)
LEMMA MediaAlways == Spec => []MediaInv
BY MediaInit, MediaNext, PTL DEF Spec

-----------------------------------------------------------------------------
(* Queues hold texts, and there are never more notifications under way than  *)
(* texts were copied.                                                        *)
THEOREM TypeCorrect == Spec => []TypeOK
<1>1. MediaInv => TypeOK
  <2> SUFFICES ASSUME Types PROVE TypeOK
    BY DEF MediaInv
  <2>1. notes \in 0..MaxCopies /\ copies \in 0..MaxCopies
    BY LenProperties, MediaAssumption DEF Types
  <2>2. /\ connections \subseteq ConnId /\ controllerId \in ConnId \cup {NoId}
        /\ gate \in [ConnId -> BOOLEAN]
        /\ settings \in [clipboard : BOOLEAN, audio : BOOLEAN]
        /\ {system, echo} \subseteq Text \cup {NoText}
        /\ timers \in Seq(Text) /\ inbox \in Seq(ConnId \X Text)
        /\ outbox \in [ConnId -> Seq(Text)]
        /\ clientText \in [ConnId -> Text \cup {NoText}]
        /\ starting \in 0..2
        /\ {position, audioRemainder} \subseteq 0 .. FrameBytes - 1
    BY DEF Types, Queues
  <2>3. {listening, raced, capture, clean} \subseteq BOOLEAN
    BY Zenon DEF Types
  <2> QED BY <2>1, <2>2, <2>3 DEF TypeOK
<1> QED BY <1>1, MediaAlways, PTL

(* Whoever copies last, the controller and the session end up with the same  *)
(* text, for any number of clients, copies and handovers.                    *)
THEOREM ClipboardsMeet == Spec => []ClipboardsAgree
<1>1. MediaInv => ClipboardsAgree
  BY DEF MediaInv, Types, ClipboardFollows, OneUnderWay, Quiet, ClipboardsAgree
<1> QED BY <1>1, MediaAlways, PTL

(* Bytes of an earlier capture never shift the samples, for frames of any    *)
(* size.                                                                     *)
THEOREM FramesStayWhole == Spec => []AudioIsAligned
<1>1. MediaInv => AudioIsAligned
  BY DEF MediaInv, RemainderFollows, AudioIsAligned
<1> QED BY <1>1, MediaAlways, PTL
=============================================================================

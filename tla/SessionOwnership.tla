--------------------------- MODULE SessionOwnership ---------------------------
(***************************************************************************)
(* Who controls the desktop: ConnectionRegistry, the connections of        *)
(* EmbeddedRdpBackend (src/daemon/embeddedrdpbackend.cpp) and the handlers *)
(* of Service that tie them together (src/daemon/service.cpp).             *)
(*                                                                         *)
(* The fields of a record or a connection object that no longer exists are *)
(* kept FALSE.                                                             *)
(*                                                                         *)
(* Every RDP peer runs in a thread of KRdp.  Its signals authenticated,    *)
(* requestedMonitorLayoutChanged and stateChanged(Closed) are queued       *)
(* connections: they post an event, and the daemon's thread dispatches the *)
(* posted events in order.  The handler of a layout request waits in       *)
(* nested event loops (KWin creates outputs, KScreen applies the layout),  *)
(* which dispatch the events behind it: handlers form a stack.             *)
(***************************************************************************)
EXTENDS SequencesExt

CONSTANTS
    ConnId, NoId,       \* connection ids, the empty id
    Layout, NoLayout,   \* layouts a client asks for, none
    MaxDepth,           \* bound: transactions suspended at the same time
    MaxRequests,        \* bound: layout requests of all clients
    MaxStarts           \* bound: starts of the server

ASSUME OwnershipAssumption ==
    /\ NoId \notin ConnId
    /\ NoLayout \notin Layout
    /\ MaxDepth \in Nat \ {0} /\ MaxRequests \in Nat /\ MaxStarts \in Nat

VARIABLES
    m_connections,      \* the registry
    connections,        \* d->connections: the ids the backend knows
    rdpReadOnly,        \* their readOnly field
    peer,               \* the RdpConnection of each id, which KRdp owns
    inputGate,          \* inputHandler()->enabled() of each connection
    clipboardGate,      \* clipboard()->enabled() of each connection
    controllerId,       \* d->controllerId
    listening,          \* d->listening
    clipboard,          \* d->settings.clipboard
    followClient,       \* LayoutController::mode() is FollowClient
    posted,             \* events posted by the peers, oldest first
    stack,              \* suspended layout transactions, innermost last
    answer,             \* what became of each client's request for a layout
    starts              \* how often the server was started

registryVars == <<m_connections>>
backendVars == <<connections, rdpReadOnly, inputGate, clipboardGate, controllerId,
                 listening, clipboard>>
vars == <<m_connections, connections, rdpReadOnly, peer, inputGate, clipboardGate,
          controllerId, listening, clipboard, followClient, posted, stack, answer, starts>>

Registry == INSTANCE ConnectionRegistry

(* A peer shakes hands, is authenticated and closes; "dropped" is one whose   *)
(* server was stopped under it.  KRdp deletes the object of a closed peer     *)
(* ("gone"), which clears the QPointer of the backend's record.               *)
PeerState == {"none", "handshake", "authenticated", "closed", "dropped", "gone"}

Event == [kind : {"authenticated"}, id : ConnId, readOnly : BOOLEAN]
            \cup [kind : {"layout"}, id : ConnId, layout : Layout]
            \cup [kind : {"closed"}, id : ConnId]

(* A transaction for a client waits while its layout is applied, and when     *)
(* the client can no longer take it, while the previous one is restored.      *)
Transaction == [id : ConnId, layout : Layout, pc : {"apply", "revert"}]

TypeOK ==
    /\ Registry!TypeOK
    /\ connections \subseteq ConnId
    /\ rdpReadOnly \in [ConnId -> BOOLEAN]
    /\ peer \in [ConnId -> PeerState]
    /\ inputGate \in [ConnId -> BOOLEAN]
    /\ clipboardGate \in [ConnId -> BOOLEAN]
    /\ controllerId \in ConnId \cup {NoId}
    /\ listening \in BOOLEAN /\ clipboard \in BOOLEAN /\ followClient \in BOOLEAN
    /\ posted \in Seq(Event)
    /\ stack \in Seq(Transaction) /\ Len(stack) <= MaxDepth
    /\ answer \in [ConnId -> [Layout -> {"none", "asked", "accepted", "rejected"}]]
    /\ starts \in 0..MaxStarts

Init ==
    /\ Registry!Init
    /\ connections = {}
    /\ rdpReadOnly = [c \in ConnId |-> FALSE]
    /\ peer = [c \in ConnId |-> "none"]
    /\ inputGate = [c \in ConnId |-> FALSE]
    /\ clipboardGate = [c \in ConnId |-> FALSE]
    /\ controllerId = NoId
    /\ listening = FALSE /\ clipboard = FALSE
    /\ followClient \in BOOLEAN
    /\ posted = << >>
    /\ stack = << >>
    /\ answer = [c \in ConnId |-> [l \in Layout |-> "none"]]
    /\ starts = 0

-----------------------------------------------------------------------------
(* The peers (KRdp)                                                          *)

(* The object of a connection exists.                                        *)
Alive(c) == peer[c] \in {"handshake", "authenticated", "closed"}

Post(event) == posted' = Append(posted, event)

(* Server::newConnectionCreated runs addConnection.  Whether the gates of a   *)
(* new connection start open is up to KRdp.                                   *)
addConnection(c, open) ==
    /\ listening /\ peer[c] = "none"
    /\ peer' = [peer EXCEPT ![c] = "handshake"]
    /\ connections' = connections \cup {c}
    /\ inputGate' = [inputGate EXCEPT ![c] = open]
    /\ clipboardGate' = [clipboardGate EXCEPT ![c] = open]
    /\ UNCHANGED <<registryVars, rdpReadOnly, controllerId, listening, clipboard, followClient,
                   posted, stack, answer, starts>>

PeerAuthenticates(c, readOnly) ==
    /\ peer[c] = "handshake"
    /\ peer' = [peer EXCEPT ![c] = "authenticated"]
    /\ Post([kind |-> "authenticated", id |-> c, readOnly |-> readOnly])
    /\ UNCHANGED <<registryVars, backendVars, followClient, stack, answer, starts>>

Asked == {a \in ConnId \X Layout : answer[a[1]][a[2]] # "none"}

PeerRequestsLayout(c, l) ==
    /\ peer[c] = "authenticated" /\ answer[c][l] = "none"
    /\ Cardinality(Asked) < MaxRequests
    /\ Post([kind |-> "layout", id |-> c, layout |-> l])
    /\ answer' = [answer EXCEPT ![c][l] = "asked"]
    /\ UNCHANGED <<registryVars, backendVars, peer, followClient, stack, starts>>

(* A peer that leaves, and one whose server was stopped, reports Closed.      *)
PeerCloses(c) ==
    /\ peer[c] \in {"handshake", "authenticated"}
    /\ peer' = [peer EXCEPT ![c] = "closed"]
    /\ Post([kind |-> "closed", id |-> c])
    /\ UNCHANGED <<registryVars, backendVars, followClient, stack, answer, starts>>

PeerDropped(c) ==
    /\ peer[c] = "dropped"
    /\ peer' = [peer EXCEPT ![c] = "gone"]
    /\ Post([kind |-> "closed", id |-> c])
    /\ UNCHANGED <<registryVars, backendVars, followClient, stack, answer, starts>>

PeerDeleted(c) ==
    /\ peer[c] = "closed"
    /\ peer' = [peer EXCEPT ![c] = "gone"]
    /\ inputGate' = [inputGate EXCEPT ![c] = FALSE]
    /\ clipboardGate' = [clipboardGate EXCEPT ![c] = FALSE]
    /\ UNCHANGED <<registryVars, connections, rdpReadOnly, controllerId, listening,
                   clipboard, followClient, posted, stack, answer, starts>>

-----------------------------------------------------------------------------
(* The daemon's thread: handlers of posted events                            *)

Oldest == posted[1]
Take == posted' = Tail(posted)
IsNext(kind) == posted # << >> /\ Oldest.kind = kind

(* EmbeddedRdpBackend::setController with the controller the registry has     *)
(* elected by the end of the handler.                                         *)
setController(readOnly) ==
    LET elected == (Registry!controllerId)'
        reached(c) == c \in connections /\ Alive(c)
        enabled(c) == c = elected /\ ~readOnly[c]
    IN  /\ controllerId' = elected
        /\ inputGate' = [c \in ConnId |-> IF reached(c) THEN enabled(c) ELSE inputGate[c]]
        /\ clipboardGate' = [c \in ConnId |->
                IF reached(c) THEN enabled(c) /\ clipboard ELSE clipboardGate[c]]

(* A peer whose server was stopped before its event was dispatched is not     *)
(* entered in the registry.                                                   *)
HandleAuthenticated ==
    /\ IsNext("authenticated") /\ Take
    /\ IF Oldest.id \in connections
       THEN /\ rdpReadOnly' = [rdpReadOnly EXCEPT ![Oldest.id] = Oldest.readOnly]
            /\ Registry!add(Oldest.id, Oldest.readOnly)
            /\ setController(rdpReadOnly')
       ELSE UNCHANGED <<registryVars, rdpReadOnly, controllerId, inputGate, clipboardGate>>
    /\ UNCHANGED <<connections, peer, listening, clipboard, followClient, stack,
                   answer, starts>>

(* Mutant: the gates are not set when a connection closes.                    *)
HandleClosedSilently ==
    /\ IsNext("closed") /\ Take
    /\ Registry!remove(Oldest.id)
    /\ connections' = connections \ {Oldest.id}
    /\ rdpReadOnly' = [rdpReadOnly EXCEPT ![Oldest.id] = FALSE]
    /\ UNCHANGED <<inputGate, clipboardGate, controllerId, peer, listening, clipboard,
                   followClient, stack, answer, starts>>

(* Mutant: Closed is ignored when the backend has forgotten the connection.   *)
HandleClosedIfKnown ==
    /\ IsNext("closed") /\ Take
    /\ IF Oldest.id \in connections
       THEN Registry!remove(Oldest.id) /\ setController(rdpReadOnly)
       ELSE UNCHANGED <<registryVars, controllerId, inputGate, clipboardGate>>
    /\ connections' = connections \ {Oldest.id}
    /\ rdpReadOnly' = [rdpReadOnly EXCEPT ![Oldest.id] = FALSE]
    /\ UNCHANGED <<peer, listening, clipboard, followClient, stack, answer, starts>>

(* The registry and the gates first, the backend's record last.               *)
HandleClosed ==
    /\ IsNext("closed") /\ Take
    /\ Registry!remove(Oldest.id)
    /\ setController(rdpReadOnly)
    /\ connections' = connections \ {Oldest.id}
    /\ rdpReadOnly' = [rdpReadOnly EXCEPT ![Oldest.id] = FALSE]
    /\ UNCHANGED <<peer, listening, clipboard, followClient, stack, answer, starts>>

(* rejectClientLayout reaches only a connection that still exists.            *)
Answer(c, l, word) ==
    answer' = IF c \in connections /\ Alive(c)
              THEN [answer EXCEPT ![c][l] = word] ELSE answer

MayDrive(c) == c = Registry!controllerId /\ followClient

(* Mutant: the request of a viewer is dropped without an answer.              *)
RejectLayoutSilently ==
    /\ IsNext("layout") /\ Take
    /\ ~MayDrive(Oldest.id)
    /\ UNCHANGED <<registryVars, backendVars, peer, followClient, stack, answer, starts>>

RejectLayout ==
    /\ IsNext("layout") /\ Take
    /\ ~MayDrive(Oldest.id)
    /\ Answer(Oldest.id, Oldest.layout, "rejected")
    /\ UNCHANGED <<registryVars, backendVars, peer, followClient, stack, starts>>

(* applyLayoutTransaction up to its first wait.                               *)
BeginTransaction ==
    /\ IsNext("layout") /\ Take
    /\ MayDrive(Oldest.id)
    /\ Len(stack) < MaxDepth
    /\ stack' = Append(stack, [id |-> Oldest.id, layout |-> Oldest.layout, pc |-> "apply"])
    /\ UNCHANGED <<registryVars, backendVars, peer, followClient, answer, starts>>

-----------------------------------------------------------------------------
(* The daemon's thread: a suspended transaction goes on                      *)

Top == Last(stack)
Resume(pc) == stack # << >> /\ Top.pc = pc
Return == stack' = Front(stack)

(* The outputs or KScreen fail; or the previous layout has been restored.     *)
TransactionFails ==
    /\ (Resume("apply") \/ Resume("revert"))
    /\ Return
    /\ Answer(Top.id, Top.layout, "rejected")
    /\ UNCHANGED <<registryVars, backendVars, peer, followClient, posted, starts>>

(* acceptClientLayout succeeds, or the server has been stopped meanwhile and  *)
(* nobody is asked; the layout is confirmed and noted in the registry.        *)
TransactionSucceeds ==
    /\ Resume("apply")
    /\ listening => Top.id \in connections /\ Alive(Top.id)
    /\ Return
    /\ Answer(Top.id, Top.layout, "accepted")
    /\ Registry!setRequestedLayout(Top.id, Top.layout)
    /\ UNCHANGED <<backendVars, peer, followClient, posted, starts>>

(* Mutant: the rollback is started as a further transaction.                  *)
TransactionRevertsNested ==
    /\ Resume("apply") /\ listening
    /\ stack' = Append(stack, [Top EXCEPT !.pc = "revert"])
    /\ UNCHANGED <<registryVars, backendVars, peer, followClient, posted, answer, starts>>

(* acceptClientLayout fails: the client has gone or KRdp refuses; revert()    *)
(* waits again.                                                               *)
TransactionReverts ==
    /\ Resume("apply") /\ listening
    /\ stack' = [stack EXCEPT ![Len(stack)].pc = "revert"]
    /\ UNCHANGED <<registryVars, backendVars, peer, followClient, posted, answer, starts>>

-----------------------------------------------------------------------------
(* The daemon's thread: D-Bus calls                                          *)

SetMode(follow) ==
    /\ followClient' = follow
    /\ followClient # follow
    /\ UNCHANGED <<registryVars, backendVars, peer, posted, stack, answer, starts>>

(* EmbeddedRdpBackend::start from the point where it listens.                 *)
Start(clip) ==
    /\ ~listening /\ starts < MaxStarts
    /\ starts' = starts + 1
    /\ listening' = TRUE
    /\ clipboard' = clip
    /\ UNCHANGED <<registryVars, connections, rdpReadOnly, inputGate, clipboardGate,
                   controllerId, peer, followClient, posted, stack, answer>>

(* stop() forgets the connections and destroys the server with its peers; the *)
(* registry and d->controllerId keep theirs until Closed is dispatched.       *)
Stop ==
    /\ listening
    /\ listening' = FALSE
    /\ connections' = {}
    /\ peer' = [c \in ConnId |->
                   CASE peer[c] \in {"handshake", "authenticated"} -> "dropped"
                     [] peer[c] = "closed" -> "gone"
                     [] OTHER -> peer[c]]
    /\ rdpReadOnly' = [c \in ConnId |-> FALSE]
    /\ inputGate' = [c \in ConnId |-> FALSE]
    /\ clipboardGate' = [c \in ConnId |-> FALSE]
    /\ UNCHANGED <<registryVars, controllerId, clipboard, followClient, posted, stack, answer, starts>>

Next ==
    \/ \E c \in ConnId, open \in BOOLEAN : addConnection(c, open)
    \/ \E c \in ConnId, readOnly \in BOOLEAN : PeerAuthenticates(c, readOnly)
    \/ \E c \in ConnId, l \in Layout : PeerRequestsLayout(c, l)
    \/ \E c \in ConnId : PeerCloses(c) \/ PeerDropped(c) \/ PeerDeleted(c)
    \/ HandleAuthenticated
    \/ HandleClosed
    \/ RejectLayout
    \/ BeginTransaction
    \/ TransactionFails
    \/ TransactionSucceeds
    \/ TransactionReverts
    \/ \E follow \in BOOLEAN : SetMode(follow)
    \/ \E clip \in BOOLEAN : Start(clip)
    \/ Stop

Spec == Init /\ [][Next]_vars

(* The event loop dispatches what is posted, waits for outputs and KScreen    *)
(* end, and the thread of a peer whose server was stopped ends.               *)
Fairness ==
    /\ WF_vars(HandleAuthenticated \/ HandleClosed \/ RejectLayout \/ BeginTransaction)
    /\ WF_vars(TransactionFails \/ TransactionSucceeds)
    /\ \A c \in ConnId : WF_vars(PeerDropped(c))

FairSpec == Spec /\ Fairness

-----------------------------------------------------------------------------
(* Properties                                                                *)

Registered == Registry!ConnectionIds

(* Every authenticated client that is registered and served has its input     *)
(* and clipboard gates open exactly when it is the elected controller: no     *)
(* viewer injects input, no controller is locked out, across handovers,       *)
(* restarts of the server, and peers that close in any order.                 *)
OnlyControllerInjects ==
    \A c \in Registered \cap connections :
        peer[c] = "authenticated" =>
            /\ inputGate[c] <=> c = Registry!controllerId
            /\ clipboardGate[c] <=> c = Registry!controllerId /\ clipboard

(* The registry never keeps a client for good: whoever is registered is still *)
(* served, or the event that will remove it is on its way.  (The backend's    *)
(* records are dropped by stop(), the registry's only by connectionClosed.)   *)
RegisteredIsTracked ==
    \A c \in Registered :
        \/ c \in connections /\ peer[c] = "authenticated"
        \/ peer[c] = "dropped"
        \/ \E k \in DOMAIN posted : posted[k].kind = "closed" /\ posted[k].id = c

(* A client that has gone leaves the registry, and with it control.           *)
StaleClientsLeave ==
    \A c \in ConnId : c \in Registered /\ peer[c] # "authenticated" ~> c \notin Registered

(* Every layout a connected client asks for is accepted or rejected, however  *)
(* the transactions of several clients nest.                                  *)
RequestsAreAnswered ==
    \A c \in ConnId, l \in Layout :
        answer[c][l] = "asked" /\ peer[c] = "authenticated"
            ~> answer[c][l] # "asked" \/ peer[c] # "authenticated"

(* The registry, which forgets and elects from its flags at every change and *)
(* is driven by the queued events of peers and by stops of the server, hands *)
(* control over as ControlHandover says: a viewer that joins or leaves, an   *)
(* older client that leaves and a client that asks for a layout do not move  *)
(* it.                                                                       *)
Handover == INSTANCE ControlHandover
                WITH joined <- Registry!Writable, before <- Registry!ListedBefore,
                     owner <- Registry!controllerId
HandsOver == Handover!Spec
=============================================================================

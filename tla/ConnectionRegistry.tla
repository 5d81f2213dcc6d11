-------------------------- MODULE ConnectionRegistry --------------------------
(***************************************************************************)
(* KHeadless::ConnectionRegistry (src/core/connectionregistry.cpp): the    *)
(* list of authenticated clients in order of arrival, one of which is      *)
(* flagged as the controller.  Every change of the list elects anew.  User *)
(* names, addresses and times are left out: nothing depends on them.       *)
(***************************************************************************)
EXTENDS SequencesExt

CONSTANTS
    ConnId,         \* connection ids (unique: the backend draws a UUID)
    NoId,           \* the empty id, none of ConnId
    Layout,         \* layouts a client asks for
    NoLayout        \* the layout of a client that has asked for none

VARIABLE m_connections

Connection == [id : ConnId, readOnly : BOOLEAN, controller : BOOLEAN,
               requestedLayout : Layout \cup {NoLayout}]

ConnectionIds == {m_connections[k].id : k \in DOMAIN m_connections}

TypeOK ==
    /\ m_connections \in Seq(Connection)
    /\ \A j, k \in DOMAIN m_connections :
          m_connections[j].id = m_connections[k].id => j = k

Init == m_connections = << >>

-----------------------------------------------------------------------------

(* Mutant: the search for the controller starts at the oldest client.        *)
electOldest(conns) ==
    [k \in DOMAIN conns |->
        [conns[k] EXCEPT !.controller =
            ~conns[k].readOnly /\ \A j \in 1..(k - 1) : conns[j].readOnly]]

(* From the youngest client to the oldest, the first writable one.           *)
electController(conns) ==
    [k \in DOMAIN conns |->
        [conns[k] EXCEPT !.controller =
            ~conns[k].readOnly /\ \A j \in (k + 1)..Len(conns) : conns[j].readOnly]]

controllerId ==
    IF \E k \in DOMAIN m_connections : m_connections[k].controller
    THEN LET first == CHOOSE k \in DOMAIN m_connections :
                         /\ m_connections[k].controller
                         /\ \A j \in 1..(k - 1) : ~m_connections[j].controller
         IN  m_connections[first].id
    ELSE NoId

add(id, readOnly) ==
    /\ id \notin ConnectionIds
    /\ m_connections' =
          electController(Append([k \in DOMAIN m_connections |->
                                    [m_connections[k] EXCEPT !.controller = FALSE]],
                                 [id |-> id, readOnly |-> readOnly,
                                  controller |-> ~readOnly,
                                  requestedLayout |-> NoLayout]))

remove(id) ==
    m_connections' =
        IF id \in ConnectionIds
        THEN electController(RemoveAt(m_connections,
                 CHOOSE k \in DOMAIN m_connections : m_connections[k].id = id))
        ELSE m_connections

setRequestedLayout(id, layout) ==
    m_connections' = [k \in DOMAIN m_connections |->
                         IF m_connections[k].id = id
                         THEN [m_connections[k] EXCEPT !.requestedLayout = layout]
                         ELSE m_connections[k]]

Next ==
    \/ \E id \in ConnId, readOnly \in BOOLEAN : add(id, readOnly)
    \/ \E id \in ConnId : remove(id)
    \/ \E id \in ConnId, layout \in Layout : setRequestedLayout(id, layout)

Spec == Init /\ [][Next]_m_connections

-----------------------------------------------------------------------------
(* Properties                                                                *)

(* The youngest writable client is flagged as the controller and no other is:*)
(* there is never a second one, and never none while somebody could be it.   *)
NewestWritableControls ==
    \A k \in DOMAIN m_connections :
        m_connections[k].controller <=>
            /\ ~m_connections[k].readOnly
            /\ \A j \in (k + 1)..Len(m_connections) : m_connections[j].readOnly

(* What ControlHandover sees of the registry: the writable clients and who   *)
(* of them is further up in the list.                                        *)
Writable == {c \in ConnId :
                \E k \in DOMAIN m_connections :
                    m_connections[k].id = c /\ ~m_connections[k].readOnly}

ListedBefore ==
    {p \in Writable \X Writable :
        \E j, k \in DOMAIN m_connections :
            j < k /\ m_connections[j].id = p[1] /\ m_connections[k].id = p[2]}
=============================================================================

------------------------ MODULE SessionOwnership_proofs ------------------------
(***************************************************************************)
(* Theorems about SessionOwnership, for any number of clients, nested      *)
(* transactions and starts of the server.                                  *)
(***************************************************************************)
EXTENDS SessionOwnership, SequenceTheorems, WellFoundedInduction, TLAPS

(* A function on 1..n is a sequence of length n.                             *)
LEMMA FunctionIsSeq ==
    ASSUME NEW S, NEW n \in Nat, NEW f \in [1..n -> S]
    PROVE  f \in Seq(S) /\ Len(f) = n
<1>1. f \in Seq(S)
  BY SeqDef
<1>2. DOMAIN f = 1..n /\ DOMAIN f = 1..Len(f) /\ Len(f) \in Nat
  BY <1>1, LenProperties
<1>3. Len(f) = n
  BY <1>2
<1> QED BY <1>1, <1>3

(* The election keeps the list of clients and changes flags only.            *)
LEMMA ElectionKeepsClients ==
    ASSUME NEW conns \in Seq(Registry!Connection)
    PROVE  /\ Registry!electController(conns) \in Seq(Registry!Connection)
           /\ Len(Registry!electController(conns)) = Len(conns)
           /\ \A k \in 1..Len(conns) :
                 /\ Registry!electController(conns)[k].id = conns[k].id
                 /\ Registry!electController(conns)[k].readOnly = conns[k].readOnly
                 /\ Registry!electController(conns)[k].controller <=>
                       /\ ~conns[k].readOnly
                       /\ \A j \in (k + 1)..Len(conns) : conns[j].readOnly
<1> DEFINE elected == Registry!electController(conns)
<1>1. DOMAIN conns = 1..Len(conns) /\ Len(conns) \in Nat
  BY LenProperties
<1>2. \A k \in 1..Len(conns) : conns[k] \in Registry!Connection
  BY ElementOfSeq
<1>3. elected \in [1..Len(conns) -> Registry!Connection]
  BY <1>1, <1>2 DEF Registry!electController, Registry!Connection
<1>4. \A k \in 1..Len(conns) :
         /\ elected[k].id = conns[k].id
         /\ elected[k].readOnly = conns[k].readOnly
         /\ elected[k].controller =
               (~conns[k].readOnly /\ \A j \in (k + 1)..Len(conns) : conns[j].readOnly)
  BY <1>1, <1>2 DEF Registry!electController, Registry!Connection
<1>5. elected \in Seq(Registry!Connection) /\ Len(elected) = Len(conns)
  BY <1>1, <1>3, FunctionIsSeq
<1> QED BY <1>4, <1>5

UniqueIds(conns) ==
    \A j, k \in 1..Len(conns) : conns[j].id = conns[k].id => j = k

(* Type and flags together: every operation that changes the list of clients *)
(* ends with an election, and setRequestedLayout touches no flag.            *)
RegistryInv ==
    /\ m_connections \in Seq(Registry!Connection)
    /\ UniqueIds(m_connections)
    /\ Registry!NewestWritableControls

(* After an election the youngest writable client is the only one flagged,   *)
(* whatever the flags were before.                                           *)
LEMMA ElectionFlags ==
    ASSUME NEW conns \in Seq(Registry!Connection), UniqueIds(conns),
           m_connections' = Registry!electController(conns)
    PROVE  /\ RegistryInv'
           /\ DOMAIN m_connections' = 1..Len(conns)
           /\ \A k \in 1..Len(conns) :
                 /\ m_connections'[k].id = conns[k].id
                 /\ m_connections'[k].readOnly = conns[k].readOnly
<1>1. /\ m_connections' \in Seq(Registry!Connection)
      /\ DOMAIN m_connections' = 1..Len(conns)
      /\ Len(m_connections') = Len(conns) /\ Len(conns) \in Nat
  BY ElectionKeepsClients, LenProperties
<1>2. \A k \in 1..Len(conns) :
         /\ m_connections'[k].id = conns[k].id
         /\ m_connections'[k].readOnly = conns[k].readOnly
         /\ m_connections'[k].controller <=>
               /\ ~conns[k].readOnly
               /\ \A j \in (k + 1)..Len(conns) : conns[j].readOnly
  BY ElectionKeepsClients
<1>3. (Registry!NewestWritableControls)'
  <2> SUFFICES ASSUME NEW k \in 1..Len(conns)
               PROVE  m_connections'[k].controller <=>
                         /\ ~m_connections'[k].readOnly
                         /\ \A j \in (k + 1)..Len(conns) : m_connections'[j].readOnly
    BY <1>1 DEF Registry!NewestWritableControls
  <2>1. \A j \in (k + 1)..Len(conns) : j \in 1..Len(conns)
    BY <1>1
  <2> QED BY <1>2, <2>1
<1>4. UniqueIds(m_connections')
  BY <1>1, <1>2 DEF UniqueIds
<1> QED BY <1>1, <1>2, <1>3, <1>4 DEF RegistryInv

-----------------------------------------------------------------------------
(* The operations                                                            *)

(* A new client joins at the end of the list; nobody becomes another one.    *)
LEMMA AddStep ==
    ASSUME RegistryInv, NEW id \in ConnId, NEW readOnly \in BOOLEAN, Registry!add(id, readOnly)
    PROVE  /\ RegistryInv'
           /\ Len(m_connections') = Len(m_connections) + 1
           /\ \A k \in 1..Len(m_connections) :
                 /\ m_connections'[k].id = m_connections[k].id
                 /\ m_connections'[k].readOnly = m_connections[k].readOnly
                 /\ m_connections[k].id # id
           /\ m_connections'[Len(m_connections) + 1].id = id
           /\ m_connections'[Len(m_connections) + 1].readOnly = readOnly
<1> DEFINE others == [k \in DOMAIN m_connections |->
                         [m_connections[k] EXCEPT !.controller = FALSE]]
           new == [id |-> id, readOnly |-> readOnly, controller |-> ~readOnly,
                   requestedLayout |-> NoLayout]
           conns == Append(others, new)
           n == Len(m_connections)
<1>1. DOMAIN m_connections = 1..n /\ n \in Nat
  BY LenProperties DEF RegistryInv
<1>2. \A k \in 1..n : m_connections[k] \in Registry!Connection
  BY ElementOfSeq DEF RegistryInv
<1>3. others \in [1..n -> Registry!Connection]
  BY <1>1, <1>2 DEF Registry!Connection
<1>4. others \in Seq(Registry!Connection) /\ Len(others) = n
  BY <1>1, <1>3, FunctionIsSeq
<1>5. \A k \in 1..n : /\ others[k].id = m_connections[k].id
                      /\ others[k].readOnly = m_connections[k].readOnly
  BY <1>1, <1>2 DEF Registry!Connection
<1>6. new \in Registry!Connection /\ new.id = id /\ new.readOnly = readOnly
  BY DEF Registry!Connection
<1>7. m_connections' = Registry!electController(conns)
  BY DEF Registry!add
<1>8. \A k \in 1..n : m_connections[k].id # id
  BY <1>1 DEF Registry!add, Registry!ConnectionIds
<1> HIDE DEF others, new, n
<1>9. /\ conns \in Seq(Registry!Connection) /\ Len(conns) = n + 1 /\ conns[n + 1] = new
      /\ \A k \in 1..n : conns[k] = others[k]
  BY <1>1, <1>4, <1>6
<1> HIDE DEF conns
<1>10. UniqueIds(conns)
  <2> SUFFICES ASSUME NEW j \in 1..(n + 1), NEW k \in 1..(n + 1),
                      conns[j].id = conns[k].id
               PROVE  j = k
    BY <1>9 DEF UniqueIds
  <2>1. CASE j \in 1..n /\ k \in 1..n
    BY <2>1, <1>5, <1>9 DEF RegistryInv, UniqueIds, n
  <2>2. CASE j \notin 1..n /\ k \notin 1..n
    BY <2>2, <1>1
  <2>3. CASE j \in 1..n /\ k \notin 1..n
    <3>1. k = n + 1
      BY <2>3, <1>1
    <3> QED BY <3>1, <2>3, <1>5, <1>6, <1>8, <1>9
  <2>4. CASE j \notin 1..n /\ k \in 1..n
    <3>1. j = n + 1
      BY <2>4, <1>1
    <3> QED BY <3>1, <2>4, <1>5, <1>6, <1>8, <1>9
  <2> QED BY <2>1, <2>2, <2>3, <2>4
<1>11. /\ RegistryInv'
       /\ DOMAIN m_connections' = 1..(n + 1)
       /\ \A k \in 1..(n + 1) : /\ m_connections'[k].id = conns[k].id
                                /\ m_connections'[k].readOnly = conns[k].readOnly
  BY <1>7, <1>9, <1>10, ElectionFlags
<1>12. Len(m_connections') = n + 1
  BY <1>7, <1>9, ElectionKeepsClients
<1>13. \A k \in 1..n : k \in 1..(n + 1)
  BY <1>1
<1>14. n + 1 \in 1..(n + 1)
  BY <1>1
<1> QED BY <1>5, <1>6, <1>8, <1>9, <1>11, <1>12, <1>13, <1>14 DEF n

(* Where an entry of the list without its i-th comes from.                   *)
Skip(i, k) == IF k < i THEN k ELSE k + 1

(* A client that is not registered is not removed; the entry of one that is  *)
(* goes, and nobody becomes another one.                                     *)
LEMMA RemoveStep ==
    ASSUME RegistryInv, NEW id \in ConnId, Registry!remove(id)
    PROVE  /\ RegistryInv'
           /\ \/ m_connections' = m_connections /\ id \notin Registry!ConnectionIds
              \/ \E i \in 1..Len(m_connections) :
                    /\ m_connections[i].id = id
                    /\ Len(m_connections') = Len(m_connections) - 1
                    /\ \A k \in 1..(Len(m_connections) - 1) :
                          /\ m_connections'[k].id = m_connections[Skip(i, k)].id
                          /\ m_connections'[k].readOnly = m_connections[Skip(i, k)].readOnly
<1> DEFINE n == Len(m_connections)
<1>1. DOMAIN m_connections = 1..n /\ n \in Nat
  BY LenProperties DEF RegistryInv
<1>2. CASE id \notin Registry!ConnectionIds
  <2>1. m_connections' = m_connections
    BY <1>2 DEF Registry!remove
  <2> QED BY <1>2, <2>1 DEF RegistryInv, Registry!NewestWritableControls
<1>3. CASE id \in Registry!ConnectionIds
  <2> DEFINE i == CHOOSE k \in DOMAIN m_connections : m_connections[k].id = id
             rest == Registry!RemoveAt(m_connections, i)
             from(k) == Skip(i, k)
  <2>1. i \in 1..n /\ m_connections[i].id = id
    BY <1>1, <1>3 DEF Registry!ConnectionIds
  <2>2. m_connections' = Registry!electController(rest)
    BY <1>3 DEF Registry!remove
  <2> HIDE DEF i
  <2>3. \A k \in 1..n : m_connections[k] \in Registry!Connection
    BY ElementOfSeq DEF RegistryInv
  <2>4. /\ SubSeq(m_connections, 1, i - 1) \in Seq(Registry!Connection)
        /\ Len(SubSeq(m_connections, 1, i - 1)) = i - 1
        /\ \A k \in 1..(i - 1) : SubSeq(m_connections, 1, i - 1)[k] = m_connections[k]
    <3>1. \A k \in 1..(i - 1) : m_connections[k] \in Registry!Connection
      BY <1>1, <2>1, <2>3
    <3>2. 1 \in Int /\ i - 1 \in Int /\ i - 1 >= 0
      BY <1>1, <2>1
    <3> QED BY <3>1, <3>2, SubSeqProperties
  <2>5. /\ SubSeq(m_connections, i + 1, n) \in Seq(Registry!Connection)
        /\ Len(SubSeq(m_connections, i + 1, n)) = n - i
        /\ \A k \in 1..(n - i) :
              SubSeq(m_connections, i + 1, n)[k] = m_connections[i + k]
    <3>1. \A k \in (i + 1)..n : m_connections[k] \in Registry!Connection
      BY <1>1, <2>1, <2>3
    <3>2. i \in Int /\ i + 1 \in Int /\ n \in Int /\ i <= n
      BY <1>1, <2>1
    <3> HIDE DEF n
    <3> DEFINE after == SubSeq(m_connections, i + 1, n)
    <3>3. /\ after \in Seq(Registry!Connection)
          /\ Len(after) = IF i + 1 <= n THEN n - (i + 1) + 1 ELSE 0
          /\ \A k \in 1..(n - (i + 1) + 1) : after[k] = m_connections[(i + 1) + k - 1]
      BY <3>1, <3>2, SubSeqProperties
    <3>4. n - (i + 1) + 1 = n - i /\ (~(i + 1 <= n) => n - i = 0)
      BY <3>2
    <3>5. \A k \in 1..(n - i) : (i + 1) + k - 1 = i + k
      BY <3>2
    <3> HIDE DEF after
    <3> QED BY <3>3, <3>4, <3>5 DEF after
  <2>6. /\ rest \in Seq(Registry!Connection) /\ Len(rest) = n - 1
        /\ \A k \in 1..(n - 1) : rest[k] = m_connections[from(k)]
    <3>1. rest = SubSeq(m_connections, 1, i - 1) \o SubSeq(m_connections, i + 1, n)
      BY DEF Registry!RemoveAt
    <3> HIDE DEF n, rest
    <3>2. rest \in Seq(Registry!Connection) /\ Len(rest) = n - 1
      BY <3>1, <1>1, <2>1, <2>4, <2>5, ConcatProperties
    <3>3. ASSUME NEW k \in 1..(n - 1)
          PROVE  rest[k] = m_connections[from(k)]
      <4>1. CASE k < i
        BY <4>1, <3>1, <1>1, <2>1, <2>4, <2>5, ConcatProperties DEF Skip
      <4>2. CASE ~(k < i)
        <5>1. /\ k \in 1..((i - 1) + (n - i)) /\ k > i - 1
              /\ k - (i - 1) \in 1..(n - i) /\ i + (k - (i - 1)) = k + 1
          BY <4>2, <1>1, <2>1
        <5>2. rest[k] = SubSeq(m_connections, i + 1, n)[k - (i - 1)]
          BY <5>1, <3>1, <2>4, <2>5, ConcatProperties
        <5> QED BY <4>2, <5>1, <5>2, <2>5 DEF Skip
      <4> QED BY <4>1, <4>2
    <3> QED BY <3>2, <3>3
  <2> HIDE DEF rest
  <2>7. \A k \in 1..(n - 1) : from(k) \in 1..n /\ from(k) # i
    BY <1>1, <2>1 DEF Skip
  <2>8. UniqueIds(rest)
    <3> SUFFICES ASSUME NEW j \in 1..(n - 1), NEW k \in 1..(n - 1), rest[j].id = rest[k].id
                 PROVE  j = k
      BY <2>6 DEF UniqueIds
    <3>1. from(j) = from(k)
      BY <2>6, <2>7 DEF RegistryInv, UniqueIds
    <3> QED BY <3>1, <1>1, <2>1 DEF Skip
  <2>9. /\ RegistryInv'
        /\ DOMAIN m_connections' = 1..(n - 1)
        /\ \A k \in 1..(n - 1) : /\ m_connections'[k].id = rest[k].id
                                 /\ m_connections'[k].readOnly = rest[k].readOnly
    BY <2>2, <2>6, <2>8, ElectionFlags
  <2>10. Len(m_connections') = n - 1
    BY <2>2, <2>6, ElectionKeepsClients
  <2> QED BY <2>1, <2>6, <2>9, <2>10
<1> QED BY <1>2, <1>3

(* Who is flagged is the controller, for there is one flag at most.          *)
LEMMA FlaggedControls ==
    ASSUME NEW conns \in Seq(Registry!Connection), NEW k \in 1..Len(conns),
           \A i \in 1..Len(conns) :
               conns[i].controller <=>
                   /\ ~conns[i].readOnly
                   /\ \A j \in (i + 1)..Len(conns) : conns[j].readOnly,
           conns[k].controller
    PROVE  /\ \E i \in DOMAIN conns : conns[i].controller
           /\ k = CHOOSE i \in DOMAIN conns :
                     /\ conns[i].controller
                     /\ \A j \in 1..(i - 1) : ~conns[j].controller
<1>1. DOMAIN conns = 1..Len(conns) /\ Len(conns) \in Nat
  BY LenProperties
<1>2. ASSUME NEW i \in 1..Len(conns), NEW j \in 1..Len(conns), i < j
      PROVE  ~(conns[i].controller /\ conns[j].controller)
  <2>1. j \in (i + 1)..Len(conns)
    BY <1>1, <1>2
  <2> QED BY <2>1
<1>3. \A j \in 1..(k - 1) : j \in 1..Len(conns) /\ j < k
  BY <1>1
<1>4. ASSUME NEW i \in 1..Len(conns), conns[i].controller
      PROVE  i = k
  BY <1>1, <1>2, <1>4
<1> QED BY <1>1, <1>2, <1>3, <1>4

(* The controller is a client in the list that is not read-only.             *)
LEMMA ControllerIsWritable ==
    RegistryInv /\ Registry!controllerId # NoId =>
        \E k \in DOMAIN m_connections :
            m_connections[k].id = Registry!controllerId /\ ~m_connections[k].readOnly
<1> SUFFICES ASSUME RegistryInv, Registry!controllerId # NoId
             PROVE  \E k \in DOMAIN m_connections :
                        m_connections[k].id = Registry!controllerId /\ ~m_connections[k].readOnly
  OBVIOUS
<1>1. DOMAIN m_connections = 1..Len(m_connections)
  BY LenProperties DEF RegistryInv
<1>2. PICK k \in 1..Len(m_connections) : m_connections[k].controller
  BY <1>1 DEF Registry!controllerId
<1>3. \A i \in 1..Len(m_connections) :
         m_connections[i].controller <=>
             /\ ~m_connections[i].readOnly
             /\ \A j \in (i + 1)..Len(m_connections) : m_connections[j].readOnly
  BY <1>1 DEF RegistryInv, Registry!NewestWritableControls
<1>4. Registry!controllerId = m_connections[k].id
  BY <1>2, <1>3, FlaggedControls DEF RegistryInv, Registry!controllerId
<1> QED BY <1>1, <1>2, <1>3, <1>4

(* A client's request for a layout moves nobody and leaves control alone.    *)
LEMMA RequestStep ==
    ASSUME RegistryInv, NEW id \in ConnId, NEW layout \in Layout,
           Registry!setRequestedLayout(id, layout)
    PROVE  /\ RegistryInv'
           /\ (Registry!controllerId)' = Registry!controllerId
           /\ DOMAIN m_connections' = DOMAIN m_connections
           /\ \A k \in DOMAIN m_connections :
                 /\ m_connections'[k].id = m_connections[k].id
                 /\ m_connections'[k].readOnly = m_connections[k].readOnly
<1> DEFINE n == Len(m_connections)
<1>1. DOMAIN m_connections = 1..n /\ n \in Nat
  BY LenProperties DEF RegistryInv
<1>2. \A k \in 1..n : m_connections[k] \in Registry!Connection
  BY ElementOfSeq DEF RegistryInv
<1>3. m_connections' \in [1..n -> Registry!Connection]
  BY <1>1, <1>2 DEF Registry!setRequestedLayout, Registry!Connection
<1>4. m_connections' \in Seq(Registry!Connection) /\ Len(m_connections') = n
  BY <1>1, <1>3, FunctionIsSeq
<1>5. \A k \in 1..n :
         /\ m_connections'[k].id = m_connections[k].id
         /\ m_connections'[k].readOnly = m_connections[k].readOnly
         /\ m_connections'[k].controller = m_connections[k].controller
  BY <1>1, <1>2 DEF Registry!setRequestedLayout, Registry!Connection
<1>6. DOMAIN m_connections' = 1..n
  BY <1>3
<1>7. \A k \in 1..n :
         m_connections[k].controller <=>
             /\ ~m_connections[k].readOnly
             /\ \A j \in (k + 1)..n : m_connections[j].readOnly
  BY <1>1 DEF RegistryInv, Registry!NewestWritableControls
<1>8. \A k \in 1..n :
         m_connections'[k].controller <=>
             /\ ~m_connections'[k].readOnly
             /\ \A j \in (k + 1)..n : m_connections'[j].readOnly
  <2> SUFFICES ASSUME NEW k \in 1..n
               PROVE  m_connections'[k].controller <=>
                         /\ ~m_connections'[k].readOnly
                         /\ \A j \in (k + 1)..n : m_connections'[j].readOnly
    OBVIOUS
  <2>1. \A j \in (k + 1)..n : j \in 1..n
    BY <1>1
  <2> QED BY <1>5, <1>7, <2>1
<1>9. RegistryInv'
  <2>1. (Registry!NewestWritableControls)'
    BY <1>4, <1>6, <1>8 DEF Registry!NewestWritableControls
  <2>2. UniqueIds(m_connections')
    BY <1>4, <1>5 DEF RegistryInv, UniqueIds
  <2> QED BY <1>4, <2>1, <2>2 DEF RegistryInv
<1>10. (Registry!controllerId)' = Registry!controllerId
  <2>1. CASE \E k \in 1..n : m_connections[k].controller
    <3>1. PICK k \in 1..n : m_connections[k].controller
      BY <2>1
    <3>2. Registry!controllerId = m_connections[k].id
      BY <3>1, <1>7, FlaggedControls DEF RegistryInv, Registry!controllerId
    <3>3. m_connections'[k].controller
      BY <3>1, <1>5
    <3> HIDE DEF n
    <3>4. (Registry!controllerId)' = m_connections'[k].id
      BY <3>3, <1>4, <1>8, FlaggedControls DEF Registry!controllerId
    <3> QED BY <3>2, <3>4, <1>5
  <2>2. CASE \A k \in 1..n : ~m_connections[k].controller
    BY <2>2, <1>1, <1>5, <1>6 DEF Registry!controllerId
  <2> QED BY <2>1, <2>2
<1> QED BY <1>1, <1>5, <1>6, <1>9, <1>10

(* An empty registry.                                                        *)
LEMMA RegistryInit == Registry!Init => RegistryInv
<1> SUFFICES ASSUME Registry!Init PROVE RegistryInv
  OBVIOUS
<1>1. m_connections = << >> /\ DOMAIN m_connections = {}
  BY DEF Registry!Init
<1>2. m_connections \in Seq(Registry!Connection)
  BY <1>1
<1>3. Registry!NewestWritableControls
  BY <1>1 DEF Registry!NewestWritableControls
<1>4. Len(m_connections) = 0
  BY <1>1
<1>5. UniqueIds(m_connections)
  BY <1>4 DEF UniqueIds
<1> QED BY <1>2, <1>3, <1>5 DEF RegistryInv

(* Whatever joins and leaves, the registry flags the youngest writable       *)
(* client and nobody else.                                                   *)
THEOREM OneController == Registry!Spec => []Registry!NewestWritableControls
<1>1. RegistryInv /\ [Registry!Next]_m_connections => RegistryInv'
  <2> SUFFICES ASSUME RegistryInv, [Registry!Next]_m_connections PROVE RegistryInv'
    OBVIOUS
  <2>1. CASE UNCHANGED m_connections
    BY <2>1 DEF RegistryInv, Registry!NewestWritableControls
  <2> QED BY <2>1, AddStep, RemoveStep, RequestStep DEF Registry!Next
<1>2. RegistryInv => Registry!NewestWritableControls
  BY DEF RegistryInv
<1> QED BY <1>1, <1>2, RegistryInit, PTL DEF Registry!Spec

(* An entry of the registry: the client and whether it is read-only.         *)
IsClient(c, readOnly) ==
    \E k \in DOMAIN m_connections :
        m_connections[k].id = c /\ m_connections[k].readOnly = readOnly

-----------------------------------------------------------------------------
(* What the registry's operations do to its clients                          *)

(* What RegistryInv says of types and of who is a client.                    *)
LEMMA RegistryTypes ==
    ASSUME RegistryInv
    PROVE  /\ Registry!TypeOK
           /\ \A c, readOnly : IsClient(c, readOnly) =>
                 c \in ConnId /\ c \in Registered /\ readOnly \in BOOLEAN
           /\ \A c \in Registered : \E readOnly \in BOOLEAN : IsClient(c, readOnly)
<1>1. /\ m_connections \in Seq(Registry!Connection)
      /\ UniqueIds(m_connections)
  BY DEF RegistryInv
<1>2. DOMAIN m_connections = 1..Len(m_connections)
  BY <1>1, LenProperties
<1>3. \A k \in DOMAIN m_connections :
         m_connections[k].id \in ConnId /\ m_connections[k].readOnly \in BOOLEAN
  <2>1. \A k \in 1..Len(m_connections) : m_connections[k] \in Registry!Connection
    BY <1>1, ElementOfSeq
  <2> QED BY <1>2, <2>1 DEF Registry!Connection
<1>4. Registry!TypeOK
  BY <1>1, <1>2 DEF Registry!TypeOK, UniqueIds
<1> QED BY <1>3, <1>4 DEF IsClient, Registered, Registry!ConnectionIds

(* A step that leaves the registry alone.                                    *)
LEMMA RegistryRests ==
    ASSUME UNCHANGED m_connections
    PROVE  /\ RegistryInv => RegistryInv'
           /\ (Registry!controllerId)' = Registry!controllerId
           /\ \A c, readOnly : IsClient(c, readOnly)' <=> IsClient(c, readOnly)
BY DEF RegistryInv, Registry!NewestWritableControls, Registry!controllerId, IsClient

(* add() keeps RegistryInv.                                                  *)
LEMMA RegistryAdds ==
    ASSUME RegistryInv, NEW id \in ConnId, NEW readOnly \in BOOLEAN,
           Registry!add(id, readOnly)
    PROVE  /\ RegistryInv'
           /\ \A c, r : IsClient(c, r)' => IsClient(c, r) \/ (c = id /\ r = readOnly)
<1> DEFINE n == Len(m_connections)
<1>1. /\ RegistryInv' /\ Len(m_connections') = n + 1
      /\ \A k \in 1..n : /\ m_connections'[k].id = m_connections[k].id
                         /\ m_connections'[k].readOnly = m_connections[k].readOnly
      /\ m_connections'[n + 1].id = id /\ m_connections'[n + 1].readOnly = readOnly
  BY AddStep
<1>2. DOMAIN m_connections = 1..n /\ n \in Nat /\ DOMAIN m_connections' = 1..(n + 1)
  BY <1>1, LenProperties DEF RegistryInv
<1>3. \A k \in 1..(n + 1) : k \in 1..n \/ k = n + 1
  BY <1>2
<1> QED BY <1>1, <1>2, <1>3 DEF IsClient

(* remove() keeps RegistryInv.                                               *)
LEMMA RegistryRemoves ==
    ASSUME RegistryInv, NEW id \in ConnId, Registry!remove(id)
    PROVE  /\ RegistryInv'
           /\ \A c, r : IsClient(c, r)' => IsClient(c, r) /\ c # id
<1> DEFINE n == Len(m_connections)
<1>1. DOMAIN m_connections = 1..n /\ n \in Nat /\ UniqueIds(m_connections)
  BY LenProperties DEF RegistryInv
<1>2. CASE m_connections' = m_connections /\ id \notin Registry!ConnectionIds
  BY <1>2, RemoveStep DEF IsClient, Registry!ConnectionIds
<1>3. ASSUME NEW i \in 1..n, m_connections[i].id = id, Len(m_connections') = n - 1,
             RegistryInv',
             \A k \in 1..(n - 1) :
                 /\ m_connections'[k].id = m_connections[Skip(i, k)].id
                 /\ m_connections'[k].readOnly = m_connections[Skip(i, k)].readOnly
      PROVE  \A c, r : IsClient(c, r)' => IsClient(c, r) /\ c # id
  <2>1. DOMAIN m_connections' = 1..(n - 1)
    BY <1>3, LenProperties DEF RegistryInv
  <2>2. \A k \in 1..(n - 1) : Skip(i, k) \in 1..n /\ Skip(i, k) # i
    BY <1>1, <1>3 DEF Skip
  <2>3. \A k \in 1..(n - 1) : m_connections[Skip(i, k)].id # id
    BY <1>1, <1>3, <2>2 DEF UniqueIds
  <2> QED BY <1>1, <1>3, <2>1, <2>2, <2>3 DEF IsClient
<1> QED BY <1>2, <1>3, RemoveStep

(* setRequestedLayout() keeps RegistryInv.                                   *)
LEMMA RegistryNotes ==
    ASSUME RegistryInv, NEW id \in ConnId, NEW layout \in Layout,
           Registry!setRequestedLayout(id, layout)
    PROVE  /\ RegistryInv'
           /\ (Registry!controllerId)' = Registry!controllerId
           /\ \A c, r : IsClient(c, r)' <=> IsClient(c, r)
BY RequestStep DEF IsClient

(* Only a client can be the controller.                                      *)
LEMMA ControllerIsClient ==
    RegistryInv =>
        /\ Registry!controllerId \in ConnId \cup {NoId}
        /\ \A c \in ConnId : c = Registry!controllerId => IsClient(c, FALSE)
<1> SUFFICES ASSUME RegistryInv
             PROVE  /\ Registry!controllerId \in ConnId \cup {NoId}
                    /\ \A c \in ConnId : c = Registry!controllerId => IsClient(c, FALSE)
  OBVIOUS
<1>2. CASE Registry!controllerId # NoId
  <2>1. PICK k \in DOMAIN m_connections : m_connections[k].id = Registry!controllerId
                                          /\ ~m_connections[k].readOnly
    BY <1>2, ControllerIsWritable
  <2>2. IsClient(m_connections[k].id, m_connections[k].readOnly)
    BY DEF IsClient
  <2>3. m_connections[k].id \in ConnId /\ m_connections[k].readOnly \in BOOLEAN
    BY <2>2, RegistryTypes
  <2>4. m_connections[k].readOnly = FALSE
    BY <2>1, <2>3
  <2> QED BY <2>1, <2>2, <2>3, <2>4
<1>3. CASE Registry!controllerId = NoId
  BY <1>3, OwnershipAssumption
<1> QED BY <1>2, <1>3

-----------------------------------------------------------------------------
(* The inductive invariant                                                   *)

(* TypeOK without the registry.                                              *)
OwnTypeOK ==
    /\ connections \subseteq ConnId
    /\ rdpReadOnly \in [ConnId -> BOOLEAN]
    /\ peer \in [ConnId -> PeerState]
    /\ inputGate \in [ConnId -> BOOLEAN]
    /\ clipboardGate \in [ConnId -> BOOLEAN]
    /\ controllerId \in ConnId \cup {NoId}
    /\ listening \in BOOLEAN /\ clipboard \in BOOLEAN /\ followClient \in BOOLEAN
    /\ posted \in Seq(Event)
    /\ stack \in Seq(Transaction) /\ Len(stack) <= MaxDepth
    /\ answer \in [ConnId -> [Layout -> {"none", "asked", "accepted", "rejected"}]]
    /\ starts \in 0..MaxStarts

Arrived(peers, c) == peers[c] \notin {"none", "handshake"}
Ended(peers, c) == peers[c] \in {"closed", "gone"}
ClosesAt(queue, k, c) == queue[k].kind = "closed" /\ queue[k].id = c
WillClose(queue, c) == \E k \in 1..Len(queue) : ClosesAt(queue, k, c)

(* Closed is posted by a peer that has ended, and behind its authenticated.  *)
InOrder(queue, peers) ==
    \A k \in 1..Len(queue) :
        /\ queue[k].kind = "closed" => Ended(peers, queue[k].id)
        /\ queue[k].kind = "authenticated" =>
              /\ Arrived(peers, queue[k].id)
              /\ Ended(peers, queue[k].id) =>
                    \E j \in (k + 1)..Len(queue) : ClosesAt(queue, j, queue[k].id)

EventsFollow == InOrder(posted, peer)

(* A registered client has arrived; it is served until the server is stopped *)
(* or its Closed is dispatched.                                              *)
ClientsAreServed ==
    \A c \in ConnId, r \in BOOLEAN : IsClient(c, r) =>
        /\ Arrived(peer, c)
        /\ peer[c] = "authenticated" => c \in connections
        /\ Ended(peer, c) => WillClose(posted, c)

(* Backend and registry agree on who is read-only.                           *)
BackendAgrees ==
    \A c \in connections, r \in BOOLEAN : IsClient(c, r) => rdpReadOnly[c] = r

StoppedServesNobody == ~listening => connections = {}

GatesFollow ==
    \A c \in connections, r \in BOOLEAN :
        IsClient(c, r) /\ peer[c] = "authenticated" =>
            /\ inputGate[c] <=> c = Registry!controllerId
            /\ clipboardGate[c] <=> c = Registry!controllerId /\ clipboard

OwnershipInv ==
    /\ OwnTypeOK
    /\ RegistryInv
    /\ EventsFollow
    /\ ClientsAreServed
    /\ BackendAgrees
    /\ StoppedServesNobody
    /\ GatesFollow

-----------------------------------------------------------------------------
(* The queue of posted events                                                *)

(* What an event holds.                                                      *)
LEMMA EventFields ==
    ASSUME NEW event \in Event
    PROVE  /\ event.id \in ConnId
           /\ event.kind = "authenticated" => event.readOnly \in BOOLEAN
           /\ event.kind = "layout" => event.layout \in Layout
BY DEF Event

(* What is posted is about connections.                                      *)
LEMMA QueueIds ==
    ASSUME NEW queue \in Seq(Event)
    PROVE  /\ Len(queue) \in Nat
           /\ \A k \in 1..Len(queue) : queue[k] \in Event /\ queue[k].id \in ConnId
<1>1. Len(queue) \in Nat /\ \A k \in 1..Len(queue) : queue[k] \in Event
  BY ElementOfSeq, LenProperties
<1> QED BY <1>1, EventFields

(* Peers that neither come back nor end keep the order of their events.      *)
LEMMA OrderRests ==
    ASSUME NEW queue \in Seq(Event), NEW old, NEW new, InOrder(queue, old),
           \A c \in ConnId : /\ Arrived(old, c) => Arrived(new, c)
                             /\ Ended(old, c) <=> Ended(new, c)
    PROVE  InOrder(queue, new)
<1>1. \A k \in 1..Len(queue) : queue[k].id \in ConnId
  BY QueueIds
<1> HIDE DEF Arrived, Ended, ClosesAt
<1> QED BY <1>1 DEF InOrder

(* The oldest event is taken.                                                *)
LEMMA OrderTaken ==
    ASSUME NEW queue \in Seq(Event), queue # << >>, NEW peers, InOrder(queue, peers)
    PROVE  /\ Tail(queue) \in Seq(Event)
           /\ queue[1] \in Event /\ 1 \in 1..Len(queue)
           /\ InOrder(Tail(queue), peers)
           /\ \A c \in ConnId : WillClose(queue, c) /\ ~ClosesAt(queue, 1, c) =>
                 WillClose(Tail(queue), c)
           /\ queue[1].kind = "authenticated" =>
                 /\ Arrived(peers, queue[1].id)
                 /\ Ended(peers, queue[1].id) => WillClose(Tail(queue), queue[1].id)
<1> DEFINE n == Len(queue)
           rest == Tail(queue)
<1>1. /\ n \in Nat \ {0} /\ rest \in Seq(Event) /\ Len(rest) = n - 1
      /\ \A k \in 1..(n - 1) : rest[k] = queue[k + 1]
  BY EmptySeq, HeadTailProperties, LenProperties
<1>2. queue[1] \in Event /\ 1 \in 1..n
  BY <1>1, QueueIds
<1> HIDE DEF n, rest
<1>3. \A c : \A k \in 1..(n - 1) : ClosesAt(rest, k, c) <=> ClosesAt(queue, k + 1, c)
  BY <1>1 DEF ClosesAt
<1>4. ASSUME NEW c, NEW k \in 0..n, NEW j \in (k + 1)..n, j # 1, ClosesAt(queue, j, c)
      PROVE  /\ \E i \in 1..(n - 1) : ClosesAt(rest, i, c)
             /\ \E i \in k..(n - 1) : ClosesAt(rest, i, c)
  <2>1. j - 1 \in 1..(n - 1) /\ j - 1 \in k..(n - 1) /\ (j - 1) + 1 = j
    BY <1>1, <1>4
  <2> QED BY <2>1, <1>3, <1>4
<1>5. InOrder(rest, peers)
  <2> SUFFICES ASSUME NEW k \in 1..(n - 1)
               PROVE  /\ rest[k].kind = "closed" => Ended(peers, rest[k].id)
                      /\ rest[k].kind = "authenticated" =>
                            /\ Arrived(peers, rest[k].id)
                            /\ Ended(peers, rest[k].id) =>
                                  \E j \in (k + 1)..(n - 1) : ClosesAt(rest, j, rest[k].id)
    BY <1>1 DEF InOrder
  <2>1. rest[k] = queue[k + 1] /\ k + 1 \in 1..n /\ k + 1 \in 0..n
    BY <1>1
  <2>2. /\ queue[k + 1].kind = "closed" => Ended(peers, queue[k + 1].id)
        /\ queue[k + 1].kind = "authenticated" =>
              /\ Arrived(peers, queue[k + 1].id)
              /\ Ended(peers, queue[k + 1].id) =>
                    \E j \in ((k + 1) + 1)..n : ClosesAt(queue, j, queue[k + 1].id)
    BY <2>1 DEF InOrder, n
  <2>3. \A j \in ((k + 1) + 1)..n : j # 1
    BY <1>1
  <2> HIDE DEF Arrived, Ended, ClosesAt
  <2>4. (\E j \in ((k + 1) + 1)..n : ClosesAt(queue, j, queue[k + 1].id)) =>
           \E j \in (k + 1)..(n - 1) : ClosesAt(rest, j, queue[k + 1].id)
    BY <2>1, <2>3, <1>4
  <2> QED BY <2>1, <2>2, <2>4
<1>6. \A c \in ConnId : WillClose(queue, c) /\ ~ClosesAt(queue, 1, c) => WillClose(rest, c)
  <2> SUFFICES ASSUME NEW c \in ConnId, NEW k \in 1..n, ClosesAt(queue, k, c),
                      ~ClosesAt(queue, 1, c)
               PROVE  \E j \in 1..(n - 1) : ClosesAt(rest, j, c)
    BY <1>1 DEF WillClose, n
  <2>1. k # 1 /\ 0 \in 0..n /\ k \in (0 + 1)..n
    BY <1>1
  <2> HIDE DEF ClosesAt
  <2> QED BY <2>1, <1>4
<1>7. ASSUME queue[1].kind = "authenticated"
      PROVE  /\ Arrived(peers, queue[1].id)
             /\ Ended(peers, queue[1].id) => WillClose(rest, queue[1].id)
  <2>1. /\ Arrived(peers, queue[1].id)
        /\ Ended(peers, queue[1].id) =>
              \E j \in (1 + 1)..n : ClosesAt(queue, j, queue[1].id)
    BY <1>2, <1>7 DEF InOrder, n
  <2>2. 1 \in 0..n /\ \A j \in (1 + 1)..n : j # 1
    BY <1>1
  <2> HIDE DEF Arrived, Ended, ClosesAt
  <2>3. (\E j \in (1 + 1)..n : ClosesAt(queue, j, queue[1].id)) =>
           \E i \in 1..(n - 1) : ClosesAt(rest, i, queue[1].id)
    BY <2>2, <1>4
  <2> QED BY <2>1, <2>3, <1>1 DEF WillClose
<1> HIDE DEF ClosesAt, Arrived, Ended, WillClose, InOrder
<1> QED BY <1>1, <1>2, <1>5, <1>6, <1>7 DEF n, rest

(* A peer posts an event: it is authenticated, asks for a layout, or ends.   *)
LEMMA OrderPosted ==
    ASSUME NEW queue \in Seq(Event), NEW old, NEW new, NEW event \in Event,
           InOrder(queue, old), ~Ended(old, event.id), Arrived(new, event.id),
           Ended(new, event.id) <=> event.kind = "closed",
           \A d \in ConnId \ {event.id} : new[d] = old[d]
    PROVE  /\ Append(queue, event) \in Seq(Event)
           /\ InOrder(Append(queue, event), new)
           /\ \A d \in ConnId : WillClose(queue, d) => WillClose(Append(queue, event), d)
           /\ event.kind = "closed" => WillClose(Append(queue, event), event.id)
<1> DEFINE n == Len(queue)
           more == Append(queue, event)
           c == event.id
<1>1. /\ n \in Nat /\ more \in Seq(Event) /\ Len(more) = n + 1
      /\ more[n + 1] = event
      /\ \A k \in 1..n : more[k] = queue[k]
  BY AppendProperties, LenProperties
<1>2. \A k \in 1..n : queue[k].id \in ConnId
  BY QueueIds
<1>3. \A d : \A k \in 1..n : ClosesAt(more, k, d) <=> ClosesAt(queue, k, d)
  BY <1>1 DEF ClosesAt
<1>4. event.kind = "closed" => ClosesAt(more, n + 1, c)
  BY <1>1 DEF ClosesAt
<1>5. \A d \in ConnId : d # c => (Arrived(new, d) <=> Arrived(old, d))
                                 /\ (Ended(new, d) <=> Ended(old, d))
  BY DEF Arrived, Ended
<1>6. /\ ~Ended(old, c) /\ Arrived(new, c) /\ (Ended(new, c) <=> event.kind = "closed")
  OBVIOUS
<1>7. \A k \in 1..n :
         /\ queue[k].kind = "closed" => Ended(old, queue[k].id)
         /\ queue[k].kind = "authenticated" =>
               /\ Arrived(old, queue[k].id)
               /\ Ended(old, queue[k].id) =>
                     \E j \in (k + 1)..n : ClosesAt(queue, j, queue[k].id)
  BY DEF InOrder
<1> HIDE DEF n, more, c, Arrived, Ended, ClosesAt
<1>8. InOrder(more, new)
  <2> SUFFICES ASSUME NEW k \in 1..(n + 1)
               PROVE  /\ more[k].kind = "closed" => Ended(new, more[k].id)
                      /\ more[k].kind = "authenticated" =>
                            /\ Arrived(new, more[k].id)
                            /\ Ended(new, more[k].id) =>
                                  \E j \in (k + 1)..(n + 1) : ClosesAt(more, j, more[k].id)
    BY <1>1 DEF InOrder
  <2>1. CASE k = n + 1
    <3>1. more[k] = event /\ more[k].id = c
      BY <1>1, <2>1 DEF c
    <3>2. "closed" # "authenticated"
      OBVIOUS
    <3> QED BY <3>1, <3>2, <1>6
  <2>2. CASE k # n + 1
    <3>1. k \in 1..n /\ more[k] = queue[k] /\ queue[k].id \in ConnId
      BY <1>1, <1>2, <2>2
    <3>2. n + 1 \in (k + 1)..(n + 1)
      BY <1>1, <3>1
    <3>3. \A j \in (k + 1)..n : j \in 1..n /\ j \in (k + 1)..(n + 1)
      BY <1>1, <3>1
    <3>4. CASE queue[k].id = c
      <4>1. queue[k].kind # "closed"
        BY <3>1, <3>4, <1>6, <1>7
      <4> QED BY <3>1, <3>2, <3>4, <4>1, <1>4, <1>6
    <3>5. CASE queue[k].id # c
      BY <3>1, <3>3, <3>5, <1>3, <1>5, <1>7
    <3> QED BY <3>4, <3>5
  <2> QED BY <2>1, <2>2
<1>9. \A k \in 1..n : k \in 1..(n + 1)
  BY <1>1
<1>10. n + 1 \in 1..(n + 1)
  BY <1>1
<1>11. \A d : WillClose(queue, d) => WillClose(more, d)
  BY <1>1, <1>3, <1>9 DEF WillClose, n
<1>12. event.kind = "closed" => WillClose(more, c)
  BY <1>1, <1>4, <1>10 DEF WillClose
<1> HIDE DEF InOrder, WillClose
<1> QED BY <1>1, <1>8, <1>11, <1>12 DEF more, c

-----------------------------------------------------------------------------
(* The stack of suspended transactions                                       *)

(* The stack of transactions, when one begins or ends.                       *)
LEMMA StackSteps ==
    ASSUME stack \in Seq(Transaction), Len(stack) <= MaxDepth
    PROVE  /\ stack # << >> => /\ Top \in Transaction
                               /\ Front(stack) \in Seq(Transaction)
                               /\ Len(Front(stack)) <= MaxDepth
                               /\ LET reverting == [stack EXCEPT ![Len(stack)].pc = "revert"]
                                  IN  /\ reverting \in Seq(Transaction)
                                      /\ Len(reverting) <= MaxDepth
           /\ \A t \in Transaction : Len(stack) < MaxDepth =>
                 /\ Append(stack, t) \in Seq(Transaction)
                 /\ Len(Append(stack, t)) <= MaxDepth
<1> DEFINE n == Len(stack)
<1>1. n \in Nat /\ DOMAIN stack = 1..n /\ MaxDepth \in Nat
  BY LenProperties, OwnershipAssumption
<1>2. \A k \in 1..n : stack[k] \in Transaction
  BY ElementOfSeq
<1>3. ASSUME stack # << >>
      PROVE  /\ Top \in Transaction
             /\ Front(stack) \in Seq(Transaction) /\ Len(Front(stack)) <= MaxDepth
  <2>1. n # 0
    BY <1>3, EmptySeq
  <2>2. n \in 1..n /\ n - 1 \in Nat
    BY <2>1, <1>1
  <2>3. Top = stack[n]
    BY DEF Top, Last
  <2>4. \A k \in 1..(n - 1) : stack[k] \in Transaction
    BY <1>1, <1>2
  <2>5. /\ SubSeq(stack, 1, n - 1) \in Seq(Transaction)
        /\ Len(SubSeq(stack, 1, n - 1)) = n - 1
    <3> HIDE DEF n
    <3>1. 1 \in Int /\ n - 1 \in Int /\ (1 <= n - 1 => (n - 1) - 1 + 1 = n - 1)
          /\ (~(1 <= n - 1) => n - 1 = 0)
      BY <2>2
    <3> QED BY <3>1, <2>4, SubSeqProperties
  <2>6. Front(stack) = SubSeq(stack, 1, n - 1)
    BY DEF Front
  <2> QED BY <1>1, <1>2, <2>2, <2>3, <2>5, <2>6
<1>4. ASSUME stack # << >>
      PROVE  LET reverting == [stack EXCEPT ![Len(stack)].pc = "revert"]
             IN  reverting \in Seq(Transaction) /\ Len(reverting) <= MaxDepth
  <2> DEFINE reverting == [stack EXCEPT ![Len(stack)].pc = "revert"]
  <2>1. \A t \in Transaction : [t EXCEPT !.pc = "revert"] \in Transaction
    BY DEF Transaction
  <2>2. reverting = [k \in 1..n |-> IF k = n THEN [stack[k] EXCEPT !.pc = "revert"]
                                             ELSE stack[k]]
    BY <1>1
  <2>3. \A k \in 1..n : (IF k = n THEN [stack[k] EXCEPT !.pc = "revert"] ELSE stack[k])
                             \in Transaction
    BY <1>2, <2>1
  <2> HIDE DEF reverting
  <2>4. reverting \in [1..n -> Transaction]
    BY <2>2, <2>3
  <2>5. reverting \in Seq(Transaction) /\ Len(reverting) = n
    BY <1>1, <2>4, FunctionIsSeq
  <2> QED BY <2>5 DEF reverting
<1>5. ASSUME NEW t \in Transaction, Len(stack) < MaxDepth
      PROVE  Append(stack, t) \in Seq(Transaction) /\ Len(Append(stack, t)) <= MaxDepth
  BY <1>1, <1>5, AppendProperties
<1> QED BY <1>3, <1>4, <1>5

-----------------------------------------------------------------------------
(* Every step keeps the invariant                                            *)

(* The same of the next state.                                               *)
LEMMA ControllerIsClientNext ==
    (RegistryInv =>
        /\ Registry!controllerId \in ConnId \cup {NoId}
        /\ \A c \in ConnId : c = Registry!controllerId => IsClient(c, FALSE))'
BY ControllerIsClient, PTL

(* A handler that ends with setController leaves every gate as it should be. *)
LEMMA GatesSet ==
    ASSUME OwnTypeOK, RegistryInv', NEW ro, setController(ro),
           UNCHANGED <<peer, clipboard>>, connections' \subseteq connections,
           \A c \in connections', r \in BOOLEAN : IsClient(c, r)' => ro[c] = r
    PROVE  /\ GatesFollow'
           /\ controllerId' \in ConnId \cup {NoId}
           /\ inputGate' \in [ConnId -> BOOLEAN]
           /\ clipboardGate' \in [ConnId -> BOOLEAN]
<1> DEFINE elected == (Registry!controllerId)'
           reached(c) == c \in connections /\ Alive(c)
<1>1. /\ elected \in ConnId \cup {NoId}
      /\ \A c \in ConnId : c = elected => IsClient(c, FALSE)'
  BY ControllerIsClientNext
<1>2. /\ controllerId' = elected
      /\ inputGate' = [c \in ConnId |->
              IF reached(c) THEN c = elected /\ ~ro[c] ELSE inputGate[c]]
      /\ clipboardGate' = [c \in ConnId |->
              IF reached(c) THEN (c = elected /\ ~ro[c]) /\ clipboard ELSE clipboardGate[c]]
  BY DEF setController
<1> HIDE DEF elected
<1>3. /\ inputGate' \in [ConnId -> BOOLEAN]
      /\ clipboardGate' \in [ConnId -> BOOLEAN]
  BY <1>2 DEF OwnTypeOK
<1>4. ASSUME NEW c \in connections', NEW r \in BOOLEAN, IsClient(c, r)',
             peer'[c] = "authenticated"
      PROVE  /\ inputGate'[c] <=> c = elected
             /\ clipboardGate'[c] <=> c = elected /\ clipboard
  <2>1. c \in ConnId /\ reached(c)
    BY <1>4 DEF OwnTypeOK, Alive
  <2>2. c = elected => ~ro[c]
    BY <1>1, <1>4, <2>1
  <2>3. inputGate'[c] <=> c = elected /\ ~ro[c]
    BY <1>2, <2>1
  <2>4. clipboardGate'[c] <=> (c = elected /\ ~ro[c]) /\ clipboard
    BY <1>2, <2>1
  <2> QED BY <2>2, <2>3, <2>4
<1> QED BY <1>1, <1>2, <1>3, <1>4 DEF GatesFollow, elected

(* Steps that leave the registry's clients and its controller as they are,   *)
(* and every client the backend's record and its gates.                      *)
LEMMA ClientsRest ==
    ASSUME OwnershipInv, OwnTypeOK', RegistryInv', EventsFollow',
           (Registry!controllerId)' = Registry!controllerId,
           \A c, r : IsClient(c, r)' <=> IsClient(c, r),
           UNCHANGED <<rdpReadOnly, listening, clipboard>>,
           connections \subseteq connections',
           connections' = connections \/ listening,
           \A c \in ConnId : WillClose(posted, c) => WillClose(posted', c),
           \A c \in ConnId, r \in BOOLEAN : IsClient(c, r) =>
               /\ c \in connections' => c \in connections
               /\ Arrived(peer', c)
               /\ peer'[c] = "authenticated" =>
                     /\ peer[c] = "authenticated"
                     /\ inputGate'[c] = inputGate[c]
                     /\ clipboardGate'[c] = clipboardGate[c]
               /\ Ended(peer', c) => Ended(peer, c) \/ WillClose(posted', c)
    PROVE  OwnershipInv'
<1> HIDE DEF Arrived, Ended, WillClose, EventsFollow, IsClient, OwnTypeOK, RegistryInv
<1>1. ClientsAreServed'
  BY DEF OwnershipInv, ClientsAreServed
<1>2. connections' \subseteq ConnId
  BY DEF OwnTypeOK
<1>3. BackendAgrees'
  BY <1>2 DEF OwnershipInv, BackendAgrees
<1>4. StoppedServesNobody'
  BY DEF OwnershipInv, StoppedServesNobody
<1>5. GatesFollow'
  BY <1>2 DEF OwnershipInv, GatesFollow
<1> QED BY <1>1, <1>3, <1>4, <1>5 DEF OwnershipInv

(* A peer connects.                                                          *)
LEMMA AddConnectionStep ==
    ASSUME OwnershipInv, NEW c \in ConnId, NEW open \in BOOLEAN, addConnection(c, open)
    PROVE  OwnershipInv'
<1>1. OwnTypeOK'
  BY DEF OwnershipInv, OwnTypeOK, addConnection, PeerState
<1>2. /\ peer' = [peer EXCEPT ![c] = "handshake"] /\ peer[c] = "none"
      /\ peer \in [ConnId -> PeerState]
  BY DEF OwnershipInv, OwnTypeOK, addConnection
<1>3. \A d \in ConnId : /\ Arrived(peer, d) => Arrived(peer', d) /\ d # c
                        /\ Ended(peer, d) <=> Ended(peer', d)
                        /\ d # c => peer'[d] = peer[d]
  BY <1>2 DEF Arrived, Ended
<1>4. EventsFollow'
  BY <1>3, OrderRests DEF OwnershipInv, OwnTypeOK, EventsFollow, addConnection
<1>5. /\ RegistryInv'
      /\ (Registry!controllerId)' = Registry!controllerId
      /\ \A d, r : IsClient(d, r)' <=> IsClient(d, r)
  BY RegistryRests DEF OwnershipInv, addConnection, registryVars
<1>6. ASSUME NEW d \in ConnId, NEW r \in BOOLEAN, IsClient(d, r)
      PROVE  /\ d \in connections' => d \in connections
             /\ Arrived(peer', d)
             /\ peer'[d] = "authenticated" =>
                   /\ peer[d] = "authenticated"
                   /\ inputGate'[d] = inputGate[d]
                   /\ clipboardGate'[d] = clipboardGate[d]
             /\ Ended(peer', d) => Ended(peer, d) \/ WillClose(posted', d)
  <2>1. Arrived(peer, d)
    BY <1>6 DEF OwnershipInv, ClientsAreServed
  <2> HIDE DEF Arrived, Ended
  <2> QED BY <1>3, <2>1 DEF addConnection, OwnershipInv, OwnTypeOK
<1>7. /\ connections \subseteq connections' /\ (connections' = connections \/ listening)
      /\ UNCHANGED <<rdpReadOnly, listening, clipboard, posted>>
  BY DEF addConnection
<1>8. \A d \in ConnId : WillClose(posted, d) => WillClose(posted', d)
  BY <1>7
<1> HIDE DEF OwnershipInv, EventsFollow, OwnTypeOK, IsClient, Arrived, Ended, WillClose,
             RegistryInv
<1> QED BY <1>1, <1>4, <1>5, <1>6, <1>7, <1>8, ClientsRest

(* A peer posts an event and changes its own state only.                     *)
LEMMA PostStep ==
    ASSUME OwnershipInv, NEW event \in Event, Post(event), NEW state \in PeerState,
           peer' = [peer EXCEPT ![event.id] = state],
           state \notin {"none", "handshake"},
           state = "authenticated" => peer[event.id] = "authenticated"
                                      \/ peer[event.id] = "handshake",
           ~Ended(peer, event.id),
           state \in {"closed", "gone"} <=> event.kind = "closed",
           UNCHANGED <<registryVars, backendVars, followClient, stack, starts>>,
           answer' \in [ConnId -> [Layout -> {"none", "asked", "accepted", "rejected"}]]
    PROVE  OwnershipInv'
<1> DEFINE c == event.id
<1>1. /\ c \in ConnId /\ peer'[c] = state
      /\ \A d \in ConnId \ {c} : peer'[d] = peer[d]
      /\ peer' \in [ConnId -> PeerState]
  BY EventFields DEF OwnershipInv, OwnTypeOK
<1>2. Arrived(peer', c) /\ (Ended(peer', c) <=> event.kind = "closed")
  BY <1>1 DEF Arrived, Ended
<1>3. posted' = Append(posted, event) /\ posted \in Seq(Event)
  BY DEF Post, OwnershipInv, OwnTypeOK
<1>4. /\ posted' \in Seq(Event)
      /\ EventsFollow'
      /\ \A d \in ConnId : WillClose(posted, d) => WillClose(posted', d)
      /\ event.kind = "closed" => WillClose(posted', c)
  <2>1. InOrder(posted, peer)
    BY DEF OwnershipInv, EventsFollow
  <2> HIDE DEF InOrder, Arrived, Ended, WillClose, Event, Post
  <2> QED BY <1>1, <1>2, <1>3, <2>1, OrderPosted DEF EventsFollow
<1>5. OwnTypeOK'
  BY <1>1, <1>4 DEF OwnershipInv, OwnTypeOK, backendVars
<1>6. /\ RegistryInv'
      /\ (Registry!controllerId)' = Registry!controllerId
      /\ \A d, r : IsClient(d, r)' <=> IsClient(d, r)
  BY RegistryRests DEF OwnershipInv, registryVars
<1>7. UNCHANGED <<connections, rdpReadOnly, inputGate, clipboardGate, listening, clipboard>>
  BY DEF backendVars
<1>8. ASSUME NEW d \in ConnId, NEW r \in BOOLEAN, IsClient(d, r)
      PROVE  /\ Arrived(peer', d)
             /\ peer'[d] = "authenticated" => peer[d] = "authenticated"
             /\ Ended(peer', d) => Ended(peer, d) \/ WillClose(posted', d)
  <2>1. Arrived(peer, d)
    BY <1>8 DEF OwnershipInv, ClientsAreServed
  <2>2. CASE d = c
    <3>1. peer'[c] = "authenticated" => peer[c] = "authenticated"
      BY <2>1, <2>2, <1>1 DEF Arrived
    <3> HIDE DEF Arrived, Ended, WillClose, c
    <3> QED BY <3>1, <2>2, <1>2, <1>4
  <2>3. CASE d # c
    BY <2>1, <2>3, <1>1 DEF Arrived, Ended
  <2> QED BY <2>2, <2>3
<1> HIDE DEF OwnershipInv, EventsFollow, OwnTypeOK, IsClient, Arrived, Ended, WillClose,
             RegistryInv, c
<1> QED BY <1>4, <1>5, <1>6, <1>7, <1>8, ClientsRest

(* What a peer does by itself: it authenticates, asks, and its session ends. *)
LEMMA PeerSteps ==
    ASSUME OwnershipInv, NEW c \in ConnId
    PROVE  /\ \A readOnly \in BOOLEAN : PeerAuthenticates(c, readOnly) => OwnershipInv'
           /\ \A l \in Layout : PeerRequestsLayout(c, l) => OwnershipInv'
           /\ PeerCloses(c) => OwnershipInv'
           /\ PeerDropped(c) => OwnershipInv'
<1>1. /\ answer \in [ConnId -> [Layout -> {"none", "asked", "accepted", "rejected"}]]
      /\ peer \in [ConnId -> PeerState]
  BY DEF OwnershipInv, OwnTypeOK
<1>2. ASSUME NEW readOnly \in BOOLEAN, PeerAuthenticates(c, readOnly)
      PROVE  OwnershipInv'
  <2> DEFINE event == [kind |-> "authenticated", id |-> c, readOnly |-> readOnly]
  <2>1. event \in Event /\ event.id = c /\ event.kind # "closed"
    BY DEF Event
  <2>2. /\ "authenticated" \in PeerState /\ ~Ended(peer, c) /\ peer[c] = "handshake"
        /\ peer' = [peer EXCEPT ![c] = "authenticated"] /\ Post(event)
        /\ UNCHANGED <<registryVars, backendVars, followClient, stack, answer, starts>>
    BY <1>2 DEF PeerState, Ended, PeerAuthenticates
  <2> HIDE DEF event, Event, OwnershipInv, Post, Ended, backendVars, registryVars
  <2> QED BY <1>1, <2>1, <2>2, PostStep
<1>3. ASSUME NEW l \in Layout, PeerRequestsLayout(c, l)
      PROVE  OwnershipInv'
  <2> DEFINE event == [kind |-> "layout", id |-> c, layout |-> l]
  <2>1. event \in Event /\ event.id = c /\ event.kind # "closed"
    BY DEF Event
  <2>2. peer' = [peer EXCEPT ![c] = "authenticated"]
    BY <1>1, <1>3 DEF PeerRequestsLayout
  <2>3. answer' \in [ConnId -> [Layout -> {"none", "asked", "accepted", "rejected"}]]
    BY <1>1, <1>3 DEF PeerRequestsLayout
  <2>4. /\ "authenticated" \in PeerState /\ ~Ended(peer, c) /\ peer[c] = "authenticated"
        /\ Post(event)
        /\ UNCHANGED <<registryVars, backendVars, followClient, stack, starts>>
    BY <1>3 DEF PeerState, Ended, PeerRequestsLayout
  <2> HIDE DEF event, Event, OwnershipInv, Post, Ended, backendVars, registryVars
  <2> QED BY <2>1, <2>2, <2>3, <2>4, PostStep
<1>4. ASSUME NEW state \in {"closed", "gone"}, NEW was \in {"handshake", "authenticated",
             "dropped"}, peer[c] = was, peer' = [peer EXCEPT ![c] = state],
             Post([kind |-> "closed", id |-> c]),
             UNCHANGED <<registryVars, backendVars, followClient, stack, answer, starts>>
      PROVE  OwnershipInv'
  <2> DEFINE event == [kind |-> "closed", id |-> c]
  <2>1. event \in Event /\ event.id = c /\ event.kind = "closed"
    BY DEF Event
  <2>2. /\ state \in PeerState /\ ~Ended(peer, c)
        /\ state \notin {"none", "handshake", "authenticated"}
    BY <1>4 DEF PeerState, Ended
  <2> HIDE DEF event, Event, OwnershipInv, Post, Ended, backendVars, registryVars
  <2>3. Post(event)
    BY <1>4 DEF event
  <2> QED BY <1>1, <1>4, <2>1, <2>2, <2>3, PostStep
<1>5. PeerCloses(c) => OwnershipInv'
  BY <1>4 DEF PeerCloses
<1>6. PeerDropped(c) => OwnershipInv'
  BY <1>4 DEF PeerDropped
<1> QED BY <1>2, <1>3, <1>5, <1>6

(* A connection object is deleted.                                           *)
LEMMA PeerDeletedStep ==
    ASSUME OwnershipInv, NEW c \in ConnId, PeerDeleted(c)
    PROVE  OwnershipInv'
<1>1. OwnTypeOK'
  BY DEF OwnershipInv, OwnTypeOK, PeerDeleted, PeerState
<1>2. /\ peer' = [peer EXCEPT ![c] = "gone"] /\ peer[c] = "closed"
      /\ peer \in [ConnId -> PeerState]
  BY DEF OwnershipInv, OwnTypeOK, PeerDeleted
<1>3. \A d \in ConnId : /\ Arrived(peer, d) => Arrived(peer', d)
                        /\ Ended(peer, d) <=> Ended(peer', d)
                        /\ peer'[d] = "authenticated" => peer[d] = "authenticated" /\ d # c
  BY <1>2 DEF Arrived, Ended
<1>4. EventsFollow'
  BY <1>3, OrderRests DEF OwnershipInv, OwnTypeOK, EventsFollow, PeerDeleted
<1>5. /\ RegistryInv'
      /\ (Registry!controllerId)' = Registry!controllerId
      /\ \A d, r : IsClient(d, r)' <=> IsClient(d, r)
  BY RegistryRests DEF OwnershipInv, PeerDeleted, registryVars
<1>6. ASSUME NEW d \in ConnId, NEW r \in BOOLEAN, IsClient(d, r)
      PROVE  /\ Arrived(peer', d)
             /\ peer'[d] = "authenticated" =>
                   /\ peer[d] = "authenticated"
                   /\ inputGate'[d] = inputGate[d]
                   /\ clipboardGate'[d] = clipboardGate[d]
             /\ Ended(peer', d) => Ended(peer, d)
  <2>1. Arrived(peer, d)
    BY <1>6 DEF OwnershipInv, ClientsAreServed
  <2> HIDE DEF Arrived, Ended
  <2> QED BY <1>3, <2>1 DEF PeerDeleted, OwnershipInv, OwnTypeOK
<1>7. UNCHANGED <<connections, rdpReadOnly, listening, clipboard, posted>>
  BY DEF PeerDeleted
<1>8. \A d \in ConnId : WillClose(posted, d) => WillClose(posted', d)
  BY <1>7
<1> HIDE DEF OwnershipInv, EventsFollow, OwnTypeOK, IsClient, Arrived, Ended, WillClose,
             RegistryInv
<1> QED BY <1>1, <1>4, <1>5, <1>6, <1>7, <1>8, ClientsRest

(* The handlers take the oldest event; nothing happens to a peer.            *)
LEMMA TakeStep ==
    ASSUME OwnershipInv, posted # << >>, Take, UNCHANGED peer
    PROVE  /\ posted' \in Seq(Event) /\ Oldest \in Event
           /\ EventsFollow'
           /\ \A c \in ConnId :
                 WillClose(posted, c) /\ ~(Oldest.kind = "closed" /\ Oldest.id = c) =>
                     WillClose(posted', c)
           /\ Oldest.kind = "authenticated" =>
                 /\ Arrived(peer, Oldest.id)
                 /\ Ended(peer, Oldest.id) => WillClose(posted', Oldest.id)
<1>1. posted \in Seq(Event) /\ InOrder(posted, peer) /\ posted' = Tail(posted) /\ peer' = peer
  BY DEF OwnershipInv, OwnTypeOK, EventsFollow, Take
<1>2. \A c : ClosesAt(posted, 1, c) <=> Oldest.kind = "closed" /\ Oldest.id = c
  BY DEF ClosesAt, Oldest
<1> HIDE DEF InOrder, WillClose, ClosesAt, Arrived, Ended, Event
<1> QED BY <1>1, <1>2, OrderTaken DEF EventsFollow, Oldest

(* The slot of Authenticated.                                                *)
LEMMA HandleAuthenticatedStep ==
    ASSUME OwnershipInv, HandleAuthenticated
    PROVE  OwnershipInv'
<1> DEFINE id == Oldest.id
           ro == Oldest.readOnly
<1>1. /\ posted' \in Seq(Event) /\ Oldest \in Event
      /\ EventsFollow'
      /\ \A c \in ConnId : WillClose(posted, c) => WillClose(posted', c)
      /\ Arrived(peer, id) /\ (Ended(peer, id) => WillClose(posted', id))
  <2> HIDE DEF WillClose, Arrived, Ended, EventsFollow, OwnershipInv
  <2> QED BY TakeStep DEF HandleAuthenticated, IsNext
<1>2. id \in ConnId /\ ro \in BOOLEAN
  BY <1>1, EventFields DEF HandleAuthenticated, IsNext
<1>3. UNCHANGED <<connections, peer, listening, clipboard, followClient, stack, answer, starts>>
  BY DEF HandleAuthenticated
<1>4. CASE id \in connections
  <2>1. /\ rdpReadOnly' = [rdpReadOnly EXCEPT ![id] = ro]
        /\ Registry!add(id, ro)
        /\ setController(rdpReadOnly')
    BY <1>4 DEF HandleAuthenticated
  <2>2. /\ RegistryInv'
        /\ \A c, r : IsClient(c, r)' => IsClient(c, r) \/ (c = id /\ r = ro)
    BY <1>2, <2>1, RegistryAdds DEF OwnershipInv
  <2>3. \A r : ~IsClient(id, r)
    BY <2>1, RegistryTypes DEF Registry!add, Registered, OwnershipInv
  <2>4. rdpReadOnly' \in [ConnId -> BOOLEAN]
    BY <1>2, <2>1 DEF OwnershipInv, OwnTypeOK
  <2>5. \A c \in connections', r \in BOOLEAN : IsClient(c, r)' => rdpReadOnly'[c] = r
    <3> SUFFICES ASSUME NEW c \in connections, NEW r \in BOOLEAN, IsClient(c, r)'
                 PROVE  rdpReadOnly'[c] = r
      BY <1>3
    <3>1. c \in ConnId
      BY DEF OwnershipInv, OwnTypeOK
    <3>2. CASE c = id
      <4>1. r = ro
        BY <2>2, <2>3, <3>2
      <4> QED BY <1>2, <2>1, <3>2, <4>1 DEF OwnershipInv, OwnTypeOK
    <3>3. CASE c # id
      <4>1. IsClient(c, r)
        BY <2>2, <3>3
      <4>2. rdpReadOnly[c] = r
        BY <4>1 DEF OwnershipInv, BackendAgrees
      <4> QED BY <1>2, <2>1, <3>1, <3>3, <4>2 DEF OwnershipInv, OwnTypeOK
    <3> QED BY <3>2, <3>3
  <2>6. /\ GatesFollow'
        /\ controllerId' \in ConnId \cup {NoId}
        /\ inputGate' \in [ConnId -> BOOLEAN]
        /\ clipboardGate' \in [ConnId -> BOOLEAN]
    <3>1. OwnTypeOK /\ connections' \subseteq connections /\ UNCHANGED <<peer, clipboard>>
      BY <1>3 DEF OwnershipInv
    <3> HIDE DEF OwnTypeOK, RegistryInv, GatesFollow, IsClient, setController
    <3> QED BY <2>1, <2>2, <2>5, <3>1, GatesSet
  <2>7. OwnTypeOK'
    BY <1>1, <1>3, <2>4, <2>6 DEF OwnershipInv, OwnTypeOK
  <2>8. ClientsAreServed'
    <3> SUFFICES ASSUME NEW c \in ConnId, NEW r \in BOOLEAN, IsClient(c, r)'
                 PROVE  /\ Arrived(peer', c)
                        /\ peer'[c] = "authenticated" => c \in connections'
                        /\ Ended(peer', c) => WillClose(posted', c)
      BY DEF ClientsAreServed
    <3>1. peer' = peer /\ connections' = connections
      BY <1>3
    <3>2. CASE c = id
      BY <3>1, <3>2, <1>1, <1>4
    <3>3. CASE c # id
      <4>1. /\ Arrived(peer, c)
            /\ peer[c] = "authenticated" => c \in connections
            /\ Ended(peer, c) => WillClose(posted, c)
        BY <2>2, <3>3 DEF OwnershipInv, ClientsAreServed
      <4> HIDE DEF WillClose, Arrived, Ended
      <4> QED BY <3>1, <4>1, <1>1
    <3> QED BY <3>2, <3>3
  <2>9. BackendAgrees' /\ StoppedServesNobody'
    BY <1>3, <2>5 DEF BackendAgrees, StoppedServesNobody, OwnershipInv
  <2> HIDE DEF OwnTypeOK, RegistryInv, EventsFollow
  <2> QED BY <1>1, <2>2, <2>6, <2>7, <2>8, <2>9 DEF OwnershipInv
<1>5. CASE id \notin connections
  <2>1. UNCHANGED <<registryVars, rdpReadOnly, controllerId, inputGate, clipboardGate>>
    BY <1>5 DEF HandleAuthenticated
  <2>2. OwnTypeOK'
    BY <1>1, <1>3, <2>1 DEF OwnershipInv, OwnTypeOK
  <2>3. /\ RegistryInv'
        /\ (Registry!controllerId)' = Registry!controllerId
        /\ \A d, r : IsClient(d, r)' <=> IsClient(d, r)
    BY <2>1, RegistryRests DEF OwnershipInv, registryVars
  <2>4. \A c \in ConnId, r \in BOOLEAN : IsClient(c, r) => Arrived(peer, c)
    BY DEF OwnershipInv, ClientsAreServed
  <2> HIDE DEF OwnershipInv, EventsFollow, OwnTypeOK, IsClient, Arrived, Ended, WillClose,
               RegistryInv
  <2> QED BY <1>1, <1>3, <2>1, <2>2, <2>3, <2>4, ClientsRest
<1> QED BY <1>4, <1>5

(* The slot of Closed.                                                       *)
LEMMA HandleClosedStep ==
    ASSUME OwnershipInv, HandleClosed
    PROVE  OwnershipInv'
<1> DEFINE id == Oldest.id
<1>1. /\ posted' \in Seq(Event) /\ Oldest \in Event
      /\ EventsFollow'
      /\ \A c \in ConnId : c # id /\ WillClose(posted, c) => WillClose(posted', c)
  <2> HIDE DEF WillClose, Arrived, Ended, EventsFollow, OwnershipInv
  <2> QED BY TakeStep DEF HandleClosed, IsNext
<1>2. id \in ConnId
  BY <1>1, EventFields
<1>3. /\ UNCHANGED <<peer, listening, clipboard, followClient, stack, answer, starts>>
      /\ connections' = connections \ {id}
      /\ rdpReadOnly' = [rdpReadOnly EXCEPT ![id] = FALSE]
      /\ setController(rdpReadOnly) /\ Registry!remove(id)
  BY DEF HandleClosed
<1>4. /\ RegistryInv'
      /\ \A c, r : IsClient(c, r)' => IsClient(c, r) /\ c # id
  BY <1>2, <1>3, RegistryRemoves DEF OwnershipInv
<1>5. rdpReadOnly' \in [ConnId -> BOOLEAN]
  BY <1>2, <1>3 DEF OwnershipInv, OwnTypeOK
<1>6. \A c \in connections', r \in BOOLEAN : IsClient(c, r)' =>
         rdpReadOnly[c] = r /\ rdpReadOnly'[c] = r
  <2> SUFFICES ASSUME NEW c \in connections \ {id}, NEW r \in BOOLEAN, IsClient(c, r)'
               PROVE  rdpReadOnly[c] = r /\ rdpReadOnly'[c] = r
    BY <1>3
  <2>1. c \in ConnId
    BY DEF OwnershipInv, OwnTypeOK
  <2>2. rdpReadOnly[c] = r
    BY <1>4 DEF OwnershipInv, BackendAgrees
  <2> QED BY <1>3, <2>1, <2>2 DEF OwnershipInv, OwnTypeOK
<1>7. /\ GatesFollow'
      /\ controllerId' \in ConnId \cup {NoId}
      /\ inputGate' \in [ConnId -> BOOLEAN]
      /\ clipboardGate' \in [ConnId -> BOOLEAN]
  <2>1. OwnTypeOK /\ connections' \subseteq connections /\ UNCHANGED <<peer, clipboard>>
    BY <1>3 DEF OwnershipInv
  <2> HIDE DEF OwnTypeOK, RegistryInv, GatesFollow, IsClient, setController
  <2> QED BY <1>3, <1>4, <1>6, <2>1, GatesSet
<1>8. OwnTypeOK'
  BY <1>1, <1>3, <1>5, <1>7 DEF OwnershipInv, OwnTypeOK
<1>9. ClientsAreServed'
  <2> SUFFICES ASSUME NEW c \in ConnId, NEW r \in BOOLEAN, IsClient(c, r)'
               PROVE  /\ Arrived(peer', c)
                      /\ peer'[c] = "authenticated" => c \in connections'
                      /\ Ended(peer', c) => WillClose(posted', c)
    BY DEF ClientsAreServed
  <2>1. peer' = peer /\ connections' = connections \ {id} /\ c # id
    BY <1>3, <1>4
  <2>2. /\ Arrived(peer, c)
        /\ peer[c] = "authenticated" => c \in connections
        /\ Ended(peer, c) => WillClose(posted, c)
    BY <1>4 DEF OwnershipInv, ClientsAreServed
  <2> HIDE DEF WillClose, Arrived, Ended
  <2> QED BY <1>1, <2>1, <2>2
<1>10. BackendAgrees' /\ StoppedServesNobody'
  BY <1>3, <1>6 DEF BackendAgrees, StoppedServesNobody, OwnershipInv
<1> HIDE DEF OwnTypeOK, RegistryInv, EventsFollow
<1> QED BY <1>1, <1>4, <1>7, <1>8, <1>9, <1>10 DEF OwnershipInv

(* Steps about layouts: the queue may lose its oldest event, the stack and   *)
(* the answers change, and the registry at most notes a layout.              *)
LEMMA LayoutStep ==
    ASSUME OwnershipInv, UNCHANGED <<backendVars, peer, starts>>,
           followClient' \in BOOLEAN,
           \/ UNCHANGED posted
           \/ posted # << >> /\ Take /\ Oldest.kind = "layout",
           stack' \in Seq(Transaction), Len(stack') <= MaxDepth,
           answer' \in [ConnId -> [Layout -> {"none", "asked", "accepted", "rejected"}]],
           \/ UNCHANGED registryVars
           \/ \E id \in ConnId, layout \in Layout : Registry!setRequestedLayout(id, layout)
    PROVE  OwnershipInv'
<1>1. /\ RegistryInv'
      /\ (Registry!controllerId)' = Registry!controllerId
      /\ \A c, r : IsClient(c, r)' <=> IsClient(c, r)
  <2>1. CASE UNCHANGED registryVars
    BY <2>1, RegistryRests DEF OwnershipInv, registryVars
  <2>2. CASE \E id \in ConnId, layout \in Layout : Registry!setRequestedLayout(id, layout)
    <3>1. PICK id \in ConnId, layout \in Layout : Registry!setRequestedLayout(id, layout)
      BY <2>2
    <3> QED BY <3>1, RegistryNotes DEF OwnershipInv
  <2> QED BY <2>1, <2>2
<1>2. /\ posted' \in Seq(Event)
      /\ EventsFollow'
      /\ \A c \in ConnId : WillClose(posted, c) => WillClose(posted', c)
  <2>1. CASE UNCHANGED posted
    BY <2>1 DEF OwnershipInv, OwnTypeOK, EventsFollow
  <2>2. CASE posted # << >> /\ Take /\ Oldest.kind = "layout"
    <3>1. UNCHANGED peer /\ Oldest.kind # "closed"
      BY <2>2
    <3> HIDE DEF WillClose, EventsFollow, OwnershipInv, Arrived, Ended
    <3> QED BY <2>2, <3>1, TakeStep
  <2> QED BY <2>1, <2>2
<1>3. OwnTypeOK'
  BY <1>2 DEF OwnershipInv, OwnTypeOK, backendVars
<1>4. \A c \in ConnId, r \in BOOLEAN : IsClient(c, r) => Arrived(peer, c)
  BY DEF OwnershipInv, ClientsAreServed
<1>5. UNCHANGED <<connections, rdpReadOnly, inputGate, clipboardGate, listening, clipboard, peer>>
  BY DEF backendVars
<1> HIDE DEF OwnershipInv, EventsFollow, OwnTypeOK, IsClient, Arrived, Ended, WillClose,
             RegistryInv
<1> QED BY <1>1, <1>2, <1>3, <1>4, <1>5, ClientsRest

(* Requests, the transactions they begin, and their outcomes.                *)
LEMMA LayoutSteps ==
    ASSUME OwnershipInv
    PROVE  /\ RejectLayout => OwnershipInv'
           /\ BeginTransaction => OwnershipInv'
           /\ TransactionFails => OwnershipInv'
           /\ TransactionSucceeds => OwnershipInv'
           /\ TransactionReverts => OwnershipInv'
           /\ \A follow \in BOOLEAN : SetMode(follow) => OwnershipInv'
<1> DEFINE Answers == [ConnId -> [Layout -> {"none", "asked", "accepted", "rejected"}]]
<1>1. /\ stack \in Seq(Transaction) /\ Len(stack) <= MaxDepth
      /\ answer \in Answers /\ followClient \in BOOLEAN /\ posted \in Seq(Event)
  BY DEF OwnershipInv, OwnTypeOK
<1>2. \A c \in ConnId, l \in Layout, word \in {"accepted", "rejected"} :
         Answer(c, l, word) => answer' \in Answers
  BY <1>1 DEF Answer
<1>3. posted # << >> => Oldest \in Event
  <2>1. posted # << >> => 1 \in 1..Len(posted)
    BY <1>1, EmptySeq, LenProperties
  <2> QED BY <1>1, <2>1, QueueIds DEF Oldest
<1>4. \A t \in Transaction : t.id \in ConnId /\ t.layout \in Layout
  BY DEF Transaction
<1> HIDE DEF Answers, OwnershipInv, Event, Transaction
<1>5. ASSUME RejectLayout PROVE OwnershipInv'
  <2>1. /\ posted # << >> /\ Take /\ Oldest.kind = "layout"
        /\ Answer(Oldest.id, Oldest.layout, "rejected")
        /\ UNCHANGED <<registryVars, backendVars, peer, followClient, stack, starts>>
    BY <1>5 DEF RejectLayout, IsNext
  <2>2. Oldest.id \in ConnId /\ Oldest.layout \in Layout
    BY <2>1, <1>3, EventFields
  <2>3. answer' \in Answers
    BY <2>1, <2>2, <1>2
  <2> HIDE DEF backendVars, registryVars, Take, Oldest
  <2> QED BY <1>1, <2>1, <2>3, LayoutStep DEF Answers
<1>6. ASSUME BeginTransaction PROVE OwnershipInv'
  <2> DEFINE t == [id |-> Oldest.id, layout |-> Oldest.layout, pc |-> "apply"]
  <2>1. /\ posted # << >> /\ Take /\ Oldest.kind = "layout" /\ Len(stack) < MaxDepth
        /\ stack' = Append(stack, t)
        /\ UNCHANGED <<registryVars, backendVars, peer, followClient, answer, starts>>
    BY <1>6 DEF BeginTransaction, IsNext
  <2>2. Oldest.id \in ConnId /\ Oldest.layout \in Layout
    BY <2>1, <1>3, EventFields
  <2>3. t \in Transaction
    BY <2>2 DEF Transaction
  <2> HIDE DEF t, backendVars, registryVars, Take, Oldest
  <2>4. stack' \in Seq(Transaction) /\ Len(stack') <= MaxDepth
    BY <1>1, <2>1, <2>3, StackSteps
  <2> QED BY <1>1, <2>1, <2>4, LayoutStep DEF Answers
<1>7. stack # << >> =>
         /\ Top \in Transaction
         /\ Front(stack) \in Seq(Transaction) /\ Len(Front(stack)) <= MaxDepth
         /\ LET reverting == [stack EXCEPT ![Len(stack)].pc = "revert"]
            IN  reverting \in Seq(Transaction) /\ Len(reverting) <= MaxDepth
  BY <1>1, StackSteps
<1>8. ASSUME TransactionFails PROVE OwnershipInv'
  <2>1. /\ stack # << >> /\ stack' = Front(stack) /\ Answer(Top.id, Top.layout, "rejected")
        /\ UNCHANGED <<registryVars, backendVars, peer, followClient, posted, starts>>
    BY <1>8 DEF TransactionFails, Resume, Return
  <2>2. answer' \in Answers
    BY <2>1, <1>2, <1>4, <1>7
  <2> HIDE DEF backendVars, registryVars, Take, Oldest
  <2> QED BY <1>1, <1>7, <2>1, <2>2, LayoutStep DEF Answers
<1>9. ASSUME TransactionSucceeds PROVE OwnershipInv'
  <2>1. /\ stack # << >> /\ stack' = Front(stack) /\ Answer(Top.id, Top.layout, "accepted")
        /\ Registry!setRequestedLayout(Top.id, Top.layout)
        /\ UNCHANGED <<backendVars, peer, followClient, posted, starts>>
    BY <1>9 DEF TransactionSucceeds, Resume, Return
  <2>2. answer' \in Answers /\ Top.id \in ConnId /\ Top.layout \in Layout
    BY <2>1, <1>2, <1>4, <1>7
  <2> HIDE DEF backendVars, registryVars, Take, Oldest
  <2> QED BY <1>1, <1>7, <2>1, <2>2, LayoutStep DEF Answers
<1>10. ASSUME TransactionReverts PROVE OwnershipInv'
  <2>1. /\ stack # << >> /\ stack' = [stack EXCEPT ![Len(stack)].pc = "revert"]
        /\ UNCHANGED <<registryVars, backendVars, peer, followClient, posted, answer, starts>>
    BY <1>10 DEF TransactionReverts, Resume
  <2> HIDE DEF backendVars, registryVars, Take, Oldest
  <2> QED BY <1>1, <1>7, <2>1, LayoutStep DEF Answers
<1>11. ASSUME NEW follow \in BOOLEAN, SetMode(follow) PROVE OwnershipInv'
  <2>1. /\ followClient' \in BOOLEAN
        /\ UNCHANGED <<registryVars, backendVars, peer, posted, stack, answer, starts>>
    BY <1>11 DEF SetMode
  <2> HIDE DEF backendVars, registryVars, Take, Oldest
  <2> QED BY <1>1, <2>1, LayoutStep DEF Answers
<1> QED BY <1>5, <1>6, <1>8, <1>9, <1>10, <1>11

(* A started server serves nobody yet.                                       *)
LEMMA StartStep ==
    ASSUME OwnershipInv, NEW clip \in BOOLEAN, Start(clip)
    PROVE  OwnershipInv'
<1>1. /\ connections = {}
      /\ UNCHANGED <<registryVars, connections, rdpReadOnly, peer, posted>>
      /\ listening' = TRUE
  BY DEF Start, OwnershipInv, StoppedServesNobody
<1>2. OwnTypeOK'
  BY OwnershipAssumption DEF OwnershipInv, OwnTypeOK, Start
<1>3. /\ RegistryInv'
      /\ \A d, r : IsClient(d, r)' <=> IsClient(d, r)
  BY <1>1, RegistryRests DEF OwnershipInv, registryVars
<1>4. EventsFollow' /\ ClientsAreServed'
  <2>1. ClientsAreServed
    BY DEF OwnershipInv
  <2> HIDE DEF IsClient, Arrived, Ended
  <2> QED BY <1>1, <1>3, <2>1 DEF OwnershipInv, EventsFollow, ClientsAreServed, WillClose
<1>5. BackendAgrees' /\ StoppedServesNobody' /\ GatesFollow'
  BY <1>1 DEF BackendAgrees, StoppedServesNobody, GatesFollow
<1> QED BY <1>2, <1>3, <1>4, <1>5 DEF OwnershipInv

(* Stopping drops every peer and forgets every connection; the registry      *)
(* keeps its clients, none of which is authenticated any more.               *)
LEMMA StopStep ==
    ASSUME OwnershipInv, Stop
    PROVE  OwnershipInv'
<1>1. /\ connections' = {} /\ listening' = FALSE
      /\ UNCHANGED <<m_connections, posted>>
  BY DEF Stop, registryVars
<1>2. /\ peer \in [ConnId -> PeerState]
      /\ peer' = [c \in ConnId |->
                     CASE peer[c] \in {"handshake", "authenticated"} -> "dropped"
                       [] peer[c] = "closed" -> "gone"
                       [] OTHER -> peer[c]]
  BY DEF Stop, OwnershipInv, OwnTypeOK
<1>3. ASSUME NEW c \in ConnId
      PROVE  /\ peer'[c] \in PeerState /\ peer'[c] # "authenticated"
             /\ Arrived(peer, c) => Arrived(peer', c)
             /\ Ended(peer, c) <=> Ended(peer', c)
  <2>1. CASE peer[c] \in {"handshake", "authenticated"}
    BY <1>2, <2>1 DEF Arrived, Ended, PeerState
  <2>2. CASE peer[c] = "closed"
    BY <1>2, <2>2 DEF Arrived, Ended, PeerState
  <2>3. CASE peer[c] \notin {"handshake", "authenticated", "closed"}
    <3>1. peer'[c] = peer[c]
      BY <1>2, <2>3
    <3> QED BY <1>2, <2>3, <3>1 DEF Arrived, Ended
  <2> QED BY <2>1, <2>2, <2>3
<1>4. OwnTypeOK'
  <2>1. peer' \in [ConnId -> PeerState]
    BY <1>2, <1>3
  <2> QED BY <2>1 DEF OwnershipInv, OwnTypeOK, Stop
<1>5. /\ RegistryInv'
      /\ \A d, r : IsClient(d, r)' <=> IsClient(d, r)
  BY <1>1, RegistryRests DEF OwnershipInv
<1>6. EventsFollow'
  BY <1>1, <1>3, OrderRests DEF OwnershipInv, OwnTypeOK, EventsFollow
<1>7. ClientsAreServed'
  <2>1. ClientsAreServed
    BY DEF OwnershipInv
  <2> HIDE DEF IsClient, Arrived, Ended
  <2> QED BY <1>1, <1>3, <1>5, <2>1 DEF ClientsAreServed, WillClose
<1>8. BackendAgrees' /\ StoppedServesNobody' /\ GatesFollow'
  BY <1>1 DEF BackendAgrees, StoppedServesNobody, GatesFollow
<1> QED BY <1>4, <1>5, <1>6, <1>7, <1>8 DEF OwnershipInv

(* Initially nobody is connected.                                            *)
LEMMA OwnershipInit == Init => OwnershipInv
<1> SUFFICES ASSUME Init PROVE OwnershipInv
  OBVIOUS
<1>1. m_connections = << >> /\ posted = << >> /\ stack = << >> /\ connections = {}
  BY DEF Init, Registry!Init
<1>2. /\ Len(m_connections) = 0 /\ Len(posted) = 0 /\ Len(stack) = 0
      /\ DOMAIN m_connections = {}
  BY <1>1
<1>3. \A c, r : ~IsClient(c, r)
  BY <1>2 DEF IsClient
<1>4. RegistryInv
  BY RegistryInit DEF Init
<1>5. OwnTypeOK
  <2>1. posted \in Seq(Event) /\ stack \in Seq(Transaction)
    BY <1>1
  <2>2. Len(stack) <= MaxDepth /\ 0 \in 0..MaxStarts
    BY <1>2, OwnershipAssumption
  <2>3. answer \in [ConnId -> [Layout -> {"none", "asked", "accepted", "rejected"}]]
    BY DEF Init
  <2>4. peer \in [ConnId -> PeerState]
    BY DEF Init, PeerState
  <2> HIDE DEF Event, Transaction
  <2> QED BY <1>1, <2>1, <2>2, <2>3, <2>4 DEF Init, OwnTypeOK
<1>6. EventsFollow
  BY <1>2 DEF EventsFollow, InOrder
<1> QED BY <1>1, <1>3, <1>4, <1>5, <1>6
        DEF OwnershipInv, ClientsAreServed, BackendAgrees, StoppedServesNobody, GatesFollow

(* Every step keeps the invariant.                                           *)
LEMMA OwnershipNext == OwnershipInv /\ [Next]_vars => OwnershipInv'
<1> SUFFICES ASSUME OwnershipInv, [Next]_vars PROVE OwnershipInv'
  OBVIOUS
<1>1. CASE UNCHANGED vars
  <2>1. /\ UNCHANGED <<backendVars, peer, starts, followClient, posted, stack, answer>>
        /\ UNCHANGED registryVars
    BY <1>1 DEF vars, backendVars, registryVars
  <2>2. /\ followClient \in BOOLEAN /\ stack \in Seq(Transaction) /\ Len(stack) <= MaxDepth
        /\ answer \in [ConnId -> [Layout -> {"none", "asked", "accepted", "rejected"}]]
    BY DEF OwnershipInv, OwnTypeOK
  <2> HIDE DEF OwnershipInv, backendVars, registryVars, Transaction
  <2> QED BY <2>1, <2>2, LayoutStep
<1>2. CASE \E c \in ConnId, open \in BOOLEAN : addConnection(c, open)
  BY <1>2, AddConnectionStep
<1>3. CASE \/ \E c \in ConnId, readOnly \in BOOLEAN : PeerAuthenticates(c, readOnly)
           \/ \E c \in ConnId, l \in Layout : PeerRequestsLayout(c, l)
           \/ \E c \in ConnId : PeerCloses(c) \/ PeerDropped(c) \/ PeerDeleted(c)
  BY <1>3, PeerSteps, PeerDeletedStep
<1>4. CASE HandleAuthenticated \/ HandleClosed
  BY <1>4, HandleAuthenticatedStep, HandleClosedStep
<1>5. CASE \/ RejectLayout \/ BeginTransaction
           \/ TransactionFails \/ TransactionSucceeds \/ TransactionReverts
           \/ \E follow \in BOOLEAN : SetMode(follow)
  BY <1>5, LayoutSteps
<1>6. CASE (\E clip \in BOOLEAN : Start(clip)) \/ Stop
  BY <1>6, StartStep, StopStep
<1> QED BY <1>1, <1>2, <1>3, <1>4, <1>5, <1>6 DEF Next

(* The invariant always holds.                                               *)
LEMMA OwnershipAlways == Spec => []OwnershipInv
BY OwnershipInit, OwnershipNext, PTL DEF Spec

-----------------------------------------------------------------------------
(* The hand-over of control                                                  *)

(* At place k of the list is the writable client c.                          *)
At(k, c) ==
    /\ k \in 1..Len(m_connections)
    /\ m_connections[k].id = c
    /\ ~m_connections[k].readOnly

(* And it is the last one.                                                   *)
LastAt(k, c) == At(k, c) /\ \A j \in Nat, d \in ConnId : At(j, d) => j <= k

(* A non-empty set of places has a last one.                                 *)
LEMMA LastPlace ==
    ASSUME NEW n \in Nat, NEW T, T \subseteq 1..n, T # {}
    PROVE  \E k \in T : \A j \in T : j <= k
<1> DEFINE less == OpToRel(<, Nat)
           R == {n - k : k \in T}
<1>1. IsWellFoundedOn(less, Nat)
  BY NatLessThanWellFounded
<1>2. \A p, o \in Nat : p < o => <<p, o>> \in less
  BY DEF OpToRel
<1>3. R \subseteq Nat /\ R # {}
  <2>1. \A k \in T : n - k \in Nat
    OBVIOUS
  <2> QED BY <2>1
<1> HIDE DEF less
<1>4. PICK r \in R : \A s \in R : ~(<<s, r>> \in less)
  BY <1>1, <1>3, WFMin
<1>5. PICK k \in T : r = n - k
  BY <1>4
<1>6. ASSUME NEW j \in T
      PROVE  j <= k
  <2>1. n - j \in R /\ n - j \in Nat /\ r \in Nat /\ j \in Int /\ k \in Int
    BY <1>3, <1>4
  <2>2. ~(n - j < r)
    BY <1>2, <1>4, <2>1
  <2> QED BY <1>5, <2>1, <2>2
<1> QED BY <1>6

(* What the list says of its places: each client has one, and each place one *)
(* client.                                                                   *)
PlacesInv ==
    /\ \A k, c : At(k, c) => k \in Nat /\ c \in ConnId
    /\ \A j, k, c : At(j, c) /\ At(k, c) => j = k
    /\ \A k, c, d : At(k, c) /\ At(k, d) => c = d

(* Control is with the last writable client, and with nobody if there is     *)
(* none.                                                                     *)
LastControls ==
    /\ (\A k, c : ~At(k, c)) => Registry!controllerId = NoId
    /\ \A k, c : LastAt(k, c) => Registry!controllerId = c
    /\ (\E k, c : At(k, c)) => \E k, c : LastAt(k, c)

LEMMA RegistryPlaces == RegistryInv => PlacesInv
<1> SUFFICES ASSUME RegistryInv PROVE PlacesInv
  OBVIOUS
<1>1. /\ m_connections \in Seq(Registry!Connection) /\ UniqueIds(m_connections)
      /\ Len(m_connections) \in Nat
  BY LenProperties DEF RegistryInv
<1>2. \A k \in 1..Len(m_connections) : m_connections[k].id \in ConnId
  <2>1. \A k \in 1..Len(m_connections) : m_connections[k] \in Registry!Connection
    BY <1>1, ElementOfSeq
  <2> QED BY <2>1 DEF Registry!Connection
<1> QED BY <1>1, <1>2 DEF PlacesInv, At, UniqueIds

LEMMA RegistryLast == RegistryInv => LastControls
<1> SUFFICES ASSUME RegistryInv PROVE LastControls
  OBVIOUS
<1> DEFINE n == Len(m_connections)
<1>1. /\ m_connections \in Seq(Registry!Connection)
      /\ DOMAIN m_connections = 1..n /\ n \in Nat
  BY LenProperties DEF RegistryInv
<1>2. \A i \in 1..n :
         m_connections[i].controller <=>
             /\ ~m_connections[i].readOnly
             /\ \A j \in (i + 1)..n : m_connections[j].readOnly
  BY <1>1 DEF RegistryInv, Registry!NewestWritableControls
<1>3. \A k \in 1..n : m_connections[k].id \in ConnId
  <2>1. \A k \in 1..n : m_connections[k] \in Registry!Connection
    BY <1>1, ElementOfSeq
  <2> QED BY <2>1 DEF Registry!Connection
<1>4. ASSUME \A k, c : ~At(k, c)
      PROVE  Registry!controllerId = NoId
  <2>1. \A k \in 1..n : m_connections[k].readOnly
    BY <1>4 DEF At
  <2> QED BY <1>1, <1>2, <2>1 DEF Registry!controllerId
<1>5. ASSUME NEW k, NEW c, LastAt(k, c)
      PROVE  Registry!controllerId = c
  <2>1. k \in 1..n /\ m_connections[k].id = c /\ ~m_connections[k].readOnly
    BY <1>5 DEF LastAt, At
  <2>2. \A j \in (k + 1)..n : m_connections[j].readOnly
    <3> SUFFICES ASSUME NEW j \in (k + 1)..n, ~m_connections[j].readOnly PROVE FALSE
      OBVIOUS
    <3>1. j \in 1..n /\ j \in Nat /\ ~(j <= k)
      BY <1>1, <2>1
    <3>2. At(j, m_connections[j].id) /\ m_connections[j].id \in ConnId
      BY <1>3, <3>1 DEF At
    <3> QED BY <1>5, <3>1, <3>2 DEF LastAt
  <2>3. m_connections[k].controller
    BY <1>2, <2>1, <2>2
  <2> HIDE DEF n
  <2>4. Registry!controllerId = m_connections[k].id
    BY <1>1, <1>2, <2>1, <2>3, FlaggedControls DEF n, Registry!controllerId
  <2> QED BY <2>1, <2>4
<1>6. ASSUME NEW k0, NEW c0, At(k0, c0)
      PROVE  \E k, c : LastAt(k, c)
  <2> DEFINE T == {k \in 1..n : ~m_connections[k].readOnly}
  <2>1. T \subseteq 1..n /\ T # {}
    BY <1>6 DEF At
  <2>2. PICK k \in T : \A j \in T : j <= k
    BY <1>1, <2>1, LastPlace
  <2>3. LastAt(k, m_connections[k].id)
    BY <2>2 DEF LastAt, At
  <2> QED BY <2>3
<1> QED BY <1>4, <1>5, <1>6 DEF LastControls

(* A new client takes a new last place if it is writable.                    *)
LEMMA AddPlaces ==
    ASSUME RegistryInv, NEW id \in ConnId, NEW readOnly \in BOOLEAN,
           Registry!add(id, readOnly)
    PROVE  \E last \in Nat :
              /\ \A k, c : At(k, c)' <=> At(k, c) \/ (k = last /\ c = id /\ ~readOnly)
              /\ \A k, c : At(k, c) => k < last /\ c # id
<1> DEFINE n == Len(m_connections)
<1>1. /\ Len(m_connections') = n + 1
      /\ \A k \in 1..n : /\ m_connections'[k].id = m_connections[k].id
                         /\ m_connections'[k].readOnly = m_connections[k].readOnly
                         /\ m_connections[k].id # id
      /\ m_connections'[n + 1].id = id /\ m_connections'[n + 1].readOnly = readOnly
  BY AddStep
<1>2. n \in Nat
  BY LenProperties DEF RegistryInv
<1>3. /\ \A k : k \in 1..(n + 1) <=> k \in 1..n \/ k = n + 1
      /\ \A k : k \in 1..n => k < n + 1
      /\ n + 1 \in Nat
  BY <1>2
<1> QED BY <1>1, <1>3 DEF At

(* Whoever was behind a client that leaves moves up by one place.            *)
LEMMA RemovePlaces ==
    ASSUME RegistryInv, NEW id \in ConnId, Registry!remove(id),
           m_connections' # m_connections
    PROVE  \E i \in Nat :
              /\ \A k, c : At(k, c)' => k \in Nat /\ At(Skip(i, k), c) /\ Skip(i, k) # i
              /\ \A k, c : At(k, c) /\ k # i =>
                    /\ At(IF k < i THEN k ELSE k - 1, c)'
                    /\ Skip(i, IF k < i THEN k ELSE k - 1) = k
              /\ \A c : At(i, c) => c = id
              /\ \A k : At(k, id) => k = i
<1> DEFINE n == Len(m_connections)
<1>1. PICK i \in 1..n :
         /\ m_connections[i].id = id
         /\ Len(m_connections') = n - 1
         /\ \A k \in 1..(n - 1) :
               /\ m_connections'[k].id = m_connections[Skip(i, k)].id
               /\ m_connections'[k].readOnly = m_connections[Skip(i, k)].readOnly
  BY RemoveStep
<1>2. n \in Nat /\ UniqueIds(m_connections)
  BY LenProperties DEF RegistryInv
<1>3. \A k \in 1..(n - 1) : k \in Nat /\ Skip(i, k) \in 1..n /\ Skip(i, k) # i
  BY <1>1, <1>2 DEF Skip
<1>4. \A k, c : At(k, c)' => k \in Nat /\ At(Skip(i, k), c) /\ Skip(i, k) # i
  BY <1>1, <1>3 DEF At
<1>5. ASSUME NEW k, NEW c, At(k, c), k # i
      PROVE  /\ At(IF k < i THEN k ELSE k - 1, c)'
             /\ Skip(i, IF k < i THEN k ELSE k - 1) = k
  <2> DEFINE from == IF k < i THEN k ELSE k - 1
  <2>1. k \in 1..n /\ m_connections[k].id = c /\ ~m_connections[k].readOnly
    BY <1>5 DEF At
  <2>2. from \in 1..(n - 1) /\ Skip(i, from) = k
    BY <1>1, <1>2, <1>5, <2>1 DEF Skip
  <2> HIDE DEF from
  <2>3. At(from, c)'
    BY <1>1, <2>1, <2>2 DEF At
  <2> QED BY <2>2, <2>3 DEF from
<1>6. (\A c : At(i, c) => c = id) /\ \A k : At(k, id) => k = i
  BY <1>1, <1>2 DEF At, UniqueIds
<1>7. i \in Nat
  BY <1>1, <1>2
<1> QED BY <1>4, <1>5, <1>6, <1>7

(* What ControlHandover sees of the registry, said of the places.            *)
SeenAs ==
    /\ \A c : c \in Registry!Writable <=> \E k : At(k, c)
    /\ \A a, b : <<a, b>> \in Registry!ListedBefore <=>
                    \E j, k : j < k /\ At(j, a) /\ At(k, b)
    /\ Registry!ListedBefore \subseteq Registry!Writable \X Registry!Writable

LEMMA RegistrySeen == RegistryInv => SeenAs
<1> SUFFICES ASSUME RegistryInv PROVE SeenAs
  OBVIOUS
<1>1. DOMAIN m_connections = 1..Len(m_connections) /\ PlacesInv
  BY RegistryPlaces, LenProperties DEF RegistryInv
<1>2. \A c : c \in Registry!Writable <=> \E k : At(k, c)
  BY <1>1 DEF Registry!Writable, At, PlacesInv
<1>3. Registry!ListedBefore \subseteq Registry!Writable \X Registry!Writable
  BY DEF Registry!ListedBefore
<1>4. ASSUME NEW a, NEW b, <<a, b>> \in Registry!ListedBefore
      PROVE  \E j, k : j < k /\ At(j, a) /\ At(k, b)
  <2>1. PICK j, k \in 1..Len(m_connections) :
           j < k /\ m_connections[j].id = a /\ m_connections[k].id = b
    BY <1>1, <1>4 DEF Registry!ListedBefore
  <2>2. PICK j1, k1 : At(j1, a) /\ At(k1, b)
    BY <1>2, <1>3, <1>4
  <2>3. j1 = j /\ k1 = k
    BY <2>1, <2>2 DEF At, RegistryInv, UniqueIds
  <2> QED BY <2>1, <2>2, <2>3
<1>5. ASSUME NEW a, NEW b, NEW j, NEW k, j < k, At(j, a), At(k, b)
      PROVE  <<a, b>> \in Registry!ListedBefore
  <2>1. /\ j \in DOMAIN m_connections /\ k \in DOMAIN m_connections
        /\ m_connections[j].id = a /\ m_connections[k].id = b
    BY <1>1, <1>5 DEF At
  <2>2. <<a, b>> \in Registry!Writable \X Registry!Writable
    BY <1>2, <1>5
  <2>3. <<a, b>>[1] = a /\ <<a, b>>[2] = b
    OBVIOUS
  <2> HIDE DEF Registry!Writable
  <2> QED BY <1>5, <2>1, <2>2, <2>3 DEF Registry!ListedBefore
<1> QED BY <1>2, <1>3, <1>4, <1>5 DEF SeenAs

(* The same of the next state.                                               *)
LEMMA NextPlaces == RegistryInv' => PlacesInv' /\ LastControls' /\ SeenAs'
BY RegistryPlaces, RegistryLast, RegistrySeen, PTL

handoverVars == <<Registry!Writable, Registry!ListedBefore, Registry!controllerId>>

(* Two relations are equal when they agree on every pair.                    *)
LEMMA SamePairs ==
    \A R, Q, S, T : (/\ R \subseteq S \X S /\ Q \subseteq T \X T
                     /\ \A a, b : <<a, b>> \in R <=> <<a, b>> \in Q) => R = Q
OBVIOUS

(* A change that keeps every writable client's place, up to moving them all  *)
(* in order, is no change of control.                                        *)
LEMMA SamePlaces ==
    ASSUME RegistryInv, RegistryInv', \A k, c : At(k, c)' <=> At(k, c)
    PROVE  UNCHANGED handoverVars
<1>1. /\ PlacesInv /\ LastControls /\ SeenAs
      /\ PlacesInv' /\ LastControls' /\ SeenAs'
  BY RegistryPlaces, RegistryLast, RegistrySeen, NextPlaces
<1>2. (Registry!Writable)' = Registry!Writable
  BY <1>1 DEF SeenAs
<1>3. (Registry!ListedBefore)' = Registry!ListedBefore
  <2>1. \A a, b : <<a, b>> \in (Registry!ListedBefore)' <=> <<a, b>> \in Registry!ListedBefore
    BY <1>1 DEF SeenAs
  <2>2. /\ Registry!ListedBefore \subseteq Registry!Writable \X Registry!Writable
        /\ (Registry!ListedBefore)' \subseteq (Registry!Writable)' \X (Registry!Writable)'
    BY <1>1 DEF SeenAs
  <2> QED BY <2>1, <2>2, SamePairs
<1>4. (Registry!controllerId)' = Registry!controllerId
  <2>1. CASE \A k, c : ~At(k, c)
    BY <1>1, <2>1 DEF LastControls
  <2>2. CASE \E k, c : At(k, c)
    <3>1. PICK k, c : LastAt(k, c)
      BY <1>1, <2>2 DEF LastControls
    <3>2. LastAt(k, c)'
      BY <3>1 DEF LastAt
    <3> QED BY <1>1, <3>1, <3>2 DEF LastControls
  <2> QED BY <2>1, <2>2
<1> QED BY <1>2, <1>3, <1>4 DEF handoverVars

(* A writable client that joins takes control; a viewer changes nothing.     *)
LEMMA AddHandsOver ==
    ASSUME RegistryInv, NEW id \in ConnId, NEW readOnly \in BOOLEAN,
           Registry!add(id, readOnly)
    PROVE  Handover!Next \/ UNCHANGED handoverVars
<1>1. RegistryInv'
  BY AddStep
<1>2. /\ PlacesInv /\ LastControls /\ SeenAs
      /\ PlacesInv' /\ LastControls' /\ SeenAs'
  BY <1>1, RegistryPlaces, RegistryLast, RegistrySeen, NextPlaces
<1>3. PICK last \in Nat :
         /\ \A k, c : At(k, c)' <=> At(k, c) \/ (k = last /\ c = id /\ ~readOnly)
         /\ \A k, c : At(k, c) => k < last /\ c # id
  BY AddPlaces
<1>4. CASE readOnly
  BY <1>1, <1>3, <1>4, SamePlaces
<1>5. CASE ~readOnly
  <2>1. id \notin Registry!Writable
    BY <1>2, <1>3 DEF SeenAs
  <2>2. (Registry!Writable)' = Registry!Writable \cup {id}
    BY <1>2, <1>3, <1>5 DEF SeenAs
  <2>3. (Registry!ListedBefore)' = Registry!ListedBefore \cup (Registry!Writable \X {id})
    <3> DEFINE old == Registry!ListedBefore
               listed == (Registry!ListedBefore)'
               clients == Registry!Writable
               grown == old \cup (clients \X {id})
    <3>1. ASSUME NEW a, NEW b, <<a, b>> \in listed
          PROVE  <<a, b>> \in grown
      <4>1. PICK j, k : j < k /\ At(j, a)' /\ At(k, b)'
        BY <1>2, <3>1 DEF SeenAs
      <4>2. j \in Nat /\ k \in Nat
        BY <1>2, <4>1 DEF PlacesInv
      <4>3. At(j, a)
        BY <1>3, <4>1, <4>2
      <4>4. CASE At(k, b)
        BY <1>2, <4>1, <4>3, <4>4 DEF SeenAs
      <4>5. CASE b = id
        BY <1>2, <4>3, <4>5 DEF SeenAs
      <4> QED BY <1>3, <4>1, <4>4, <4>5
    <3>2. ASSUME NEW a, NEW b, <<a, b>> \in old
          PROVE  <<a, b>> \in listed
      <4>1. PICK j, k : j < k /\ At(j, a) /\ At(k, b)
        BY <1>2, <3>2 DEF SeenAs
      <4> QED BY <1>2, <1>3, <4>1 DEF SeenAs
    <3>3. ASSUME NEW a \in clients
          PROVE  <<a, id>> \in listed
      <4>1. PICK j : At(j, a)
        BY <1>2, <3>3 DEF SeenAs
      <4> QED BY <1>2, <1>3, <1>5, <4>1 DEF SeenAs
    <3>4. /\ listed \subseteq (Registry!Writable)' \X (Registry!Writable)'
          /\ old \subseteq clients \X clients
      BY <1>2 DEF SeenAs
    <3> HIDE DEF old, listed, clients
    <3>5. grown \subseteq (clients \cup {id}) \X (clients \cup {id})
      BY <3>4
    <3>6. \A a, b : <<a, b>> \in listed <=> <<a, b>> \in grown
      BY <3>1, <3>2, <3>3
    <3> HIDE DEF grown
    <3>7. listed = grown
      BY <3>4, <3>5, <3>6, SamePairs
    <3> QED BY <3>7 DEF grown, old, listed, clients
  <2>4. (Registry!controllerId)' = id
    <3>1. LastAt(last, id)'
      BY <1>3, <1>5 DEF LastAt
    <3> QED BY <1>2, <3>1 DEF LastControls
  <2>5. Handover!Join(id)
    BY <2>1, <2>2, <2>3, <2>4 DEF Handover!Join
  <2> QED BY <2>5 DEF Handover!Next
<1> QED BY <1>4, <1>5

(* Only a writable client that leaves may move control, and only its own.    *)
LEMMA RemoveHandsOver ==
    ASSUME RegistryInv, NEW id \in ConnId, Registry!remove(id)
    PROVE  Handover!Next \/ UNCHANGED handoverVars
<1>1. RegistryInv'
  BY RemoveStep
<1>2. /\ PlacesInv /\ LastControls /\ SeenAs
      /\ PlacesInv' /\ LastControls' /\ SeenAs'
  BY <1>1, RegistryPlaces, RegistryLast, RegistrySeen, NextPlaces
<1>3. CASE m_connections' = m_connections
  BY <1>1, <1>3, SamePlaces DEF At
<1>4. CASE m_connections' # m_connections
  <2>1. PICK i \in Nat :
           /\ \A k, c : At(k, c)' => k \in Nat /\ At(Skip(i, k), c) /\ Skip(i, k) # i
           /\ \A k, c : At(k, c) /\ k # i =>
                 /\ At(IF k < i THEN k ELSE k - 1, c)'
                 /\ Skip(i, IF k < i THEN k ELSE k - 1) = k
           /\ \A c : At(i, c) => c = id
           /\ \A k : At(k, id) => k = i
    BY <1>4, RemovePlaces
  <2> DEFINE to(k) == IF k < i THEN k ELSE k - 1
  <2>2. \A k, c : At(k, c) /\ k # i => At(to(k), c)'
    BY <2>1
  <2>3. \A j, k \in Nat : /\ j < k /\ j # i /\ k # i => to(j) < to(k)
                          /\ j <= k /\ j # i /\ k # i => to(j) <= to(k)
                          /\ j < k <=> Skip(i, j) < Skip(i, k)
                          /\ k # i => to(Skip(i, k)) = k /\ to(k) \in Int
    BY DEF Skip
  <2> HIDE DEF to
  <2>4. (Registry!Writable)' = Registry!Writable \ {id}
    <3>1. ASSUME NEW c, c \in (Registry!Writable)' PROVE c \in Registry!Writable /\ c # id
      <4>1. PICK k : At(k, c)'
        BY <1>2, <3>1 DEF SeenAs
      <4>2. At(Skip(i, k), c) /\ Skip(i, k) # i
        BY <2>1, <4>1
      <4> QED BY <1>2, <2>1, <4>2 DEF SeenAs
    <3>2. ASSUME NEW c, c \in Registry!Writable, c # id PROVE c \in (Registry!Writable)'
      <4>1. PICK k : At(k, c)
        BY <1>2, <3>2 DEF SeenAs
      <4>2. k # i
        BY <2>1, <3>2, <4>1
      <4> QED BY <1>2, <2>2, <4>1, <4>2 DEF SeenAs
    <3> QED BY <3>1, <3>2
  <2>5. \A a, b : <<a, b>> \in (Registry!ListedBefore)' <=>
                     <<a, b>> \in Registry!ListedBefore /\ a # id /\ b # id
    <3>1. ASSUME NEW a, NEW b, <<a, b>> \in (Registry!ListedBefore)'
          PROVE  <<a, b>> \in Registry!ListedBefore /\ a # id /\ b # id
      <4>1. PICK j, k : j < k /\ At(j, a)' /\ At(k, b)'
        BY <1>2, <3>1 DEF SeenAs
      <4>2. /\ j \in Nat /\ k \in Nat
            /\ At(Skip(i, j), a) /\ Skip(i, j) # i /\ At(Skip(i, k), b) /\ Skip(i, k) # i
        BY <2>1, <4>1
      <4>3. Skip(i, j) < Skip(i, k) /\ a # id /\ b # id
        BY <2>1, <2>3, <4>1, <4>2
      <4> QED BY <1>2, <4>2, <4>3 DEF SeenAs
    <3>2. ASSUME NEW a, NEW b, <<a, b>> \in Registry!ListedBefore, a # id, b # id
          PROVE  <<a, b>> \in (Registry!ListedBefore)'
      <4>1. PICK j, k : j < k /\ At(j, a) /\ At(k, b)
        BY <1>2, <3>2 DEF SeenAs
      <4>2. j # i /\ k # i /\ j \in Nat /\ k \in Nat
        BY <1>2, <2>1, <3>2, <4>1 DEF PlacesInv
      <4>3. At(to(j), a)' /\ At(to(k), b)' /\ to(j) < to(k)
        BY <2>2, <2>3, <4>1, <4>2
      <4> QED BY <1>2, <4>3 DEF SeenAs
    <3> QED BY <3>1, <3>2
  <2>6. (Registry!ListedBefore)' =
           Registry!ListedBefore \cap ((Registry!Writable)' \X (Registry!Writable)')
    <3> DEFINE old == Registry!ListedBefore
               listed == (Registry!ListedBefore)'
               clients == (Registry!Writable)'
               kept == old \cap (clients \X clients)
    <3>1. /\ listed \subseteq clients \X clients
          /\ old \subseteq Registry!Writable \X Registry!Writable
      BY <1>2 DEF SeenAs
    <3>2. clients = Registry!Writable \ {id}
      BY <2>4
    <3>3. \A a, b : <<a, b>> \in listed <=> <<a, b>> \in old /\ a # id /\ b # id
      BY <2>5
    <3> HIDE DEF old, listed, clients
    <3>4. kept \subseteq clients \X clients
      OBVIOUS
    <3>5. \A a, b : <<a, b>> \in listed <=> <<a, b>> \in kept
      BY <3>1, <3>2, <3>3
    <3> HIDE DEF kept
    <3>6. listed = kept
      BY <3>1, <3>4, <3>5, SamePairs
    <3> QED BY <3>6 DEF kept, old, listed, clients
  \* a client that stays is the last one if it was: control stays with it
  <2>7. ASSUME NEW k, NEW c, LastAt(k, c), k # i
        PROVE  (Registry!controllerId)' = Registry!controllerId
    <3>1. At(k, c) /\ k \in Nat
      BY <1>2, <2>7 DEF LastAt, PlacesInv
    <3>2. At(to(k), c)'
      BY <2>2, <2>7, <3>1
    <3>3. ASSUME NEW j \in Nat, NEW d \in ConnId, At(j, d)'
          PROVE  j <= to(k)
      <4>1. At(Skip(i, j), d) /\ Skip(i, j) # i
        BY <2>1, <3>3
      <4>2. Skip(i, j) \in Nat /\ Skip(i, j) <= k
        BY <1>2, <2>7, <4>1 DEF LastAt, PlacesInv
      <4> QED BY <2>7, <3>1, <4>1, <4>2 DEF to, Skip
    <3>4. LastAt(to(k), c)'
      BY <3>2, <3>3 DEF LastAt
    <3> QED BY <1>2, <2>7, <3>4 DEF LastControls
  <2>8. CASE \A c : ~At(i, c)
    <3>1. id \notin Registry!Writable
      BY <1>2, <2>1, <2>8 DEF SeenAs
    <3>2. (Registry!Writable)' = Registry!Writable
      BY <2>4, <3>1
    <3>3. (Registry!ListedBefore)' = Registry!ListedBefore
      <4>1. Registry!ListedBefore \subseteq Registry!Writable \X Registry!Writable
        BY <1>2 DEF SeenAs
      <4> QED BY <2>6, <3>2, <4>1
    <3>4. (Registry!controllerId)' = Registry!controllerId
      <4>1. CASE \E k, c : At(k, c)
        <5>1. PICK k, c : LastAt(k, c)
          BY <1>2, <4>1 DEF LastControls
        <5> QED BY <2>7, <2>8, <5>1 DEF LastAt
      <4>2. CASE \A k, c : ~At(k, c)
        <5>1. \A k, c : ~At(k, c)'
          BY <2>1, <4>2
        <5> QED BY <1>2, <4>2, <5>1 DEF LastControls
      <4> QED BY <4>1, <4>2
    <3> QED BY <3>2, <3>3, <3>4 DEF handoverVars
  <2>9. CASE \E c : At(i, c)
    <3>1. At(i, id) /\ id \in Registry!Writable
      BY <1>2, <2>1, <2>9 DEF SeenAs
    <3>2. CASE Registry!controllerId # id
      <4>1. PICK k, c : LastAt(k, c)
        BY <1>2, <2>9 DEF LastControls
      <4>2. k # i
        BY <1>2, <2>1, <3>2, <4>1 DEF LastControls, LastAt
      <4>3. (Registry!controllerId)' = Registry!controllerId
        BY <2>7, <4>1, <4>2
      <4> QED BY <2>4, <2>6, <3>1, <3>2, <4>3 DEF Handover!Leave, Handover!Next
    <3>3. CASE Registry!controllerId = id /\ \A k, c : ~At(k, c)'
      <4>1. (Registry!Writable)' = {}
        BY <1>2, <3>3 DEF SeenAs
      <4>2. (Registry!controllerId)' = NoId
        BY <1>2, <3>3 DEF LastControls
      <4> QED BY <2>4, <2>6, <3>1, <3>3, <4>1, <4>2 DEF Handover!Leave, Handover!Next
    <3>4. CASE Registry!controllerId = id /\ \E k, c : At(k, c)'
      <4>1. PICK k, c : LastAt(k, c)'
        BY <1>2, <3>4 DEF LastControls
      <4>2. (Registry!controllerId)' = c /\ c \in (Registry!Writable)' /\ At(k, c)' /\ k \in Nat
        BY <1>2, <4>1 DEF LastControls, SeenAs, LastAt, PlacesInv
      <4>3. ASSUME NEW d \in (Registry!Writable)' \ {c}
            PROVE  <<d, c>> \in Registry!ListedBefore
        <5>1. PICK j : At(j, d)'
          BY <1>2, <4>3 DEF SeenAs
        <5>2. j \in Nat /\ d \in ConnId
          BY <1>2, <5>1 DEF PlacesInv
        <5>3. j <= k
          BY <4>1, <5>1, <5>2 DEF LastAt
        <5>4. j # k
          BY <1>2, <4>2, <4>3, <5>1 DEF PlacesInv
        <5>5. j < k
          BY <4>2, <5>2, <5>3, <5>4
        <5>6. <<d, c>> \in (Registry!ListedBefore)'
          BY <1>2, <4>2, <5>1, <5>5 DEF SeenAs
        <5> QED BY <2>5, <5>6
      <4>4. Handover!Youngest((Registry!controllerId)', (Registry!Writable)', Registry!ListedBefore)
        BY <4>2, <4>3 DEF Handover!Youngest
      <4> QED BY <2>4, <2>6, <3>1, <3>4, <4>4 DEF Handover!Leave, Handover!Next
    <3> QED BY <3>2, <3>3, <3>4
  <2> QED BY <2>8, <2>9
<1> QED BY <1>3, <1>4

(* A request for a layout changes nothing.                                   *)
LEMMA RequestHandsOver ==
    ASSUME RegistryInv, NEW id \in ConnId, NEW layout \in Layout,
           Registry!setRequestedLayout(id, layout)
    PROVE  UNCHANGED handoverVars
<1>1. /\ RegistryInv' /\ DOMAIN m_connections' = DOMAIN m_connections
      /\ \A k \in DOMAIN m_connections :
            /\ m_connections'[k].id = m_connections[k].id
            /\ m_connections'[k].readOnly = m_connections[k].readOnly
  BY RequestStep
<1>2. /\ DOMAIN m_connections = 1..Len(m_connections)
      /\ DOMAIN m_connections' = 1..Len(m_connections')
  BY <1>1, LenProperties DEF RegistryInv
<1>3. \A k, c : At(k, c)' <=> At(k, c)
  BY <1>1, <1>2 DEF At
<1> QED BY <1>1, <1>3, SamePlaces

(* Initially nobody is there, as ControlHandover says.                       *)
LEMMA NobodyControls ==
    ASSUME Registry!Init
    PROVE  Handover!Init
<1>1. m_connections = << >> /\ DOMAIN m_connections = {}
  BY DEF Registry!Init
<1>2. Registry!Writable = {}
  BY <1>1 DEF Registry!Writable
<1>3. Registry!ListedBefore = {}
  BY <1>2 DEF Registry!ListedBefore
<1>4. Registry!controllerId = NoId
  BY <1>1 DEF Registry!controllerId
<1> QED BY <1>2, <1>3, <1>4 DEF Handover!Init

(* A step that leaves the list alone leaves control alone.                   *)
LEMMA RestHandsOver ==
    ASSUME UNCHANGED m_connections
    PROVE  UNCHANGED handoverVars
<1>1. /\ (Registry!Writable)' = Registry!Writable
      /\ (Registry!controllerId)' = Registry!controllerId
  BY DEF Registry!Writable, Registry!controllerId
<1>2. (Registry!ListedBefore)' = Registry!ListedBefore
  BY <1>1 DEF Registry!ListedBefore
<1> QED BY <1>1, <1>2 DEF handoverVars

(* Of the daemon's steps three change the list, by an operation each.        *)
LEMMA StepHandsOver ==
    ASSUME OwnershipInv, [Next]_vars
    PROVE  Handover!Next \/ UNCHANGED handoverVars
<1>1. RegistryInv /\ posted \in Seq(Event) /\ stack \in Seq(Transaction)
  BY DEF OwnershipInv, OwnTypeOK
<1>2. posted # << >> => Oldest \in Event
  <2>1. posted # << >> => 1 \in 1..Len(posted)
    BY <1>1, EmptySeq, LenProperties
  <2> QED BY <1>1, <2>1, QueueIds DEF Oldest
<1>3. CASE HandleAuthenticated
  <2>1. Oldest.id \in ConnId /\ Oldest.readOnly \in BOOLEAN
    BY <1>2, <1>3, EventFields DEF HandleAuthenticated, IsNext
  <2>2. Registry!add(Oldest.id, Oldest.readOnly) \/ UNCHANGED m_connections
    BY <1>3 DEF HandleAuthenticated, registryVars
  <2> QED BY <1>1, <2>1, <2>2, AddHandsOver, RestHandsOver
<1>4. CASE HandleClosed
  <2>1. Oldest.id \in ConnId
    BY <1>2, <1>4, EventFields DEF HandleClosed, IsNext
  <2>2. Registry!remove(Oldest.id)
    BY <1>4 DEF HandleClosed
  <2> QED BY <1>1, <2>1, <2>2, RemoveHandsOver
<1>5. CASE TransactionSucceeds
  <2>1. stack # << >> /\ Registry!setRequestedLayout(Top.id, Top.layout)
    BY <1>5 DEF TransactionSucceeds, Resume
  <2>2. Top \in Transaction /\ Len(stack) <= MaxDepth
    BY <1>1, <2>1, StackSteps DEF OwnershipInv, OwnTypeOK
  <2>3. Top.id \in ConnId /\ Top.layout \in Layout
    BY <2>2 DEF Transaction
  <2> QED BY <1>1, <2>1, <2>3, RequestHandsOver
<1>6. CASE ~(HandleAuthenticated \/ HandleClosed \/ TransactionSucceeds)
  <2>1. UNCHANGED m_connections
    BY <1>6 DEF Next, vars, registryVars, addConnection, PeerAuthenticates,
                PeerRequestsLayout, PeerCloses, PeerDropped, PeerDeleted, RejectLayout,
                BeginTransaction, TransactionFails, TransactionReverts, SetMode, Start, Stop
  <2> QED BY <2>1, RestHandsOver
<1> QED BY <1>3, <1>4, <1>5, <1>6

-----------------------------------------------------------------------------
(* The properties                                                            *)

(* Every variable keeps its type, and no client is registered twice.         *)
THEOREM TypeCorrect == Spec => []TypeOK
<1>1. OwnershipInv => TypeOK
  BY RegistryTypes DEF OwnershipInv, OwnTypeOK, TypeOK
<1> QED BY <1>1, OwnershipAlways, PTL

(* In every state of the handovers, restarts and closings, the gates of a    *)
(* registered client that is served are open exactly for the controller.     *)
THEOREM ControllerAlone == Spec => []OnlyControllerInjects
<1>1. ASSUME OwnershipInv PROVE OnlyControllerInjects
  <2> SUFFICES ASSUME NEW c \in Registered, c \in connections, peer[c] = "authenticated"
               PROVE  /\ inputGate[c] <=> c = Registry!controllerId
                      /\ clipboardGate[c] <=> c = Registry!controllerId /\ clipboard
    BY DEF OnlyControllerInjects
  <2>1. PICK r \in BOOLEAN : IsClient(c, r)
    BY <1>1, RegistryTypes DEF OwnershipInv
  <2> QED BY <1>1, <2>1 DEF OwnershipInv, GatesFollow
<1> QED BY <1>1, OwnershipAlways, PTL

(* Whoever is registered is served, or is on the way out.                    *)
THEOREM NobodyIsStale == Spec => []RegisteredIsTracked
<1>1. ASSUME OwnershipInv PROVE RegisteredIsTracked
  <2> SUFFICES ASSUME NEW c \in Registered
               PROVE  \/ c \in connections /\ peer[c] = "authenticated"
                      \/ peer[c] = "dropped"
                      \/ \E k \in DOMAIN posted : posted[k].kind = "closed" /\ posted[k].id = c
    BY DEF RegisteredIsTracked
  <2>1. PICK r \in BOOLEAN : IsClient(c, r)
    BY <1>1, RegistryTypes DEF OwnershipInv
  <2>2. c \in ConnId
    BY <1>1, <2>1, RegistryTypes DEF OwnershipInv
  <2>3. /\ Arrived(peer, c)
        /\ peer[c] = "authenticated" => c \in connections
        /\ Ended(peer, c) => WillClose(posted, c)
    BY <1>1, <2>1, <2>2 DEF OwnershipInv, ClientsAreServed
  <2>4. peer[c] \in PeerState /\ DOMAIN posted = 1..Len(posted)
    BY <1>1, <2>2, LenProperties DEF OwnershipInv, OwnTypeOK
  <2>5. CASE Ended(peer, c)
    BY <2>3, <2>4, <2>5 DEF WillClose, ClosesAt
  <2>6. CASE ~Ended(peer, c)
    BY <2>3, <2>4, <2>6 DEF Arrived, Ended, PeerState
  <2> QED BY <2>5, <2>6
<1> QED BY <1>1, OwnershipAlways, PTL

(* Whatever is added, removed and noted, the registry hands control over as  *)
(* ControlHandover says.                                                     *)
THEOREM RegistryHandsOver == Registry!Spec => Handover!Spec
<1>1. Registry!Init => RegistryInv /\ Handover!Init
  BY RegistryInit, NobodyControls
<1>2. RegistryInv /\ [Registry!Next]_m_connections =>
          RegistryInv' /\ [Handover!Next]_handoverVars
  <2> SUFFICES ASSUME RegistryInv, [Registry!Next]_m_connections
               PROVE  RegistryInv' /\ (Handover!Next \/ UNCHANGED handoverVars)
    OBVIOUS
  <2>1. CASE UNCHANGED m_connections
    BY <2>1, RegistryRests, RestHandsOver
  <2>2. ASSUME NEW id \in ConnId, NEW readOnly \in BOOLEAN, Registry!add(id, readOnly)
        PROVE  RegistryInv' /\ (Handover!Next \/ UNCHANGED handoverVars)
    BY <2>2, AddStep, AddHandsOver
  <2>3. ASSUME NEW id \in ConnId, Registry!remove(id)
        PROVE  RegistryInv' /\ (Handover!Next \/ UNCHANGED handoverVars)
    BY <2>3, RemoveStep, RemoveHandsOver
  <2>4. ASSUME NEW id \in ConnId, NEW layout \in Layout,
               Registry!setRequestedLayout(id, layout)
        PROVE  RegistryInv' /\ (Handover!Next \/ UNCHANGED handoverVars)
    BY <2>4, RequestStep, RequestHandsOver
  <2> QED BY <2>1, <2>2, <2>3, <2>4 DEF Registry!Next
<1> QED BY <1>1, <1>2, PTL DEF Registry!Spec, Handover!Spec, handoverVars

(* And so does the daemon, which adds, removes and notes as the queued       *)
(* events of its peers, the stops of its server and the ends of its          *)
(* transactions come.                                                        *)
THEOREM ControlIsHandedOver == Spec => HandsOver
<1>1. Init => Handover!Init
  BY NobodyControls DEF Init
<1>2. OwnershipInv /\ [Next]_vars => [Handover!Next]_handoverVars
  BY StepHandsOver
<1> QED BY <1>1, <1>2, OwnershipAlways, PTL DEF Spec, HandsOver, Handover!Spec, handoverVars
=============================================================================

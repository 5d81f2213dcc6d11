---------------------------- MODULE Settings_proofs ----------------------------
(***************************************************************************)
(* Theorems about Settings, for any addresses, profiles and layouts and    *)
(* any number of Starts suspended at the same time.                        *)
(***************************************************************************)
EXTENDS Settings, SequenceTheorems, TLAPS

Wait == {"secrets", "outputs", "layout"}
Waits == Seq(Wait)

(* What Start has seen to: there is a certificate as soon as one is under    *)
(* way, and d->server was made with the settings of the daemon.              *)
StartsFollow ==
    ~overtaken =>
        /\ frames # << >> => settings.server.certificate # "none"
        /\ server # NoServer =>
              server = settings.server /\ server.certificate # "none"

(* TypeOK, conjunct by conjunct.                                             *)
Types ==
    /\ settings \in Stored
    /\ file \in Stored
    /\ m_mode \in Mode
    /\ server \in Server \cup {NoServer}
    /\ listening \in BOOLEAN
    /\ unsaved \in BOOLEAN
    /\ overtaken \in BOOLEAN
    /\ listening => server # NoServer
    /\ frames \in Waits
    /\ Len(frames) <= MaxDepth

SettingsInv ==
    /\ Types
    /\ FileIsCurrent
    /\ StartsFollow

-----------------------------------------------------------------------------
(* The stack of suspended Starts                                             *)

(* The stack of suspended Starts, when one begins, goes on or ends.          *)
LEMMA FramesTop ==
    ASSUME frames \in Waits, Len(frames) <= MaxDepth
    PROVE  /\ frames # << >> => Below \in Waits /\ Len(Below) < MaxDepth
           /\ \A wait \in Wait :
                 /\ Len(frames) < MaxDepth =>
                       Append(frames, wait) \in Waits /\ Len(Append(frames, wait)) <= MaxDepth
                 /\ frames # << >> =>
                       Append(Below, wait) \in Waits /\ Len(Append(Below, wait)) <= MaxDepth
<1> DEFINE n == Len(frames)
<1>1. n \in Nat /\ MaxDepth \in Nat
  BY LenProperties, SettingsAssumption DEF Waits
<1>2. \A k \in 1..n : frames[k] \in Wait
  BY ElementOfSeq DEF Waits
<1>3. ASSUME NEW queue \in Waits, NEW wait \in Wait
      PROVE  Append(queue, wait) \in Waits /\ Len(Append(queue, wait)) = Len(queue) + 1
  BY AppendProperties DEF Waits
<1>4. ASSUME frames # << >>
      PROVE  Below \in Waits /\ Len(Below) = n - 1
  <2>1. n # 0
    BY <1>4, EmptySeq DEF Waits
  <2>2. \A k \in 1..(n - 1) : frames[k] \in Wait
    BY <1>1, <1>2
  <2> HIDE DEF n
  <2>3. n - 1 \in Nat /\ 1 \in Int /\ n - 1 \in Int
        /\ (1 <= n - 1 => (n - 1) - 1 + 1 = n - 1) /\ (~(1 <= n - 1) => n - 1 = 0)
    BY <2>1, <1>1
  <2>4. SubSeq(frames, 1, n - 1) \in Seq(Wait) /\ Len(SubSeq(frames, 1, n - 1)) = n - 1
    BY <2>3, <2>2, SubSeqProperties
  <2> QED BY <2>4 DEF Below, Front, n, Waits
<1>5. ASSUME frames # << >>
      PROVE  /\ Below \in Waits /\ Len(Below) < MaxDepth
             /\ \A wait \in Wait : Append(Below, wait) \in Waits
                                   /\ Len(Append(Below, wait)) <= MaxDepth
  BY <1>1, <1>3, <1>4, <1>5
<1>6. ASSUME Len(frames) < MaxDepth
      PROVE  \A wait \in Wait : Append(frames, wait) \in Waits
                                /\ Len(Append(frames, wait)) <= MaxDepth
  BY <1>1, <1>3, <1>6
<1> QED BY <1>5, <1>6

-----------------------------------------------------------------------------
(* Every step keeps the invariant                                            *)

(* At first the file holds the settings and nothing runs.                    *)
LEMMA SettingsInit == Init => SettingsInv
<1> SUFFICES ASSUME Init PROVE SettingsInv
  OBVIOUS
<1>1. frames = << >> /\ Len(frames) = 0 /\ frames \in Waits
  BY DEF Init, Waits
<1>2. /\ settings \in Stored /\ file = settings /\ settings.mode = "follow-client"
      /\ m_mode \in Mode /\ m_mode = "follow-client"
  BY DEF Init, Stored, Server, Profiles, Mode
<1>3. /\ server \in Server \cup {NoServer} /\ listening \in BOOLEAN
      /\ listening => server # NoServer
      /\ unsaved \in BOOLEAN /\ overtaken \in BOOLEAN
  BY Zenon DEF Init
<1>5. Types
  BY <1>1, <1>2, <1>3, SettingsAssumption DEF Types
<1>4. server = NoServer
  BY DEF Init
<1> QED BY <1>1, <1>2, <1>4, <1>5 DEF SettingsInv, FileIsCurrent, StartsFollow

(* SetMode, ApplyProfile and the profile edits leave the server alone.       *)
LEMMA SavingSteps ==
    ASSUME SettingsInv
    PROVE  /\ \A mode \in Mode : SetMode(mode) => SettingsInv'
           /\ \A n \in Name : ApplyProfile(n) \/ DeleteProfile(n) => SettingsInv'
           /\ \A n \in Name, l \in Layout : SaveProfile(n, l) => SettingsInv'
<1>1. ASSUME settings' \in Stored, settings'.server = settings.server,
             m_mode' \in Mode, settings'.mode = m_mode', Persist, UNCHANGED runVars
      PROVE  SettingsInv'
  <2>1. file' \in Stored /\ unsaved' \in BOOLEAN /\ (~unsaved' => file' = settings')
    BY <1>1 DEF Persist, Persisted, PersistFails, SettingsInv, Types
  <2> QED BY <1>1, <2>1
          DEF SettingsInv, Types, FileIsCurrent, StartsFollow, runVars
<1>2. settings \in Stored /\ m_mode \in Mode /\ settings.mode = m_mode
  BY DEF SettingsInv, Types, FileIsCurrent
<1>3. ASSUME NEW mode \in Mode, ChangeMode(mode), UNCHANGED runVars
      PROVE  SettingsInv'
  <2>1. /\ settings' \in Stored /\ settings'.server = settings.server
        /\ settings'.mode = mode /\ m_mode' = mode /\ Persist
    BY <1>2, <1>3 DEF ChangeMode, Stored
  <2> QED BY <1>1, <1>3, <2>1
<1>4. ASSUME NEW n \in Name, NEW l \in Layout \cup {None}, SetProfile(n, l)
      PROVE  SettingsInv'
  <2>1. /\ settings' \in Stored /\ settings'.server = settings.server
        /\ settings'.mode = settings.mode /\ Persist
        /\ UNCHANGED m_mode /\ UNCHANGED runVars
    BY <1>2, <1>4 DEF SetProfile, Stored, Profiles
  <2> QED BY <1>1, <1>2, <2>1
<1>5. "profile" \in Mode
  BY DEF Mode
<1> QED BY <1>3, <1>4, <1>5 DEF SetMode, ApplyProfile, DeleteProfile, SaveProfile

(* A Start that goes on, fails or ends.                                      *)
LEMMA RunningSteps ==
    ASSUME SettingsInv
    PROVE  /\ SecretsFail \/ SecretsRead \/ Listens => SettingsInv'
           /\ StartSucceeds \/ StartFails \/ Stop => SettingsInv'
<1>1. /\ settings \in Stored /\ settings.server \in Server
      /\ frames \in Waits /\ Len(frames) <= MaxDepth /\ NoServer \notin {s \in Server : FALSE}
  BY DEF SettingsInv, Types, Stored, Waits
<1>2. MaxDepth \in Nat /\ Len(frames) \in Nat
  BY <1>1, LenProperties, SettingsAssumption DEF Waits
<1>3. /\ frames # << >> => Below \in Waits /\ Len(Below) <= MaxDepth
      /\ \A wait \in Wait : frames # << >> =>
            Append(Below, wait) \in Waits /\ Len(Append(Below, wait)) <= MaxDepth
  <2>1. frames # << >> => Len(Below) \in Nat
    BY <1>1, FramesTop, LenProperties DEF Waits
  <2> QED BY <1>1, <1>2, <2>1, FramesTop
<1> HIDE DEF Waits
<1>4. ASSUME SecretsRead PROVE SettingsInv'
  <2>1. /\ frames # << >> /\ frames' = Append(Below, "outputs")
        /\ server' = settings.server /\ listening' = FALSE
        /\ overtaken' = (overtaken /\ settings.server.certificate = "none")
        /\ UNCHANGED <<settings, file, m_mode, unsaved>>
    BY <1>4 DEF SecretsRead
  <2>2. Types'
    BY <1>1, <1>3, <2>1 DEF SettingsInv, Types, Waits, Wait
  <2>3. StartsFollow'
    BY <2>1 DEF SettingsInv, StartsFollow
  <2> QED BY <2>1, <2>2, <2>3 DEF SettingsInv, FileIsCurrent
<1>5. ASSUME frames # << >>, frames' \in Waits, Len(frames') <= MaxDepth,
             \/ UNCHANGED <<server, listening>>
             \/ server' = server /\ server # NoServer /\ listening' = TRUE
             \/ StopServer,
             UNCHANGED <<settings, file, m_mode, unsaved, overtaken>>
      PROVE  SettingsInv'
  <2>1. /\ server' \in Server \cup {NoServer} /\ listening' \in BOOLEAN
        /\ listening' => server' # NoServer
    <3>1. CASE StopServer
      BY <3>1, Zenon DEF StopServer
    <3>2. CASE UNCHANGED <<server, listening>>
      BY <3>2 DEF SettingsInv, Types
    <3>3. CASE server' = server /\ server # NoServer /\ listening' = TRUE
      <4>1. server \in Server \cup {NoServer}
        BY DEF SettingsInv, Types
      <4> QED BY <3>3, <4>1, Zenon
    <3> QED BY <3>1, <3>2, <3>3, <1>5
  <2>2. Types'
    BY <1>5, <2>1 DEF SettingsInv, Types, Waits, Wait
  <2>3. StartsFollow'
    BY <1>5 DEF SettingsInv, StartsFollow, StopServer
  <2> QED BY <1>5, <2>2, <2>3 DEF SettingsInv, FileIsCurrent
<1>6. ASSUME Stop PROVE SettingsInv'
  <2>1. Types'
    BY <1>6 DEF Stop, StopServer, SettingsInv, Types
  <2> QED BY <1>6, <2>1 DEF Stop, StopServer, SettingsInv, FileIsCurrent, StartsFollow
<1>7. SecretsFail => SettingsInv'
  BY <1>3, <1>5 DEF SecretsFail, Wait
<1>8. Listens => SettingsInv'
  BY <1>3, <1>5 DEF Listens, Wait
<1>9. StartSucceeds => SettingsInv'
  BY <1>3, <1>5 DEF StartSucceeds, Wait
<1>10. StartFails => SettingsInv'
  BY <1>3, <1>5 DEF StartFails, Wait
<1> QED BY <1>4, <1>6, <1>7, <1>8, <1>9, <1>10

(* Start and ConfigureServer see to a certificate before a Start waits.      *)
LEMMA StartStep ==
    ASSUME SettingsInv, Start
    PROVE  SettingsInv'
<1>1. /\ settings \in Stored /\ settings.server \in Server /\ Generated(settings) \in Stored
      /\ Generated(settings).server.certificate = "generated"
      /\ Generated(settings).mode = settings.mode
      /\ frames \in Waits /\ Len(frames) <= MaxDepth
  BY DEF SettingsInv, Types, Stored, Server, Generated, Waits
<1>2. /\ ~listening /\ Len(frames) < MaxDepth /\ UNCHANGED <<m_mode, server, listening>>
      /\ Overtakes
  BY DEF Start
<1>3. Append(frames, "secrets") \in Waits /\ Len(Append(frames, "secrets")) <= MaxDepth
  BY <1>1, <1>2, FramesTop DEF Wait
<1>4. /\ settings' \in Stored /\ settings'.mode = settings.mode
      /\ frames' \in Waits /\ Len(frames') <= MaxDepth
      /\ file' \in Stored /\ unsaved' \in BOOLEAN /\ (~unsaved' => file' = settings')
      /\ \/ settings'.server.certificate # "none"
         \/ settings' = settings /\ frames' = frames
  <2>1. CASE CertificateFound(settings) /\ UNCHANGED <<file, unsaved>>
    BY <2>1, <1>1, <1>3 DEF CertificateFound, SettingsInv, Types, FileIsCurrent
  <2>2. CASE /\ settings' = Generated(settings)
             /\ Persisted /\ frames' = Append(frames, "secrets")
    BY <2>2, <1>1, <1>3 DEF Persisted
  <2>3. CASE settings' = Generated(settings) /\ PersistFails /\ UNCHANGED frames
    BY <2>3, <1>1 DEF PersistFails, SettingsInv, Types
  <2> QED BY <2>1, <2>2, <2>3 DEF Start
<1>5. Types'
  BY <1>2, <1>4 DEF SettingsInv, Types, Overtakes, Waits
<1>6. StartsFollow'
  BY <1>2, <1>4 DEF SettingsInv, StartsFollow, Overtakes
<1> QED BY <1>2, <1>4, <1>5, <1>6 DEF SettingsInv, FileIsCurrent

(* ConfigureServer changes the settings and starts anew.                     *)
LEMMA ReconfigureStep ==
    ASSUME SettingsInv, Reconfigure
    PROVE  SettingsInv'
<1>1. PICK s \in Server : ConfigureServer(s)
  <2>1. PICK a \in Address, c \in {"none", "imported", settings.server.certificate} :
           ConfigureServer([address |-> a, certificate |-> c])
    BY DEF Reconfigure
  <2>2. c \in {"none", "generated", "imported"}
    BY DEF SettingsInv, Types, Stored, Server
  <2>3. [address |-> a, certificate |-> c] \in Server
    BY <2>2 DEF Server
  <2> QED BY <2>1, <2>3
<1> DEFINE new == [settings EXCEPT !.server = s]
<1>2. /\ settings \in Stored /\ new \in Stored /\ new.mode = settings.mode
      /\ Generated(new) \in Stored /\ Generated(new).mode = settings.mode
      /\ Generated(new).server.certificate = "generated"
      /\ frames \in Waits /\ Len(frames) <= MaxDepth
  BY DEF SettingsInv, Types, Stored, Server, Generated, Waits
<1>3. UNCHANGED m_mode /\ Overtakes
  BY DEF Reconfigure
<1>4. Len(frames) < MaxDepth =>
         Append(frames, "secrets") \in Waits /\ Len(Append(frames, "secrets")) <= MaxDepth
  BY <1>2, FramesTop DEF Wait
<1> HIDE DEF new
<1>5. /\ settings' \in Stored /\ settings'.mode = settings.mode
      /\ frames' \in Waits /\ Len(frames') <= MaxDepth
      /\ file' \in Stored /\ unsaved' \in BOOLEAN /\ (~unsaved' => file' = settings')
      /\ settings'.server.certificate # "none" \/ frames' = frames
      /\ \/ StopServer
         \/ ~listening /\ UNCHANGED <<server, listening>>
  <2>1. CASE settings' = new /\ Persist /\ UNCHANGED <<server, listening, frames>> /\ ~listening
    BY <2>1, <1>2 DEF Persist, Persisted, PersistFails, SettingsInv, Types
  <2>2. CASE settings' = new /\ Persist /\ UNCHANGED frames /\ StopServer
    BY <2>2, <1>2 DEF Persist, Persisted, PersistFails, SettingsInv, Types
  <2>3. CASE CertificateFound(new) /\ Persisted /\ StopServer /\ Len(frames) < MaxDepth
    BY <2>3, <1>2, <1>4 DEF CertificateFound, Persisted
  <2>4. CASE CertificateMade(new) /\ StopServer /\ Len(frames) < MaxDepth
    BY <2>4, <1>2, <1>4 DEF CertificateMade, Persisted
  <2> QED BY <1>1, <2>1, <2>2, <2>3, <2>4 DEF ConfigureServer, new
<1>6. Types'
  <2>1. /\ server' \in Server \cup {NoServer} /\ listening' \in BOOLEAN
        /\ listening' => server' # NoServer
    <3>1. CASE StopServer
      BY <3>1, Zenon DEF StopServer
    <3>2. CASE UNCHANGED <<server, listening>>
      BY <3>2 DEF SettingsInv, Types
    <3> QED BY <3>1, <3>2, <1>5
  <2>2. m_mode' \in Mode /\ overtaken' \in BOOLEAN
    BY <1>3 DEF SettingsInv, Types, Overtakes
  <2> QED BY <1>5, <2>1, <2>2 DEF Types
<1>7. StartsFollow'
  <2>1. CASE StopServer
    BY <2>1, <1>3, <1>5 DEF SettingsInv, StartsFollow, Overtakes, StopServer
  <2>2. CASE ~listening /\ UNCHANGED <<server, listening>>
    BY <2>2, <1>3, <1>5 DEF SettingsInv, StartsFollow, Overtakes
  <2> QED BY <2>1, <2>2, <1>5
<1> QED BY <1>3, <1>5, <1>6, <1>7 DEF SettingsInv, FileIsCurrent

(* A new process reads the file.                                             *)
LEMMA RestartStep ==
    ASSUME SettingsInv, Restart
    PROVE  SettingsInv'
<1>1. frames' = << >> /\ Len(frames') = 0 /\ frames' \in Waits
  BY DEF Restart, Waits
<1>2. Types'
  <2>1. /\ server' \in Server \cup {NoServer} /\ listening' \in BOOLEAN
        /\ listening' => server' # NoServer
        /\ unsaved' \in BOOLEAN /\ overtaken' \in BOOLEAN
    BY Zenon DEF Restart
  <2>2. settings' \in Stored /\ file' \in Stored /\ m_mode' \in Mode
    BY DEF Restart, SettingsInv, Types, Stored
  <2> QED BY <1>1, <2>1, <2>2, SettingsAssumption DEF Types
<1> QED BY <1>1, <1>2 DEF Restart, SettingsInv, FileIsCurrent, StartsFollow

(* The invariant always holds.                                               *)
LEMMA SettingsAlways == Spec => []SettingsInv
<1>1. SettingsInv /\ [Next]_vars => SettingsInv'
  <2> SUFFICES ASSUME SettingsInv, [Next]_vars PROVE SettingsInv'
    OBVIOUS
  <2>1. CASE UNCHANGED vars
    BY <2>1 DEF vars, SettingsInv, Types, FileIsCurrent, StartsFollow
  <2>2. CASE \/ \E mode \in Mode : SetMode(mode)
             \/ \E n \in Name : ApplyProfile(n) \/ DeleteProfile(n)
                                \/ \E l \in Layout : SaveProfile(n, l)
    BY <2>2, SavingSteps
  <2>3. CASE \/ SecretsFail \/ SecretsRead \/ Listens
             \/ StartSucceeds \/ StartFails \/ Stop
    BY <2>3, RunningSteps
  <2>4. CASE Reconfigure \/ Start
    BY <2>4, ReconfigureStep, StartStep
  <2>5. CASE StartCrashes \/ Restart
    BY <2>5, RestartStep DEF StartCrashes
  <2> QED BY <2>1, <2>2, <2>3, <2>4, <2>5 DEF Next
<1> QED BY <1>1, SettingsInit, PTL DEF Spec

-----------------------------------------------------------------------------
(* The properties                                                            *)

(* Every variable keeps its type; a server that listens exists.              *)
THEOREM TypeCorrect == Spec => []TypeOK
<1>1. SettingsInv => TypeOK
  BY DEF SettingsInv, Types, TypeOK, Waits, Wait
<1> QED BY <1>1, SettingsAlways, PTL

(* Between a save that failed and the next one only can the file lag behind. *)
THEOREM FileFollows == Spec => []FileIsCurrent
<1>1. SettingsInv => FileIsCurrent
  BY DEF SettingsInv
<1> QED BY <1>1, SettingsAlways, PTL

(* A listening server runs with the settings that are reported, however many *)
(* Starts and calls of ConfigureServer overlap, unless they were overtaken.  *)
THEOREM RunsConfigured == Spec => []RunsWhatIsConfigured
<1>1. SettingsInv => RunsWhatIsConfigured
  BY DEF SettingsInv, Types, StartsFollow, RunsWhatIsConfigured
<1> QED BY <1>1, SettingsAlways, PTL
=============================================================================

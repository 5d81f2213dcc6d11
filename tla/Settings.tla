------------------------------ MODULE Settings ------------------------------
(***************************************************************************)
(* What kheadlessd remembers in config.json (src/core/settingsstore.cpp)   *)
(* and how Service uses it: SetMode, SaveProfile, ApplyProfile,            *)
(* DeleteProfile, ConfigureServer, and the certificate that Start provides *)
(* for (src/daemon/service.cpp).                                           *)
(*                                                                         *)
(* Every setter is followed by persist(), which may fail; what a call      *)
(* answers then differs from call to call.  Start waits in nested event    *)
(* loops for the keyring, the virtual outputs and KScreen; the daemon      *)
(* dispatches further calls meanwhile, another Start among them, and only  *)
(* the innermost can go on.  ConfigureServer, which looks at running()     *)
(* before it restarts the server, may find a Start under way.              *)
(*                                                                         *)
(* Left out: the stored layout (LayoutService has it), refused arguments,  *)
(* which change nothing, and profiles whose layout has become invalid.     *)
(***************************************************************************)
EXTENDS Integers, Sequences, SequencesExt

CONSTANTS
    Address,        \* what ConfigureServer sets besides the certificate
    Name, Layout,   \* profile names and valid layouts
    None,           \* no profile of a name, no address of a server
    MaxDepth        \* bound: Starts suspended at the same time

ASSUME SettingsAssumption == None \notin Layout /\ MaxDepth \in Nat \ {0}

VARIABLES
    settings,       \* SettingsStore: server, mode and profiles
    file,           \* config.json
    m_mode,         \* LayoutController::m_mode
    server,         \* the settings d->server was made with, or NoServer
    listening,      \* d->listening, which running() returns
    frames,         \* what each suspended Start waits for, innermost last
    unsaved,        \* history: the last persist() failed
    overtaken       \* history: the settings were changed while d->server, made
                    \* with them, was not listening yet, or lost the
                    \* certificate after Start checked it

vars == <<settings, file, m_mode, server, listening, frames, unsaved, overtaken>>

Mode == {"follow-client", "manual", "profile"}
Server == [address : Address, certificate : {"none", "generated", "imported"}]
Profiles == [Name -> Layout \cup {None}]
Stored == [server : Server, mode : Mode, profiles : Profiles]
NoServer == [address |-> None, certificate |-> "none"]

TypeOK ==
    /\ {settings, file} \subseteq Stored
    /\ m_mode \in Mode
    /\ server \in Server \cup {NoServer}
    /\ {listening, unsaved, overtaken} \subseteq BOOLEAN
    /\ listening => server # NoServer
    /\ frames \in Seq({"secrets", "outputs", "layout"}) /\ Len(frames) <= MaxDepth

Init ==
    /\ settings \in [server : [address : Address, certificate : {"none"}],
                     mode : {"follow-client"}, profiles : {[n \in Name |-> None]}]
    /\ file = settings
    /\ m_mode = "follow-client"
    /\ server = NoServer /\ listening = FALSE /\ frames = <<>>
    /\ unsaved = FALSE /\ overtaken = FALSE

-----------------------------------------------------------------------------
(* persist(): SettingsStore::save() replaces the file, or leaves it alone.   *)
Persisted ==
    /\ file' = settings'
    /\ unsaved' = FALSE

PersistFails ==
    /\ unsaved' = TRUE
    /\ UNCHANGED file

Persist == Persisted \/ PersistFails

runVars == <<server, listening, frames, overtaken>>

(* LayoutController::setMode() and the slot of modeChanged.                  *)
ChangeMode(mode) ==
    /\ m_mode # mode
    /\ m_mode' = mode
    /\ settings' = [settings EXCEPT !.mode = mode]
    /\ Persist

(* SetMode answers true, and ApplyProfile goes on to the layout transaction, *)
(* whether the mode could be saved or not; the mode stays when the layout is *)
(* then refused.                                                             *)
SetMode(mode) == ChangeMode(mode) /\ UNCHANGED runVars

ApplyProfile(n) ==
    /\ settings.profiles[n] # None
    /\ ChangeMode("profile")
    /\ UNCHANGED runVars

(* A profile that could not be saved is kept in memory, though SaveProfile   *)
(* answers false; one that could not be deleted from the file is gone from   *)
(* memory, and DeleteProfile answers true.                                   *)
SetProfile(n, l) ==
    /\ settings' = [settings EXCEPT !.profiles[n] = l]
    /\ Persist
    /\ UNCHANGED <<m_mode, runVars>>

SaveProfile(n, l) == SetProfile(n, l)
(* Mutant: DeleteProfile does not persist.                                    *)
DeleteProfileUnsaved(n) ==
    /\ settings.profiles[n] # None
    /\ settings' = [settings EXCEPT !.profiles[n] = None]
    /\ UNCHANGED <<file, unsaved, m_mode, runVars>>

DeleteProfile(n) == settings.profiles[n] # None /\ SetProfile(n, None)

-----------------------------------------------------------------------------
Top == Last(frames)
Below == Front(frames)

(* Mutant: stop() forgets to clear d->listening.                              *)
StopServerListening == server' = NoServer /\ UNCHANGED listening

(* EmbeddedRdpBackend::stop()                                                *)
StopServer == server' = NoServer /\ listening' = FALSE

Generated(s) == [s EXCEPT !.server.certificate = "generated"]

(* ensureCertificate() on the settings s: the configured files exist, or it  *)
(* has openssl write new ones (the daemon dispatches nothing meanwhile) and  *)
(* stores their names.  Only then Start() goes on to read the secrets.       *)
CertificateFound(s) ==
    /\ s.server.certificate # "none"
    /\ settings' = s
    /\ frames' = Append(frames, "secrets")

CertificateMade(s) ==
    /\ settings' = Generated(s)
    /\ \/ Persisted /\ frames' = Append(frames, "secrets")
       \/ file' = s /\ unsaved' = TRUE /\ UNCHANGED frames

(* Settings that change under a server that does not listen yet, or lose the *)
(* certificate under a Start that has seen to it.                            *)
Overtakes ==
    overtaken' = \/ overtaken
                 \/ ~listening /\ server # NoServer /\ settings'.server # settings.server
                 \/ frames # <<>> /\ settings'.server.certificate = "none"

Start ==
    /\ ~listening /\ Len(frames) < MaxDepth
    /\ \/ CertificateFound(settings) /\ UNCHANGED <<file, unsaved>>
       \/ /\ settings' = Generated(settings)
          /\ \/ Persisted /\ frames' = Append(frames, "secrets")
             \/ PersistFails /\ UNCHANGED frames
    /\ UNCHANGED <<m_mode, server, listening>>
    /\ Overtakes

SecretsFail ==
    /\ frames # <<>> /\ Top = "secrets"
    /\ frames' = Below
    /\ UNCHANGED <<settings, file, m_mode, server, listening, unsaved, overtaken>>

(* EmbeddedRdpBackend::start(): stop(), then a server with the settings of   *)
(* this moment, then the wait for the outputs.                               *)
SecretsRead ==
    /\ frames # <<>> /\ Top = "secrets"
    /\ server' = settings.server /\ listening' = FALSE
    /\ frames' = Append(Below, "outputs")
    /\ overtaken' = (overtaken /\ settings.server.certificate = "none")
    /\ UNCHANGED <<settings, file, m_mode, unsaved>>

(* The server that exists by now listens, and the layout is applied.         *)
Listens ==
    /\ frames # <<>> /\ Top = "outputs" /\ server # NoServer
    /\ listening' = TRUE
    /\ frames' = Append(Below, "layout")
    /\ UNCHANGED <<settings, file, m_mode, server, unsaved, overtaken>>

StartSucceeds ==
    /\ frames # <<>> /\ Top = "layout"
    /\ frames' = Below
    /\ UNCHANGED <<settings, file, m_mode, server, listening, unsaved, overtaken>>

(* The outputs, the socket, the audio capture or the layout fails.           *)
StartFails ==
    /\ frames # <<>> /\ Top \in {"outputs", "layout"}
    /\ StopServer
    /\ frames' = Below
    /\ UNCHANGED <<settings, file, m_mode, unsaved, overtaken>>

Stop ==
    /\ StopServer
    /\ UNCHANGED <<settings, file, m_mode, frames, unsaved, overtaken>>

(* Mutant: ConfigureServer does not restart a running server.                 *)
ConfigureServerRunning(s) ==
    settings' = [settings EXCEPT !.server = s] /\ Persist /\ UNCHANGED <<server, listening, frames>>

(* Service::ConfigureServer(): a running server is stopped first, stays      *)
(* stopped if the settings cannot be saved or the certificate not be made,   *)
(* and else is started with them.                                            *)
ConfigureServer(s) ==
    LET new == [settings EXCEPT !.server = s]
    IN  IF listening
        THEN /\ StopServer
             /\ Len(frames) < MaxDepth
             /\ \/ settings' = new /\ Persist /\ UNCHANGED frames
                \/ CertificateFound(new) /\ Persisted
                \/ CertificateMade(new)
        ELSE settings' = new /\ Persist /\ UNCHANGED <<server, listening, frames>>

Reconfigure ==
    /\ \E a \in Address, c \in {"none", "imported", settings.server.certificate} :
           ConfigureServer([address |-> a, certificate |-> c])
    /\ Overtakes
    /\ UNCHANGED m_mode

(* The daemon stops at any moment; the next one adopts the file.             *)
Restart ==
    /\ settings' = file /\ m_mode' = file.mode
    /\ server' = NoServer /\ listening' = FALSE /\ frames' = <<>>
    /\ unsaved' = FALSE /\ overtaken' = FALSE
    /\ UNCHANGED file

(* Start() goes on and finds that the server was destroyed: it dereferences  *)
(* a null pointer.                                                           *)
StartCrashes ==
    /\ frames # <<>> /\ Top = "outputs" /\ server = NoServer
    /\ Restart

Next ==
    \/ \E mode \in Mode : SetMode(mode)
    \/ \E n \in Name : ApplyProfile(n) \/ DeleteProfile(n) \/ \E l \in Layout : SaveProfile(n, l)
    \/ Reconfigure
    \/ Start \/ SecretsFail \/ SecretsRead \/ Listens \/ StartSucceeds \/ StartFails \/ StartCrashes
    \/ Stop
    \/ Restart

Spec == Init /\ [][Next]_vars

-----------------------------------------------------------------------------
(* What the daemon knows, the file has, so that a restart loses nothing,     *)
(* unless the last attempt to save failed; a profile or server settings left *)
(* over from a failed attempt go with the next one.  The mode is kept twice  *)
(* in memory, once in the controller and once in the settings.               *)
FileIsCurrent == settings.mode = m_mode /\ (~unsaved => file = settings)

(* A listening server has a certificate and runs with the settings that      *)
(* ServerConfiguration() reports, although Starts overlap, ConfigureServer   *)
(* is called inside them and saving fails at any point.  The one exception   *)
(* is in the code: ConfigureServer called while Start waits for the outputs  *)
(* finds nothing running and restarts nothing, and called while it waits for *)
(* the keyring can take back a certificate that was checked before.          *)
RunsWhatIsConfigured ==
    listening /\ ~overtaken => server = settings.server /\ server.certificate # "none"

=============================================================================

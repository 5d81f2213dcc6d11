---------------------------- MODULE LayoutService ----------------------------
(***************************************************************************)
(* The layout transaction of kheadlessd (src/daemon/service.cpp) over its  *)
(* three parts: LayoutController, KScreenBackend, and the virtual outputs  *)
(* of EmbeddedRdpBackend (src/daemon/embeddedrdpbackend.cpp); with Start,  *)
(* Stop, ConfigureServer and a crash.  A build without the patched KRdp    *)
(* has ProcessRdpBackend (src/daemon/rdpbackend.cpp) instead: a stock      *)
(* krdpserver as a child process, restarted for every layout.              *)
(*                                                                         *)
(* The daemon has one thread.  A handler waits in a nested event loop for  *)
(* the keyring, for KWin to start virtual outputs (at most 10 seconds) and *)
(* for the two KScreen operations; meanwhile the thread dispatches further *)
(* D-Bus calls, timers and client requests, whose handlers may wait in     *)
(* turn.  The suspended handlers are a stack of frames, and only the       *)
(* innermost can go on.                                                    *)
(*                                                                         *)
(* Layouts here are valid and in normal form; LayoutController has the     *)
(* others.  The settings are saved without failing.                        *)
(***************************************************************************)
EXTENDS KScreenMatching, SequencesExt

CONSTANTS
    Layout,         \* the layouts that are asked for
    NoLayout,       \* this process has not put a layout on the screen yet
    monitors,       \* the monitors of each layout: a sequence of records of
                    \* id, name, enabled and shape (size and scale)
    outputOrder,    \* every pair of a monitor id and a shape, in the order of
                    \* the KScreen ids of their outputs
    Answers,        \* what KWin can answer for an output: ready, rejected
    Backends,       \* the builds: "embedded", "process"
    MaxDepth        \* bound: handlers suspended at the same time; with 1 the
                    \* daemon dispatches nothing while a handler waits

ASSUME ServiceAssumption ==
    /\ NoLayout \notin Layout
    /\ Answers \subseteq {"ready", "rejected"}
    /\ Backends \subseteq {"embedded", "process"}
    /\ MaxDepth \in Nat \ {0}

VARIABLES
    m_layout, m_previousLayout, m_revertTimer, screen, lastKept, trial,
                    \* as in LayoutController; screen is the layout KScreen
                    \* was last given, whatever became of it
    saved,          \* m_settings.layout(), as stored on disk
    backend,        \* the kind of RdpBackend this daemon was built with
    server,         \* d->server exists
    listening,      \* running(): d->listening, or the child process runs
    rdpLayout,      \* d->layout, the topology the RDP clients are given, or
                    \* the one the child was launched with
    outputs,        \* d->outputs: what became of each virtual output
    shown,          \* the layout KScreen has arranged on the virtual outputs,
                    \* as long as none of them has been destroyed since
    frames          \* the suspended handlers, innermost last

controllerVars == <<m_layout, m_previousLayout, m_revertTimer, lastKept, trial>>
serverVars == <<backend, server, listening, rdpLayout, outputs, shown>>
vars == <<controllerVars, screen, saved, serverVars, frames>>

Outputs == {outputOrder[k] : k \in DOMAIN outputOrder}

(* The outputs a layout needs: one for every enabled monitor, of its shape.  *)
needed == [l \in Layout |->
    {<<m.id, m.shape>> : m \in {n \in {monitors[l][k] : k \in DOMAIN monitors[l]} : n.enabled}}]
Needs(l) == needed[l]

ASSUME OutputAssumption == \A l \in Layout : Needs(l) \subseteq Outputs

(* A frame waits                                                             *)
(*   "prepare", "restore", "reprepare", "outputs": in ensureVirtualOutputs,  *)
(*   "get", "set": in an operation of KScreenBackend::apply,                 *)
(*   "secrets": in readKrdpSecret;                                           *)
(* or runs on at once: "applied" (LayoutController::apply has succeeded) and *)
(* "reverting" (revert() is about to emit layoutReverting).                  *)
Frame == [op : {"transaction", "revert", "start"},
          pc : {"prepare", "restore", "reprepare", "outputs", "get", "set",
                "secrets", "applied", "reverting"},
          layout : Layout \cup {NoLayout},      \* the layout it works on
          previous : Layout \cup {NoLayout},    \* the layout when a transaction began
          temporary : BOOLEAN,
          client : BOOLEAN,             \* asked by an RDP client
          pending : SUBSET Outputs,     \* outputs it waits for, by address
          dangling : BOOLEAN,           \* one of them has been destroyed
          done : BOOLEAN]               \* KScreen has set its layout

TypeOK ==
    /\ {m_layout, m_previousLayout, lastKept, saved, rdpLayout} \subseteq Layout
    /\ {screen, shown} \subseteq Layout \cup {NoLayout}
    /\ {m_revertTimer, server, listening} \subseteq BOOLEAN
    /\ backend \in Backends
    /\ trial \in {"none", "single", "chained"}
    /\ outputs \in [Outputs -> {"none", "starting", "ready", "rejected"}]
    /\ frames \in Seq(Frame) /\ Len(frames) <= MaxDepth

(* A process that has adopted the stored layout l.                           *)
Booted(l) ==
    /\ m_layout = l /\ m_previousLayout = l /\ m_revertTimer = FALSE
    /\ screen = NoLayout /\ shown = NoLayout
    /\ lastKept = l /\ trial = "none"
    /\ saved = l
    /\ server = FALSE /\ listening = FALSE
    /\ rdpLayout = l
    /\ outputs = [o \in Outputs |-> "none"]
    /\ frames = << >>

Init == backend \in Backends /\ \E l \in Layout : Booted(l)

-----------------------------------------------------------------------------
(* Virtual outputs                                                           *)

(* ensureVirtualOutputs(l): what it destroys and what it creates.  An output *)
(* that exists is kept and not waited for, whether it is ready or not.       *)
Doomed(l) == {o \in Outputs : outputs[o] # "none"} \ Needs(l)
Missing(l) == {o \in Needs(l) : outputs[o] = "none"}
Ensured(l) == [o \in Outputs |->
                  IF o \in Doomed(l) THEN "none"
                  ELSE IF o \in Missing(l) THEN "starting" ELSE outputs[o]]

(* What is left on the screen when outputs are destroyed.                    *)
Left(destroyed) ==
    IF shown # NoLayout /\ Needs(shown) \cap destroyed # {} THEN NoLayout ELSE shown

(* The suspended calls that hold the address of a destroyed output.          *)
Freed(fs, destroyed) ==
    [k \in DOMAIN fs |->
        [fs[k] EXCEPT !.dangling = @ \/ fs[k].pending \cap destroyed # {}]]

(* stop(): outputs and server are destroyed.                                 *)
StopServer ==
    /\ server' = FALSE
    /\ listening' = FALSE
    /\ outputs' = [o \in Outputs |-> "none"]
    /\ shown' = NoLayout
    /\ UNCHANGED <<backend, rdpLayout>>

(* KWin answers an output's request; also when nobody waits any longer.      *)
OutputAnswers(o, answer) ==
    /\ outputs[o] = "starting"
    /\ outputs' = [outputs EXCEPT ![o] = answer]
    /\ UNCHANGED <<controllerVars, screen, saved, backend, server, listening,
                   rdpLayout, shown, frames>>

-----------------------------------------------------------------------------
(* Frames                                                                    *)

Top == Last(frames)
Below == Front(frames)
At(pc) == frames # << >> /\ Top.pc = pc

Busy == At("applied") \/ At("reverting")
Dispatches == frames = << >> \/ (MaxDepth > 1 /\ ~Busy)

Start0 == [op |-> "start", pc |-> "secrets", layout |-> NoLayout, previous |-> NoLayout,
           temporary |-> FALSE, client |-> FALSE, pending |-> {}, dangling |-> FALSE,
           done |-> FALSE]

Push(f) == Dispatches /\ Len(frames) < MaxDepth /\ frames' = Append(frames, f)
Replace(f) == frames' = Append(Below, f)
Pop == frames' = Below

(* A frame goes on into m_backend->apply(l).                                 *)
Asking(f, l) == [f EXCEPT !.pc = "get", !.layout = l, !.pending = {},
                          !.dangling = FALSE, !.done = FALSE]

(* Mutant: the wait ends with the answers only, there is no timer.            *)
VerdictsAnswered(f) ==
    IF f.dangling THEN BOOLEAN
    ELSE {verdict \in BOOLEAN :
             IF verdict THEN \A o \in f.pending : outputs[o] = "ready"
                        ELSE \E o \in f.pending : outputs[o] = "rejected"}

(* What ensureVirtualOutputs returns at the end of its wait: whether all the *)
(* outputs it waited for are ready, by timer, by an error or by the last     *)
(* answer.  Of a destroyed output it reads memory that was freed.            *)
Verdicts(f) == IF f.dangling THEN BOOLEAN
               ELSE {\A o \in f.pending : outputs[o] = "ready"}

(* The stock server shows one monitor.                                        *)
OneMonitor(l) == Cardinality({k \in DOMAIN monitors[l] : monitors[l][k].enabled}) = 1

(* Prepare(fs, f, pc, l, next) is prepareLayout(l) called by the frame f on  *)
(* top of fs: f waits at pc if there are outputs to wait for, else it goes   *)
(* on as the sequence of frames next.  A transaction ends where the stock    *)
(* server cannot show its layout; the other callers ignore the answer.       *)
Prepare(fs, f, pc, l, next) ==
    \/ /\ backend = "embedded"
       /\ outputs' = Ensured(l)
       /\ shown' = Left(Doomed(l))
       /\ frames' = IF Missing(l) # {}
                    THEN Append(Freed(fs, Doomed(l)),
                                [f EXCEPT !.pc = pc, !.pending = Missing(l),
                                          !.dangling = FALSE])
                    ELSE Freed(fs, Doomed(l)) \o next
    \/ /\ backend = "process"
       /\ frames' = IF pc = "prepare" /\ ~OneMonitor(l) THEN fs ELSE fs \o next
       /\ UNCHANGED <<outputs, shown>>

(* updateLayout(l): the clients are given the topology, or the child is       *)
(* stopped and launched again; and how that fails.                            *)
UpdateLayout(l) ==
    /\ backend = "process" /\ listening => OneMonitor(l)
    /\ rdpLayout' = IF listening THEN l ELSE rdpLayout
    /\ UNCHANGED listening

RelaunchFails ==
    /\ backend = "process" /\ listening
    /\ listening' = FALSE
    /\ UNCHANGED rdpLayout

-----------------------------------------------------------------------------
(* applyLayoutTransaction                                                    *)

(* ApplyLayout, ApplyProfile, or the layout request of the RDP client that    *)
(* is in control (which is never temporary, and may have been queued when the *)
(* server was stopped).  A running server prepares the outputs first.         *)
BeginTransaction(l, temporary, client) ==
    /\ Dispatches /\ Len(frames) < MaxDepth
    /\ client => backend = "embedded" /\ ~temporary
    /\ LET f == [Start0 EXCEPT !.op = "transaction", !.layout = l, !.previous = m_layout,
                               !.temporary = temporary, !.client = client]
       IN  IF listening
           THEN Prepare(frames, f, "prepare", l, <<Asking(f, l)>>)
           ELSE Push(Asking(f, l)) /\ UNCHANGED <<outputs, shown>>
    /\ UNCHANGED <<controllerVars, screen, saved, backend, server, listening, rdpLayout>>

PrepareSucceeds ==
    /\ At("prepare") /\ TRUE \in Verdicts(Top)
    /\ Replace(Asking(Top, Top.layout))
    /\ UNCHANGED <<controllerVars, screen, saved, serverVars>>

(* The transaction ends; what ensureVirtualOutputs destroyed stays destroyed. *)
PrepareFails ==
    /\ At("prepare") /\ FALSE \in Verdicts(Top)
    /\ Pop
    /\ UNCHANGED <<controllerVars, screen, saved, serverVars>>

(* The outputs KWin has, as GetConfigOperation reads them, and whether the    *)
(* loop of KScreenBackend::apply finds an output for every enabled monitor.   *)
KWinOutputs(up) ==
    LET ready == SelectSeq(outputOrder, LAMBDA o : o \in up)
    IN  [k \in DOMAIN ready |-> [name |-> ready[k][1], compatible |-> TRUE,
                                 enabled |-> TRUE, shows |-> ready[k][1]]]

arrangeable == [l \in Layout, up \in SUBSET Outputs |->
             ~FoldLeft(Arrange, [config |-> KWinOutputs(up), used |-> {}, missing |-> FALSE],
                       monitors[l]).missing]

(* Whether KWin has an output for the stock server is not KHeadless's doing.  *)
FindsOutputs(l) ==
    backend = "process" \/ arrangeable[l, {o \in Outputs : outputs[o] = "ready"}]

GetConfig ==
    /\ At("get")
    /\ FindsOutputs(Top.layout)
    /\ Replace([Top EXCEPT !.pc = "set"])
    /\ UNCHANGED <<controllerVars, screen, saved, serverVars>>

(* SetConfigOperation takes effect, perhaps while its caller is suspended     *)
(* under another handler.  The layout is shown if its outputs exist.          *)
SetConfig(k) ==
    /\ frames[k].pc = "set" /\ ~frames[k].done
    /\ frames' = [frames EXCEPT ![k].done = TRUE]
    /\ screen' = frames[k].layout
    /\ shown' = IF /\ backend = "embedded"
                   /\ \A o \in Needs(frames[k].layout) : outputs[o] # "none"
                THEN frames[k].layout ELSE NoLayout
    /\ UNCHANGED <<controllerVars, saved, backend, server, listening, rdpLayout, outputs>>

Refused == (At("get") \/ At("set")) /\ ~Top.done
Accepted == At("set") /\ Top.done

(* Mutant: the outputs of the previous layout are not restored.               *)
TransactionRefusedForgetting ==
    /\ Refused /\ Top.op = "transaction"
    /\ Pop
    /\ UNCHANGED <<controllerVars, screen, saved, serverVars>>

(* LayoutController::apply returns false.  A running server is asked for the  *)
(* previous outputs again.                                                    *)
TransactionRefused ==
    /\ Refused /\ Top.op = "transaction"
    /\ IF listening
       THEN Prepare(Below, [Start0 EXCEPT !.op = "transaction", !.layout = Top.previous],
                    "restore", Top.previous, << >>)
       ELSE Pop /\ UNCHANGED <<outputs, shown>>
    /\ UNCHANGED <<controllerVars, screen, saved, backend, server, listening, rdpLayout>>

RestoreEnds ==
    /\ At("restore")
    /\ Pop
    /\ UNCHANGED <<controllerVars, screen, saved, serverVars>>

(* Mutant: confirmationChanged saves a layout that is on trial.               *)
TransactionAppliedSaving ==
    /\ Accepted /\ Top.op = "transaction"
    /\ m_previousLayout' = m_layout
    /\ m_layout' = Top.layout
    /\ m_revertTimer' = TRUE
    /\ trial' = IF trial = "none" THEN "single" ELSE "chained"
    /\ saved' = Top.layout
    /\ Replace([Top EXCEPT !.pc = "applied", !.previous = NoLayout, !.done = FALSE])
    /\ UNCHANGED <<lastKept, screen, serverVars>>

(* LayoutController::apply(l, true) returns true.                             *)
TransactionApplied ==
    /\ Accepted /\ Top.op = "transaction"
    /\ m_previousLayout' = m_layout
    /\ m_layout' = Top.layout
    /\ m_revertTimer' = TRUE
    /\ trial' = IF trial = "none" THEN "single" ELSE "chained"
    /\ Replace([Top EXCEPT !.pc = "applied", !.previous = NoLayout, !.done = FALSE])
    /\ UNCHANGED <<lastKept, screen, saved, serverVars>>

(* confirm(), after which confirmationChanged saves the layout.               *)
Keep ==
    /\ m_revertTimer
    /\ m_revertTimer' = FALSE
    /\ m_previousLayout' = m_layout
    /\ lastKept' = m_layout
    /\ trial' = "none"
    /\ saved' = m_layout
    /\ UNCHANGED m_layout

(* The RDP clients are given the new topology (the requesting client has to   *)
(* accept it); a layout that is not temporary is confirmed.                   *)
TransactionSucceeds ==
    /\ At("applied")
    /\ UpdateLayout(Top.layout)
    /\ IF Top.temporary THEN UNCHANGED <<controllerVars, saved>> ELSE Keep
    /\ Pop
    /\ UNCHANGED <<screen, backend, server, outputs, shown>>

(* Mutant: the rollback runs in a handler of its own.                         *)
ClientRefusesNested ==
    /\ At("applied") /\ Top.client /\ listening
    /\ m_revertTimer
    /\ m_revertTimer' = FALSE
    /\ frames' = Append(frames, [Top EXCEPT !.op = "revert", !.pc = "reverting",
                                            !.layout = m_previousLayout, !.client = FALSE])
    /\ UNCHANGED <<m_layout, m_previousLayout, lastKept, trial, screen, saved, serverVars>>

(* acceptClientLayout or updateLayout returns false: revert().                *)
Rollback ==
    /\ m_revertTimer
    /\ m_revertTimer' = FALSE
    /\ Replace([Start0 EXCEPT !.op = "revert", !.pc = "reverting",
                              !.layout = m_previousLayout])
    /\ UNCHANGED <<m_layout, m_previousLayout, lastKept, trial, screen, saved>>

ClientRefuses ==
    /\ At("applied") /\ Top.client /\ listening
    /\ Rollback
    /\ UNCHANGED serverVars

TransactionLosesServer ==
    /\ At("applied")
    /\ RelaunchFails
    /\ Rollback
    /\ UNCHANGED <<backend, server, outputs, shown>>

-----------------------------------------------------------------------------
(* LayoutController::revert                                                  *)

(* Mutant: revert() does not stop the timer.                                  *)
BeginRevertTicking ==
    /\ m_revertTimer
    /\ Push([Start0 EXCEPT !.op = "revert", !.pc = "reverting",
                           !.layout = m_previousLayout])
    /\ UNCHANGED <<controllerVars, screen, saved, serverVars>>

(* RevertLayout, or the timer fires.                                          *)
BeginRevert ==
    /\ m_revertTimer
    /\ m_revertTimer' = FALSE
    /\ Push([Start0 EXCEPT !.op = "revert", !.pc = "reverting",
                           !.layout = m_previousLayout])
    /\ UNCHANGED <<m_layout, m_previousLayout, lastKept, trial, screen, saved, serverVars>>

(* Mutant: layoutReverting is not connected.                                  *)
RevertingUnprepared ==
    /\ At("reverting")
    /\ Replace(Asking(Top, m_previousLayout))
    /\ UNCHANGED <<controllerVars, screen, saved, serverVars>>

(* The slot of layoutReverting prepares the outputs of a running server and   *)
(* only reports an error.  m_previousLayout is read anew after it.            *)
Reverting ==
    /\ At("reverting")
    /\ LET on == <<Asking(Top, m_previousLayout)>>
       IN  IF listening
           THEN Prepare(Below, Top, "reprepare", Top.layout, on)
           ELSE frames' = Below \o on /\ UNCHANGED <<outputs, shown>>
    /\ UNCHANGED <<controllerVars, screen, saved, backend, server, listening, rdpLayout>>

ReprepareEnds ==
    /\ At("reprepare")
    /\ Replace(Asking(Top, m_previousLayout))
    /\ UNCHANGED <<controllerVars, screen, saved, serverVars>>

(* Mutant: layoutReverted is not connected.                                   *)
RevertSucceedsUntold ==
    /\ Accepted /\ Top.op = "revert"
    /\ m_layout' = m_previousLayout
    /\ trial' = IF trial = "single" THEN "none" ELSE trial
    /\ saved' = IF m_revertTimer THEN saved ELSE m_layout'
    /\ Pop
    /\ UNCHANGED <<m_previousLayout, m_revertTimer, lastKept, screen, serverVars>>

(* The slots of layoutReverted and confirmationChanged give the clients the   *)
(* topology and save the layout, unless a nested handler put one on trial.    *)
RevertSucceeds ==
    /\ Accepted /\ Top.op = "revert"
    /\ m_layout' = m_previousLayout
    /\ trial' = IF trial = "single" THEN "none" ELSE trial
    /\ UpdateLayout(m_layout') \/ RelaunchFails
    /\ saved' = IF m_revertTimer THEN saved ELSE m_layout'
    /\ Pop
    /\ UNCHANGED <<m_previousLayout, m_revertTimer, lastKept, screen, backend, server, outputs,
                   shown>>

RevertFails ==
    /\ Refused /\ Top.op = "revert"
    /\ Pop
    /\ UNCHANGED <<controllerVars, screen, saved, serverVars>>

ConfirmLayout ==
    /\ Dispatches
    /\ Keep
    /\ UNCHANGED <<screen, serverVars, frames>>

-----------------------------------------------------------------------------
(* Start, Stop, ConfigureServer                                              *)

Start ==
    /\ ~listening
    /\ Push(Start0)
    /\ UNCHANGED <<controllerVars, screen, saved, serverVars>>

(* A user's secret cannot be read, or the stock server does not start: there  *)
(* is no krdpserver, the layout has several monitors, the launch fails.       *)
SecretsFail ==
    /\ At("secrets")
    /\ Pop
    /\ UNCHANGED <<controllerVars, screen, saved, serverVars>>

(* EmbeddedRdpBackend::start: stop(), then a new server and all outputs of    *)
(* the layout of this moment.                                                 *)
SecretsRead ==
    /\ At("secrets") /\ backend = "embedded"
    /\ server' = TRUE
    /\ listening' = FALSE
    /\ rdpLayout' = m_layout
    /\ outputs' = [o \in Outputs |-> IF o \in Needs(m_layout) THEN "starting" ELSE "none"]
    /\ shown' = NoLayout
    /\ frames' = Append(Freed(Below, Outputs),
                        [Top EXCEPT !.pc = "outputs", !.layout = m_layout,
                                    !.pending = Needs(m_layout)])
    /\ UNCHANGED <<controllerVars, screen, saved, backend>>

(* ProcessRdpBackend::start waits for the child without dispatching anything. *)
(* A child that already runs (a nested Start) keeps its monitor.              *)
Launched ==
    /\ At("secrets") /\ backend = "process"
    /\ OneMonitor(m_layout)
    /\ listening' = TRUE
    /\ rdpLayout' = IF listening THEN rdpLayout ELSE m_layout
    /\ Replace(Asking(Top, m_layout))
    /\ UNCHANGED <<controllerVars, screen, saved, backend, server, outputs, shown>>

(* The server listens; Start() applies the layout of this moment for good.    *)
Listens ==
    /\ At("outputs") /\ TRUE \in Verdicts(Top)
    /\ server
    /\ listening' = TRUE
    /\ Replace(Asking(Top, m_layout))
    /\ UNCHANGED <<controllerVars, screen, saved, backend, server, rdpLayout, outputs, shown>>

(* The outputs, the listening socket, the audio capture or KScreen fails.     *)
StartFails ==
    /\ \/ At("outputs") /\ FALSE \in Verdicts(Top)
       \/ At("outputs") /\ TRUE \in Verdicts(Top) /\ server
       \/ Refused /\ Top.op = "start"
    /\ StopServer
    /\ frames' = Freed(Below, Outputs)
    /\ UNCHANGED <<controllerVars, screen, saved>>

(* LayoutController::apply(l, false) returns true: the layout read before the *)
(* wait is the current one now, and kept.                                     *)
StartSucceeds ==
    /\ Accepted /\ Top.op = "start"
    /\ m_layout' = Top.layout
    /\ m_previousLayout' = Top.layout
    /\ m_revertTimer' = FALSE
    /\ lastKept' = Top.layout
    /\ trial' = "none"
    /\ saved' = Top.layout
    /\ Pop
    /\ UNCHANGED <<screen, serverVars>>

Stop ==
    /\ Dispatches
    /\ StopServer
    /\ frames' = Freed(frames, Outputs)
    /\ UNCHANGED <<controllerVars, screen, saved>>

(* A running server is stopped and, once the settings are saved, started.     *)
ConfigureServer ==
    /\ Dispatches /\ Len(frames) < MaxDepth
    /\ listening
    /\ StopServer
    /\ frames' = Append(Freed(frames, Outputs), Start0)
    /\ UNCHANGED <<controllerVars, screen, saved>>

(* The child ends by itself; the daemon learns it in an event loop.           *)
ChildExits ==
    /\ backend = "process" /\ listening /\ ~Busy
    /\ listening' = FALSE
    /\ UNCHANGED <<controllerVars, screen, saved, backend, server, rdpLayout, outputs, shown,
                   frames>>

(* The process dies, with its outputs; systemd starts a new one, which adopts *)
(* the stored layout.                                                         *)
Crash ==
    /\ m_layout' = saved /\ m_previousLayout' = saved /\ m_revertTimer' = FALSE
    /\ screen' = NoLayout /\ shown' = NoLayout
    /\ lastKept' = saved /\ trial' = "none"
    /\ server' = FALSE /\ listening' = FALSE
    /\ rdpLayout' = saved
    /\ outputs' = [o \in Outputs |-> "none"]
    /\ frames' = << >>
    /\ UNCHANGED <<saved, backend>>

(* Start() goes on and finds that the server was destroyed: it dereferences a *)
(* null pointer.                                                              *)
Stranded == At("outputs") /\ ~server

StartCrashes ==
    /\ Stranded /\ TRUE \in Verdicts(Top)
    /\ Crash

-----------------------------------------------------------------------------

Continue ==
    \/ PrepareSucceeds \/ PrepareFails \/ GetConfig
    \/ TransactionRefused \/ RestoreEnds \/ TransactionApplied
    \/ TransactionSucceeds \/ ClientRefuses \/ TransactionLosesServer
    \/ Reverting \/ ReprepareEnds \/ RevertSucceeds \/ RevertFails
    \/ SecretsFail \/ SecretsRead \/ Launched \/ Listens \/ StartFails \/ StartSucceeds

Request ==
    \/ \E l \in Layout, temporary, client \in BOOLEAN :
          BeginTransaction(l, temporary, client)
    \/ ConfirmLayout
    \/ Start
    \/ Stop
    \/ ConfigureServer

Next ==
    \/ Request
    \/ BeginRevert
    \/ Continue
    \/ StartCrashes
    \/ \E k \in DOMAIN frames : SetConfig(k)
    \/ \E o \in Outputs, answer \in Answers : OutputAnswers(o, answer)
    \/ ChildExits
    \/ Crash

Spec == Init /\ [][Next]_vars

(* The 10-second timer, the KScreen operations and the keyring end every      *)
(* wait, and an expired revert timer is dispatched.  How a Start() whose      *)
(* server was destroyed goes on depends on freed memory: nothing is assumed.  *)
Fairness == WF_vars(~Stranded /\ Continue) /\ WF_vars(BeginRevert)

FairSpec == Spec /\ Fairness

-----------------------------------------------------------------------------
(* Properties                                                                *)

Idle == frames = << >>

(* Where nothing is on trial and no handler is under way, a running server    *)
(* has given one and the same layout to KScreen, to D-Bus, to the RDP clients *)
(* and to the settings that survive a crash.  Every handler assigns them one  *)
(* by one, with failures in between.  (Where handlers do not overlap, and not *)
(* a statement about outputs that are destroyed later: see below.)            *)
OneLayoutEverywhere ==
    Idle /\ listening /\ trial = "none" =>
        m_layout = lastKept /\ screen = m_layout /\ rdpLayout = m_layout /\ saved = m_layout

(* A running server without a handler under way shows the layout it reports   *)
(* on the outputs it has created for it; what ends that is a transaction or a *)
(* revert that fails, and nothing else: no success, no start, no late answer  *)
(* of KWin.  (ensureVirtualOutputs destroys the outputs of the current layout *)
(* before anyone knows whether the next one will work.)                       *)
ShowsLayout == Idle /\ listening => shown = m_layout

ShownUnlessFailed ==
    [][backend = "embedded" /\ ShowsLayout /\ ~ShowsLayout'
          => PrepareFails \/ TransactionRefused \/ RestoreEnds \/ RevertFails]_vars

(* What is stored is what was last kept, also while a layout is on trial and  *)
(* while handlers are under way: a crash ends a trial as the timer would.     *)
CrashEndsTrial == trial # "chained" => saved = lastKept

(* A transaction that fails at KScreen has the outputs of the layout that     *)
(* stays current created again.                                               *)
RestoreBringsOutputsBack ==
    [][backend = "embedded" /\ listening /\ listening' /\ frames' = << >>
            /\ ((Refused /\ Top.op = "transaction") \/ At("restore"))
          => \A o \in Needs(m_layout') : outputs'[o] # "none"]_vars

(* The service drives LayoutController as its specification allows, whatever  *)
(* handlers overlap: the suspended calls of apply and revert are the frames   *)
(* between their first wait and their return, in the order of the stack.      *)
InController(f) == f.pc \in {"get", "set"} \/ f.op = "revert"

CallOf(f) ==
    [op |-> IF f.op = "revert" THEN "revert" ELSE "apply",
     pc |-> IF f.pc \in {"reverting", "reprepare"} THEN "notify" ELSE "apply",
     layout |-> f.layout,
     confirm |-> f.op = "transaction",
     done |-> f.done]

Inside(fs) == {k \in DOMAIN fs : InController(fs[k])}
Rank(S, k) == Cardinality({j \in S : j <= k})

CallsOf(fs) ==
    [n \in 1 .. Cardinality(Inside(fs)) |->
        CallOf(fs[CHOOSE k \in Inside(fs) : Rank(Inside(fs), k) = n])]

ControllerCalls == CallsOf(frames)

Controller == INSTANCE LayoutController
                WITH ValidLayout <- Layout, Normal <- [l \in Layout |-> l],
                     calls <- ControllerCalls

UsesController == Controller!Spec

(* Once users and clients ask for nothing more, every handler returns and the *)
(* timer has run out or was stopped, although handlers wait for each other,   *)
(* timers fire inside them and outputs never answer.  The exception is a      *)
(* Start() whose server was destroyed while it waited: it may go on into the  *)
(* null pointer, and the handlers below it with it.                           *)
UsersRest == <>[][~Request]_vars
Settles == UsersRest => <>[](Stranded \/ (frames = << >> /\ ~m_revertTimer))

(* docs/architecture.md: "Failure at any stage restores the last working      *)
(* layout."  When a transaction on a running server has failed, the layout    *)
(* that is still reported has its virtual outputs.                            *)
FailureRestoresLayout ==
    [][listening /\ PrepareFails => \A o \in Needs(m_layout') : outputs'[o] # "none"]_vars

(* docs/architecture.md: KHeadless "waits for all streams ... then publishes  *)
(* success".                                                                  *)
SuccessHasAllStreams ==
    [][listening /\ TransactionSucceeds => \A o \in Needs(m_layout') : outputs[o] = "ready"]_vars
=============================================================================

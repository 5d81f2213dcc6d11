----------------------------- MODULE Credentials -----------------------------
(***************************************************************************)
(* The RDP users of kheadlessd: SetPassword, DeleteUser, Start and Stop of *)
(* src/daemon/service.cpp over CredentialStore                             *)
(* (src/core/credentialstore.cpp).                                         *)
(*                                                                         *)
(* A user is kept in three places: a password hash in memory, the same     *)
(* hash in credentials.json, and the plain secret in the desktop keyring,  *)
(* which KRdp needs.  Each can fail on its own, and a keyring job is       *)
(* waited for in a nested event loop, where the daemon dispatches further  *)
(* D-Bus calls: the suspended calls are a stack, and only the innermost    *)
(* can go on.  The keyring carries out the jobs of the daemon one at a     *)
(* time, in the order in which they were started.                          *)
(*                                                                         *)
(* A hash stands for the one password it verifies.  Left out: calls that   *)
(* are refused at once and change nothing (an empty name, a short          *)
(* password, an unknown user, no user at all, no certificate).             *)
(***************************************************************************)
EXTENDS Integers, Sequences, SequencesExt

CONSTANTS
    User, Password,
    None,           \* no hash, no secret
    MaxDepth        \* bound: calls suspended at the same time

ASSUME CredentialsAssumption == None \notin Password /\ MaxDepth \in Nat \ {0}

VARIABLES
    m_hashes,       \* CredentialStore::m_hashes
    file,           \* credentials.json
    keyring,        \* the secrets of the "KRDP" service in the keyring
    server,         \* the users the RDP server lets in; Nobody: it is not running
    frames,         \* the suspended calls, innermost last
    suspect,        \* history: users the file may list without their secret: a
                    \* call about them was under way when the file was written
                    \* or the daemon stopped, or failed to write it, and none
                    \* has succeeded since
    gone            \* history: users deleted by a call that answered true, with
                    \* no SetPassword for them since that call began

vars == <<m_hashes, file, keyring, server, frames, suspect, gone>>

Store == [User -> Password \cup {None}]
Nobody == [u \in User |-> None]
Listed(store) == {u \in User : store[u] # None}

Frame == [op : {"set", "delete", "start"},
          user : User,                      \* the user of the keyring job
          password : Password \cup {None},  \* SetPassword's argument
          job : {"write", "erase", "read"}, \* the keyring job it waits for
          state : {"queued", "done", "failed"},
          todo : SUBSET User,               \* users Start has still to read
          read : Store,                     \* the secrets Start has read
          alone : BOOLEAN]  \* history: delete: no SetPassword for its user has
                            \* begun since; start: no other call has

TypeOK ==
    /\ {m_hashes, file, keyring, server} \subseteq Store
    /\ frames \in Seq(Frame) /\ Len(frames) <= MaxDepth
    /\ \A i, j \in DOMAIN frames :
           i < j /\ frames[i].state = "queued" => frames[j].state = "queued"
    /\ suspect \subseteq User /\ gone \subseteq User

Init ==
    /\ m_hashes = Nobody /\ file = Nobody /\ keyring = Nobody /\ server = Nobody
    /\ frames = <<>> /\ suspect = {} /\ gone = {}

-----------------------------------------------------------------------------
Top == Last(frames)
Outer == Front(frames)

(* The innermost call waits no longer for job j, which ended in state s.     *)
Resumed(j, s) == frames # <<>> /\ Top.job = j /\ Top.state = s

Return == frames' = Outer

(* A call that begins now starts keyring job j for user u.                   *)
Call(o, u, p, j, todo) ==
    /\ Len(frames) < MaxDepth
    /\ frames' =
           Append([i \in DOMAIN frames |->
                      [frames[i] EXCEPT !.alone =
                          /\ @ /\ frames[i].op = "delete"
                          /\ o # "set" \/ frames[i].user # u]],
                  [op |-> o, user |-> u, password |-> p, job |-> j, state |-> "queued",
                   todo |-> todo, read |-> Nobody, alone |-> TRUE])

(* The innermost call starts its next keyring job and waits again.           *)
WaitFor(j, u, todo) ==
    frames' = Append(Outer, [Top EXCEPT !.job = j, !.user = u, !.state = "queued",
                                        !.todo = todo])

Changing(calls) == {calls[i].user : i \in {k \in DOMAIN calls : calls[k].op # "start"}}

(* Mutant: the store is saved before the user is removed from it.            *)
SaveTooEarly(h) ==
    /\ file' = m_hashes
    /\ suspect' = (suspect \ {Top.user}) \cup Changing(Outer)

(* CredentialStore::save(), called by the innermost call, writes the whole   *)
(* store h, with what the suspended calls have put into it.                  *)
Save(h) ==
    /\ file' = h
    /\ suspect' = (suspect \ {Top.user}) \cup Changing(Outer)

(* save() fails; QSaveFile leaves the old file.                              *)
SaveFails ==
    /\ suspect' = suspect \cup {Top.user}
    /\ UNCHANGED file

-----------------------------------------------------------------------------
(* Service::SetPassword(): the hash goes into memory, then the secret to the *)
(* keyring, then the store to the file.                                      *)
SetPassword(u, p) ==
    /\ Call("set", u, p, "write", {})
    /\ m_hashes' = [m_hashes EXCEPT ![u] = p]
    /\ gone' = gone \ {u}
    /\ UNCHANGED <<file, keyring, server, suspect>>

(* The secret is written: save, or, if that fails, erase the secret again.   *)
SecretWritten ==
    /\ Resumed("write", "done")
    /\ \/ Save(m_hashes) /\ Return
       \/ SaveFails /\ WaitFor("erase", Top.user, {})
    /\ UNCHANGED <<m_hashes, keyring, server, gone>>

(* Mutant: SetPassword forgets to take the hash back.                         *)
SecretNotWrittenKeepsUser ==
    /\ Resumed("write", "failed")
    /\ Return
    /\ UNCHANGED <<m_hashes, file, keyring, server, suspect, gone>>

(* The user is removed from memory, also one that existed before.            *)
SecretNotWritten ==
    /\ Resumed("write", "failed")
    /\ m_hashes' = [m_hashes EXCEPT ![Top.user] = None]
    /\ Return
    /\ UNCHANGED <<file, keyring, server, suspect, gone>>

(* After a failed save: whether the secret could be erased is not looked at. *)
PasswordGivenUp ==
    /\ frames # <<>> /\ Top.op = "set" /\ Top.job = "erase" /\ Top.state # "queued"
    /\ m_hashes' = [m_hashes EXCEPT ![Top.user] = None]
    /\ Return
    /\ UNCHANGED <<file, keyring, server, suspect, gone>>

-----------------------------------------------------------------------------
(* Service::DeleteUser(): the secret goes first.                             *)
DeleteUser(u) ==
    /\ u \in Listed(m_hashes)
    /\ Call("delete", u, None, "erase", {})
    /\ UNCHANGED <<m_hashes, file, keyring, server, suspect, gone>>

SecretErased ==
    /\ Resumed("erase", "done") /\ Top.op = "delete"
    /\ m_hashes' = [m_hashes EXCEPT ![Top.user] = None]
    /\ \/ Save(m_hashes') /\ gone' = IF Top.alone THEN gone \cup {Top.user} ELSE gone
       \/ SaveFails /\ UNCHANGED gone
    /\ Return
    /\ UNCHANGED <<keyring, server>>

SecretNotErased ==
    /\ Resumed("erase", "failed") /\ Top.op = "delete"
    /\ Return
    /\ UNCHANGED <<m_hashes, file, keyring, server, suspect, gone>>

-----------------------------------------------------------------------------
(* Service::Start() reads the secret of every user listed when it begins, in *)
(* some order.                                                               *)
Start ==
    /\ server = Nobody
    /\ \E u \in Listed(m_hashes) : Call("start", u, None, "read", Listed(m_hashes) \ {u})
    /\ UNCHANGED <<m_hashes, file, keyring, server, suspect, gone>>

ReadNext ==
    /\ Resumed("read", "done")
    /\ \E u \in Top.todo : WaitFor("read", u, Top.todo \ {u})
    /\ UNCHANGED <<m_hashes, file, keyring, server, suspect, gone>>

(* All secrets are read.  The server, one that a nested Start has begun too, *)
(* is stopped and started with them; it or the outputs may fail.             *)
Started ==
    /\ Resumed("read", "done") /\ Top.todo = {}
    /\ server' \in {Top.read, Nobody}
    /\ Return
    /\ UNCHANGED <<m_hashes, file, keyring, suspect, gone>>

(* Mutant: a user whose secret cannot be read is left out.                    *)
SecretNotReadGoesOn ==
    /\ Resumed("read", "failed")
    /\ IF Top.todo = {}
       THEN server' = Top.read /\ Return
       ELSE UNCHANGED server /\ \E u \in Top.todo : WaitFor("read", u, Top.todo \ {u})
    /\ UNCHANGED <<m_hashes, file, keyring, suspect, gone>>

SecretNotRead ==
    /\ Resumed("read", "failed")
    /\ Return
    /\ UNCHANGED <<m_hashes, file, keyring, server, suspect, gone>>

Stop ==
    /\ server # Nobody /\ server' = Nobody
    /\ UNCHANGED <<m_hashes, file, keyring, frames, suspect, gone>>

-----------------------------------------------------------------------------
(* Mutant: the keyring takes its jobs in any order.                           *)
OldestAny(k) == frames[k].state = "queued"

Oldest(k) == frames[k].state = "queued" /\ \A i \in 1..k-1 : frames[i].state # "queued"

(* The keyring does the job of frame k.  Erasing a secret that is not there  *)
(* counts as done, reading one fails.                                        *)
KeyringDoes(k) ==
    /\ Oldest(k)
    /\ LET f == frames[k]
           found == f.job = "read" => keyring[f.user] # None
       IN  /\ frames' = [frames EXCEPT
                 ![k].state = IF found THEN "done" ELSE "failed",
                 ![k].read = IF f.job = "read" THEN [@ EXCEPT ![f.user] = keyring[f.user]]
                                               ELSE @]
           /\ keyring' = CASE f.job = "write" -> [keyring EXCEPT ![f.user] = f.password]
                           [] f.job = "erase" -> [keyring EXCEPT ![f.user] = None]
                           [] f.job = "read" -> keyring
    /\ UNCHANGED <<m_hashes, file, server, suspect, gone>>

(* Or it refuses: it is locked, or the user closes its dialog.               *)
KeyringRefuses(k) ==
    /\ Oldest(k)
    /\ frames' = [frames EXCEPT ![k].state = "failed"]
    /\ UNCHANGED <<m_hashes, file, keyring, server, suspect, gone>>

(* The daemon stops at any moment and a new process loads the file.          *)
Restart ==
    /\ m_hashes' = file /\ server' = Nobody /\ frames' = <<>>
    /\ suspect' = suspect \cup Changing(frames)
    /\ UNCHANGED <<file, keyring, gone>>

Next ==
    \/ \E u \in User : DeleteUser(u) \/ \E p \in Password : SetPassword(u, p)
    \/ SecretWritten \/ SecretNotWritten \/ PasswordGivenUp
    \/ SecretErased \/ SecretNotErased
    \/ Start \/ ReadNext \/ Started \/ SecretNotRead \/ Stop
    \/ \E k \in DOMAIN frames : KeyringDoes(k) \/ KeyringRefuses(k)
    \/ Restart

Spec == Init /\ [][Next]_vars

-----------------------------------------------------------------------------
(* When no call is under way, the secret in the keyring is the password that *)
(* the hash verifies, for every user the daemon lists; Start, which needs    *)
(* the secrets of all, is stopped by none.  It holds however SetPassword and *)
(* DeleteUser overlap and whichever of their steps fail, because the hash    *)
(* goes into memory before the job is queued and out of it after a failure;  *)
(* only a restart can bring back a user whose secret is another or missing.  *)
EveryUserHasItsSecret ==
    frames = <<>> => \A u \in Listed(m_hashes) \ suspect : keyring[u] = m_hashes[u]

(* A user that DeleteUser has reported deleted is nowhere, neither in memory *)
(* nor on disk nor in the keyring, until SetPassword is called for it: no    *)
(* suspended SetPassword, no later save and no restart brings it back.       *)
DeletedUserIsGone ==
    \A u \in gone : m_hashes[u] = None /\ file[u] = None /\ keyring[u] = None

(* A Start that no other call overlaps goes on with exactly the users who are *)
(* listed, each with the password its hash verifies.  Nothing is said of      *)
(* suspect users, whose secret the code may have lost before, nor of a Start  *)
(* that another call overlaps: it can serve what was true when it read.       *)
StartServesTheUsers ==
    [][server' \notin {server, Nobody} /\ Len(frames) = 1 /\ Top.alone
           => \A u \in User \ suspect : server'[u] = m_hashes[u]]_vars

=============================================================================

-------------------------- MODULE Credentials_proofs --------------------------
(***************************************************************************)
(* Theorems about Credentials, for any users and passwords and any number  *)
(* of calls suspended at the same time.                                    *)
(***************************************************************************)
EXTENDS Credentials, SequenceTheorems, TLAPS

Frames == Seq(Frame)
N == 1..Len(frames)

(* What tells one suspended call from another, its history aside.            *)
Alike(f, g) ==
    /\ f.op = g.op /\ f.user = g.user /\ f.password = g.password
    /\ f.job = g.job /\ f.state = g.state

(* TypeOK, conjunct by conjunct, with the order of the keyring's jobs.       *)
Types ==
    /\ m_hashes \in Store /\ file \in Store /\ keyring \in Store /\ server \in Store
    /\ frames \in Frames /\ Len(frames) <= MaxDepth
    /\ suspect \in SUBSET User /\ gone \in SUBSET User

Fifo ==
    \A i, j \in N : i < j /\ frames[i].state = "queued" => frames[j].state = "queued"

(* SetPassword writes a secret or erases it again, DeleteUser erases, and    *)
(* Start reads.                                                              *)
Form(f) ==
    /\ f.op = "set" => f.job \in {"write", "erase"} /\ f.password \in Password
    /\ f.op = "delete" => f.job = "erase"
    /\ f.op = "start" => f.job = "read"

Forms == \A k \in N : Form(frames[k])

(* The call will yet take the user's hash out of memory.                     *)
Doomed(f, u) ==
    /\ f.user = u
    /\ \/ f.op = "set" /\ (f.job = "erase" \/ f.state = "failed")
       \/ f.op = "delete" /\ f.state = "done"

Writes(f, u) == f.op = "set" /\ f.user = u /\ f.job = "write"

(* The call has changed the user's secret, or given it up.                   *)
Effective(f, u) ==
    /\ f.user = u /\ f.op # "start"
    /\ f.state = "done" \/ (f.op = "set" /\ f.job = "erase")

Pending(k, u) == Writes(frames[k], u) /\ frames[k].state = "queued"

(* The hash of a user goes, or the last secret that is still to be written   *)
(* is its password, or the one in the keyring is.                            *)
HashFollows(u) ==
    \/ m_hashes[u] = None
    \/ \E k \in N : Doomed(frames[k], u)
    \/ \E k \in N : /\ Pending(k, u) /\ \A j \in N : j > k => ~Pending(j, u)
                    /\ m_hashes[u] = frames[k].password
    \/ /\ \A k \in N : ~Pending(k, u)
       /\ \/ keyring[u] = m_hashes[u]
          \/ /\ u \in suspect
             /\ \A k \in N : ~(Writes(frames[k], u) /\ frames[k].state = "done")

HashesFollow == \A u \in User : HashFollows(u)

(* The file follows the keyring, unless the call that changed the secret is  *)
(* still to save.                                                            *)
FileFollow(u) ==
    \/ u \in suspect
    \/ file[u] \in {None, keyring[u]}
    \/ \E k \in N : Effective(frames[k], u)

FileFollows == \A u \in User : FileFollow(u)

(* A SetPassword that takes its secret back has failed to save.              *)
GivenUpIsSuspect ==
    \A k \in N : (frames[k].op = "set" /\ frames[k].job = "erase")
                    => frames[k].user \in suspect

(* Nothing is written behind the job of a DeleteUser that is alone.          *)
DeletesAlone ==
    \A k \in N : (frames[k].op = "delete" /\ frames[k].alone) =>
        /\ \A j \in N : j > k => ~(frames[j].op = "set" /\ frames[j].user = frames[k].user)
        /\ frames[k].state = "done" => keyring[frames[k].user] = None

GoneStays ==
    \A u \in gone :
        /\ m_hashes[u] = None /\ file[u] = None /\ keyring[u] = None
        /\ \A k \in N : ~Pending(k, u)

CredentialsInv ==
    /\ Types /\ Fifo /\ Forms
    /\ HashesFollow /\ FileFollows /\ GivenUpIsSuspect /\ DeletesAlone /\ GoneStays

-----------------------------------------------------------------------------
(* The stack of suspended calls                                              *)

(* What a step does to the stack: a call begins, ends, or goes on.           *)
Pushed(f) ==
    /\ frames' \in Frames /\ Len(frames') = Len(frames) + 1 /\ Len(frames') <= MaxDepth
    /\ frames'[Len(frames) + 1] = f
    /\ \A k \in N : Alike(frames'[k], frames[k])

Popped ==
    /\ frames' \in Frames /\ Len(frames') = Len(frames) - 1
    /\ \A k \in 1..Len(frames) - 1 : frames'[k] = frames[k]

Replaced(k, f) ==
    /\ frames' \in Frames /\ Len(frames') = Len(frames)
    /\ frames'[k] = f
    /\ \A j \in N : j # k => frames'[j] = frames[j]

(* The innermost call.                                                       *)
LEMMA FramesTop ==
    ASSUME frames \in Frames
    PROVE  /\ Len(frames) \in Nat
           /\ \A k \in N : frames[k] \in Frame
           /\ frames # << >> => /\ Len(frames) \in N /\ Top = frames[Len(frames)]
                                /\ Outer \in Frames /\ Len(Outer) = Len(frames) - 1
                                /\ \A k \in 1..Len(frames) - 1 : Outer[k] = frames[k]
<1> DEFINE n == Len(frames)
<1>1. n \in Nat
  BY LenProperties DEF Frames
<1>2. \A k \in 1..n : frames[k] \in Frame
  BY ElementOfSeq DEF Frames
<1>3. ASSUME frames # << >>
      PROVE  /\ n \in 1..n /\ Top = frames[n]
             /\ Outer \in Frames /\ Len(Outer) = n - 1
             /\ \A k \in 1..n - 1 : Outer[k] = frames[k]
  <2>1. n # 0
    BY <1>3, EmptySeq DEF Frames
  <2>2. \A k \in 1..(n - 1) : frames[k] \in Frame
    BY <1>1, <1>2
  <2>3. Top = frames[n]
    BY DEF Top, Last
  <2> HIDE DEF n
  <2>4. n - 1 \in Nat /\ 1 \in Int /\ n - 1 \in Int /\ n \in 1..n
        /\ (1 <= n - 1 => (n - 1) - 1 + 1 = n - 1) /\ (~(1 <= n - 1) => n - 1 = 0)
    BY <2>1, <1>1
  <2>5. /\ SubSeq(frames, 1, n - 1) \in Seq(Frame)
        /\ Len(SubSeq(frames, 1, n - 1)) = n - 1
        /\ \A k \in 1..n - 1 : SubSeq(frames, 1, n - 1)[k] = frames[1 + k - 1]
    BY <2>4, <2>2, SubSeqProperties
  <2>6. \A k \in 1..n - 1 : 1 + k - 1 = k
    BY <2>4
  <2>7. Outer = SubSeq(frames, 1, n - 1)
    BY DEF Outer, Front, n
  <2> QED BY <2>3, <2>4, <2>5, <2>6, <2>7 DEF Frames
<1> QED BY <1>1, <1>2, <1>3 DEF N

(* A call that goes on is replaced, one that ends is taken off.              *)
LEMMA TopSteps ==
    ASSUME frames \in Frames, frames # << >>
    PROVE  /\ Return => Popped
           /\ \A f \in Frame : frames' = Append(Outer, f) => Replaced(Len(frames), f)
<1> DEFINE n == Len(frames)
<1>1. /\ n \in Nat /\ n \in 1..n /\ Outer \in Frames /\ Len(Outer) = n - 1
      /\ \A k \in 1..n - 1 : Outer[k] = frames[k]
  BY FramesTop DEF N
<1>2. ASSUME NEW f \in Frame, frames' = Append(Outer, f)
      PROVE  Replaced(n, f)
  <2>1. /\ frames' \in Frames /\ Len(frames') = (n - 1) + 1
        /\ \A k \in 1..n - 1 : frames'[k] = Outer[k]
        /\ frames'[(n - 1) + 1] = f
    BY <1>1, <1>2, AppendProperties DEF Frames
  <2> HIDE DEF n
  <2>2. (n - 1) + 1 = n /\ \A k \in 1..n : k # n => k \in 1..n - 1
    BY <1>1
  <2>3. \A k \in 1..n : k # n => frames'[k] = frames[k]
    BY <1>1, <2>1, <2>2
  <2>4. frames' \in Frames /\ Len(frames') = n /\ frames'[n] = f
    BY <2>1, <2>2
  <2> QED BY <2>3, <2>4 DEF Replaced, N, n
<1>3. Return => Popped
  BY <1>1 DEF Return, Popped
<1> QED BY <1>2, <1>3

(* The call that begins.                                                     *)
Begun(o, u, p, j, todo) ==
    [op |-> o, user |-> u, password |-> p, job |-> j, state |-> "queued",
     todo |-> todo, read |-> Nobody, alone |-> TRUE]

(* A call that begins is put on top, and those below it may cease to be      *)
(* alone.                                                                    *)
LEMMA CallStep ==
    ASSUME frames \in Frames,
           NEW o \in {"set", "delete", "start"}, NEW u \in User,
           NEW p \in Password \cup {None}, NEW j \in {"write", "erase", "read"},
           NEW todo \in SUBSET User,
           Call(o, u, p, j, todo)
    PROVE  /\ Pushed(Begun(o, u, p, j, todo))
           /\ \A k \in N : frames'[k].alone =>
                 /\ frames[k].alone /\ frames[k].op = "delete"
                 /\ ~(frames[k].op = "delete" /\ o = "set" /\ frames[k].user = u)
<1> DEFINE n == Len(frames)
           f == Begun(o, u, p, j, todo)
           still(k) == /\ frames[k].alone /\ frames[k].op = "delete"
                       /\ o # "set" \/ frames[k].user # u
           below == [k \in DOMAIN frames |-> [frames[k] EXCEPT !.alone = still(k)]]
<1>1. n \in Nat /\ \A k \in 1..n : frames[k] \in Frame
  BY FramesTop DEF N
<1>2. DOMAIN frames = 1..n
  BY LenProperties DEF Frames
<1>3. ASSUME NEW k \in 1..n
      PROVE  /\ still(k) \in BOOLEAN
             /\ still(k) => frames[k].alone /\ frames[k].op = "delete"
             /\ still(k) => ~(frames[k].op = "delete" /\ o = "set" /\ frames[k].user = u)
  OBVIOUS
<1> HIDE DEF still
<1>4. ASSUME NEW k \in 1..n
      PROVE  below[k] = [frames[k] EXCEPT !.alone = still(k)]
  BY <1>2
<1>5. ASSUME NEW k \in 1..n
      PROVE  below[k] \in Frame /\ Alike(below[k], frames[k]) /\ below[k].alone = still(k)
  <2>1. frames[k] \in Frame
    BY <1>1
  <2>2. ASSUME NEW b \in BOOLEAN
        PROVE  /\ [frames[k] EXCEPT !.alone = b] \in Frame
               /\ [frames[k] EXCEPT !.alone = b].alone = b
               /\ Alike([frames[k] EXCEPT !.alone = b], frames[k])
    BY <2>1 DEF Frame, Alike
  <2> HIDE DEF below
  <2> QED BY <1>3, <1>4, <2>2
<1>6. below \in Frames /\ Len(below) = n
  <2>1. \A k \in 1..n : below[k] \in Frame
    BY <1>5
  <2>2. below \in [1..n -> Frame]
    BY <2>1, <1>2
  <2> HIDE DEF below
  <2>3. below \in Seq(Frame)
    BY <2>2, <1>1, IsASeq
  <2> QED BY <2>2, <2>3, <1>1, LenProperties DEF Frames
<1>7. f \in Frame
  BY DEF Frame, Begun, Nobody, Store
<1> HIDE DEF f, below
<1>8. frames' = Append(below, f) /\ n < MaxDepth
  BY DEF Call, below, f, Begun, still
<1>9. /\ frames' \in Frames /\ Len(frames') = n + 1 /\ frames'[n + 1] = f
      /\ \A k \in 1..n : frames'[k] = below[k]
  BY <1>6, <1>7, <1>8, AppendProperties DEF Frames
<1>10. n + 1 <= MaxDepth
  BY <1>1, <1>8, CredentialsAssumption
<1>11. \A k \in 1..n : Alike(frames'[k], frames[k])
  BY <1>5, <1>9
<1>12. \A k \in 1..n : frames'[k].alone => still(k)
  BY <1>5, <1>9
<1> QED BY <1>3, <1>9, <1>10, <1>11, <1>12 DEF Pushed, f, N

(* The keyring ends the job of one call.                                     *)
LEMMA KeyringStep ==
    ASSUME frames \in Frames, keyring \in Store, NEW k \in N, Forms
    PROVE  /\ KeyringRefuses(k) => Replaced(k, [frames[k] EXCEPT !.state = "failed"])
           /\ KeyringDoes(k) =>
                 \E f \in Frame :
                    /\ Replaced(k, f)
                    /\ f.op = frames[k].op /\ f.user = frames[k].user
                    /\ f.password = frames[k].password /\ f.job = frames[k].job
                    /\ f.alone = frames[k].alone
                    /\ f.state # "queued"
                    /\ f.job # "read" => f.state = "done"
<1>1. /\ Len(frames) \in Nat /\ frames[k] \in Frame /\ k \in 1..Len(frames)
  BY FramesTop DEF N
<1>2. DOMAIN frames = 1..Len(frames)
  BY LenProperties DEF Frames
<1>3. ASSUME NEW f \in Frame, frames' = [frames EXCEPT ![k] = f]
      PROVE  Replaced(k, f)
  <2>1. /\ frames' \in Seq(Frame) /\ Len(frames') = Len(frames)
        /\ \A i \in 1..Len(frames) : frames'[i] = IF i = k THEN f ELSE frames[i]
    BY <1>1, <1>3, ExceptSeq DEF Frames
  <2> QED BY <1>1, <2>1 DEF Replaced, Frames, N
<1>4. ASSUME KeyringRefuses(k)
      PROVE  Replaced(k, [frames[k] EXCEPT !.state = "failed"])
  <2>1. [frames[k] EXCEPT !.state = "failed"] \in Frame
    BY <1>1 DEF Frame
  <2>2. frames' = [frames EXCEPT ![k] = [frames[k] EXCEPT !.state = "failed"]]
    BY <1>4 DEF KeyringRefuses
  <2> QED BY <1>3, <2>1, <2>2
<1>5. ASSUME KeyringDoes(k)
      PROVE  \E f \in Frame :
                /\ Replaced(k, f)
                /\ f.op = frames[k].op /\ f.user = frames[k].user
                /\ f.password = frames[k].password /\ f.job = frames[k].job
                /\ f.alone = frames[k].alone
                /\ f.state # "queued"
                /\ f.job # "read" => f.state = "done"
  <2> DEFINE g == frames[k]
             s == IF (g.job = "read" => keyring[g.user] # None) THEN "done" ELSE "failed"
             r == IF g.job = "read" THEN [g.read EXCEPT ![g.user] = keyring[g.user]]
                                    ELSE g.read
             f == [g EXCEPT !.state = s, !.read = r]
  <2>1. s \in {"done", "failed"} /\ (g.job # "read" => s = "done")
    OBVIOUS
  <2>2. r \in Store
    BY <1>1 DEF Frame, Store
  <2> HIDE DEF s, r
  <2>3. /\ f \in Frame /\ f.op = g.op /\ f.user = g.user /\ f.password = g.password
        /\ f.job = g.job /\ f.alone = g.alone /\ f.state = s
    BY <1>1, <2>1, <2>2 DEF Frame
  <2>4. frames' = [frames EXCEPT ![k].state = s, ![k].read = r]
    BY <1>5 DEF KeyringDoes, s, r
  <2>5. frames' = [frames EXCEPT ![k] = f]
    BY <2>4, <1>1, <1>2
  <2>6. Replaced(k, f)
    BY <1>3, <2>3, <2>5
  <2> HIDE DEF f, g
  <2> QED BY <2>1, <2>3, <2>6 DEF g
<1> QED BY <1>4, <1>5

-----------------------------------------------------------------------------
(* What a step leaves alone                                                  *)

(* A user keeps its part of HashesFollow as long as its calls that are still *)
(* to change it stay, and no other SetPassword comes.                        *)
LEMMA HashCarried ==
    ASSUME Types, NEW u \in User, HashFollows(u),
           m_hashes'[u] = m_hashes[u], keyring'[u] = keyring[u],
           u \in suspect => \/ u \in suspect'
                            \/ \E k \in N : Writes(frames[k], u)
                                             /\ frames[k].state = "done",
           \A k \in N : Doomed(frames[k], u) \/ Pending(k, u) =>
               k \in 1..Len(frames') /\ Alike(frames'[k], frames[k]),
           \A k \in 1..Len(frames') : Writes(frames'[k], u) =>
               k \in N /\ Alike(frames'[k], frames[k])
    PROVE  HashFollows(u)'
<1>1. \A k \in 1..Len(frames') : Pending(k, u)' => k \in N /\ Pending(k, u)
  BY DEF Pending, Writes, Alike
<1>2. CASE m_hashes[u] = None
  BY <1>2 DEF HashFollows
<1>3. ASSUME NEW k \in N, Doomed(frames[k], u)
      PROVE  HashFollows(u)'
  <2>1. k \in 1..Len(frames') /\ Doomed(frames'[k], u)
    BY <1>3 DEF Doomed, Alike
  <2> QED BY <2>1 DEF HashFollows, N
<1>4. ASSUME NEW k \in N, Pending(k, u), \A j \in N : j > k => ~Pending(j, u),
             m_hashes[u] = frames[k].password
      PROVE  HashFollows(u)'
  <2>1. /\ k \in 1..Len(frames') /\ Pending(k, u)'
        /\ m_hashes'[u] = frames'[k].password
    BY <1>4 DEF Pending, Writes, Alike
  <2>2. \A j \in 1..Len(frames') : j > k => ~Pending(j, u)'
    BY <1>1, <1>4
  <2> QED BY <2>1, <2>2 DEF HashFollows, N
<1>5. ASSUME \A k \in N : ~Pending(k, u), keyring[u] = m_hashes[u]
      PROVE  HashFollows(u)'
  BY <1>1, <1>5 DEF HashFollows, N
<1>6. ASSUME \A k \in N : ~Pending(k, u), u \in suspect,
             \A k \in N : ~(Writes(frames[k], u) /\ frames[k].state = "done")
      PROVE  HashFollows(u)'
  <2>1. \A k \in 1..Len(frames') : ~(Writes(frames'[k], u) /\ frames'[k].state = "done")
    BY <1>6 DEF Writes, Alike
  <2> QED BY <1>1, <1>6, <2>1 DEF HashFollows, N
<1> QED BY <1>2, <1>3, <1>4, <1>5, <1>6 DEF HashFollows

(* The same for FileFollows.                                                 *)
LEMMA FileCarried ==
    ASSUME Types, NEW u \in User, FileFollow(u),
           file'[u] = file[u], keyring'[u] = keyring[u],
           u \in suspect => u \in suspect',
           \A k \in N : Effective(frames[k], u) =>
               \/ u \in suspect'
               \/ k \in 1..Len(frames') /\ Alike(frames'[k], frames[k])
    PROVE  FileFollow(u)'
<1>1. CASE u \in suspect \/ file[u] \in {None, keyring[u]}
  BY <1>1 DEF FileFollow
<1>2. ASSUME NEW k \in N, Effective(frames[k], u)
      PROVE  FileFollow(u)'
  <2>1. CASE u \in suspect'
    BY <2>1 DEF FileFollow
  <2>2. CASE k \in 1..Len(frames') /\ Alike(frames'[k], frames[k])
    <3>1. k \in 1..Len(frames') /\ Effective(frames'[k], u)
      BY <1>2, <2>2 DEF Effective, Alike
    <3> QED BY <3>1 DEF FileFollow, N
  <2> QED BY <1>2, <2>1, <2>2
<1> QED BY <1>1, <1>2 DEF FileFollow

(* The other conjuncts about the stack, when a call begins ...               *)
LEMMA PushedKeeps ==
    ASSUME CredentialsInv, NEW f \in Frame, Pushed(f), f.state = "queued", Form(f),
           f.job = "erase" => f.op # "set",
           suspect' = suspect, keyring' = keyring,
           \A k \in N : frames'[k].alone =>
              /\ frames[k].alone
              /\ ~(frames[k].op = "delete" /\ f.op = "set" /\ frames[k].user = f.user)
    PROVE  /\ frames' \in Frames /\ Len(frames') <= MaxDepth
           /\ Fifo' /\ Forms' /\ GivenUpIsSuspect' /\ DeletesAlone'
<1>1. /\ Len(frames) \in Nat /\ Len(frames') = Len(frames) + 1
      /\ frames' \in Frames /\ Len(frames') <= MaxDepth
      /\ frames'[Len(frames) + 1] = f
      /\ \A k \in N : Alike(frames'[k], frames[k])
  BY FramesTop DEF CredentialsInv, Types, Pushed
<1>2. \A k \in 1..Len(frames') : k \in N \/ (k = Len(frames) + 1 /\ frames'[k] = f)
  BY <1>1 DEF N
<1>3. Fifo'
  BY <1>1, <1>2 DEF CredentialsInv, Fifo, Alike, N
<1>4. Forms'
  BY <1>1, <1>2 DEF CredentialsInv, Forms, Form, Alike, N
<1>5. GivenUpIsSuspect'
  BY <1>1, <1>2 DEF CredentialsInv, GivenUpIsSuspect, Alike, N
<1>6. DeletesAlone'
  BY <1>1, <1>2 DEF CredentialsInv, DeletesAlone, Alike, N
<1> QED BY <1>1, <1>3, <1>4, <1>5, <1>6

(* ... and when one ends.                                                    *)
LEMMA PoppedKeeps ==
    ASSUME CredentialsInv, frames # << >>, Popped, keyring' = keyring,
           \A k \in 1..Len(frames) - 1 :
               frames[k].op # "start" /\ frames[k].user \in suspect
                  => frames[k].user \in suspect'
    PROVE  /\ frames' \in Frames /\ Len(frames') <= MaxDepth
           /\ Fifo' /\ Forms' /\ GivenUpIsSuspect' /\ DeletesAlone'
<1>1. /\ Len(frames) \in Nat /\ Len(frames') = Len(frames) - 1
      /\ frames' \in Frames /\ Len(frames) <= MaxDepth
      /\ \A k \in 1..Len(frames) - 1 : frames'[k] = frames[k]
  BY FramesTop DEF CredentialsInv, Types, Popped
<1>2. /\ Len(frames') <= MaxDepth
      /\ \A k \in 1..Len(frames') : k \in N /\ k \in 1..Len(frames) - 1
                                    /\ frames'[k] = frames[k]
  BY <1>1, CredentialsAssumption DEF N
<1>3. Fifo'
  BY <1>2 DEF CredentialsInv, Fifo, N
<1>4. Forms'
  BY <1>2 DEF CredentialsInv, Forms, Form, N
<1>5. GivenUpIsSuspect'
  BY <1>2 DEF CredentialsInv, GivenUpIsSuspect, N
<1>6. DeletesAlone'
  <2> SUFFICES ASSUME NEW k \in 1..Len(frames'),
                      frames[k].op = "delete", frames[k].alone
               PROVE  /\ \A j \in 1..Len(frames') : j > k =>
                            ~(frames[j].op = "set" /\ frames[j].user = frames[k].user)
                      /\ frames[k].state = "done" => keyring[frames[k].user] = None
    BY <1>2 DEF DeletesAlone, N
  <2> QED BY <1>2 DEF CredentialsInv, DeletesAlone
<1> QED BY <1>1, <1>2, <1>3, <1>4, <1>5, <1>6

(* A call stays what it is when its job ends, and when it starts the next.   *)
LEMMA ReplacedKeeps ==
    ASSUME CredentialsInv, NEW k \in N, NEW f \in Frame, Replaced(k, f), Form(f),
           f.op = frames[k].op, f.user = frames[k].user \/ f.op = "start",
           f.alone = frames[k].alone,
           \/ f.state = "queued" /\ k = Len(frames)
           \/ f.state # "queued" /\ \A i \in 1..k - 1 : frames[i].state # "queued",
           suspect \subseteq suspect',
           (f.op = "set" /\ f.job = "erase") => f.user \in suspect',
           \A j \in N : (frames'[j].op = "delete" /\ frames'[j].alone
                                                  /\ frames'[j].state = "done")
                            => keyring'[frames'[j].user] = None
    PROVE  /\ frames' \in Frames /\ Len(frames') <= MaxDepth
           /\ Fifo' /\ Forms' /\ GivenUpIsSuspect' /\ DeletesAlone'
<1>1. /\ Len(frames) \in Nat /\ Len(frames') = Len(frames) /\ k \in 1..Len(frames)
      /\ frames' \in Frames /\ Len(frames) <= MaxDepth /\ frames'[k] = f
      /\ \A j \in 1..Len(frames) : j # k => frames'[j] = frames[j]
  BY FramesTop DEF CredentialsInv, Types, Replaced, N
<1>2. \A j \in 1..Len(frames') :
         /\ j \in N /\ frames'[j].op = frames[j].op
         /\ frames'[j].user = frames[j].user \/ frames'[j].op = "start"
         /\ frames'[j].alone = frames[j].alone
  BY <1>1 DEF N
<1>3. Fifo'
  <2> SUFFICES ASSUME NEW i \in 1..Len(frames), NEW j \in 1..Len(frames),
                      i < j, frames'[i].state = "queued"
               PROVE  frames'[j].state = "queued"
    BY <1>1 DEF Fifo, N
  <2>1. CASE i # k /\ j # k
    BY <2>1, <1>1 DEF CredentialsInv, Fifo, N
  <2>2. CASE i = k
    BY <2>2, <1>1
  <2>3. CASE i # k /\ j = k
    BY <2>3, <1>1
  <2> QED BY <2>1, <2>2, <2>3
<1>4. Forms'
  BY <1>1 DEF CredentialsInv, Forms, N
<1>5. GivenUpIsSuspect'
  BY <1>1 DEF CredentialsInv, GivenUpIsSuspect, N
<1>6. DeletesAlone'
  <2> SUFFICES ASSUME NEW i \in 1..Len(frames'),
                      frames'[i].op = "delete", frames'[i].alone
               PROVE  \A j \in 1..Len(frames') : j > i =>
                         ~(frames'[j].op = "set" /\ frames'[j].user = frames'[i].user)
    BY <1>1 DEF DeletesAlone, N
  <2>1. /\ i \in N /\ frames[i].op = "delete" /\ frames[i].alone
        /\ frames'[i].user = frames[i].user
    BY <1>2
  <2>2. \A j \in N : j > i =>
            ~(frames[j].op = "set" /\ frames[j].user = frames[i].user)
    BY <2>1 DEF CredentialsInv, DeletesAlone
  <2> QED BY <1>2, <2>1, <2>2
<1> QED BY <1>1, <1>3, <1>4, <1>5, <1>6

-----------------------------------------------------------------------------
(* Every step keeps the invariant                                            *)

(* Initially nothing is stored and no call is under way.                     *)
LEMMA CredentialsInit == Init => CredentialsInv
<1> SUFFICES ASSUME Init PROVE CredentialsInv
  OBVIOUS
<1>1. frames = << >> /\ Len(frames) = 0 /\ frames \in Frames /\ N = {}
  BY DEF Init, Frames, N
<1>2. Nobody \in Store /\ \A u \in User : Nobody[u] = None
  BY DEF Nobody, Store
<1>3. Types
  BY <1>1, <1>2, CredentialsAssumption DEF Types, Init
<1>4. HashesFollow /\ FileFollows
  BY <1>2 DEF Init, HashesFollow, HashFollows, FileFollows, FileFollow
<1> QED BY <1>1, <1>3, <1>4
        DEF Init, CredentialsInv, Fifo, Forms, GivenUpIsSuspect, DeletesAlone, GoneStays

(* SetPassword begins: the secret it is going to write is the last one of    *)
(* its user.                                                                 *)
LEMMA SetPasswordStep ==
    ASSUME CredentialsInv, NEW u \in User, NEW p \in Password, SetPassword(u, p)
    PROVE  CredentialsInv'
<1> DEFINE f == Begun("set", u, p, "write", {})
<1>1. /\ Types /\ frames \in Frames /\ Len(frames) \in Nat
      /\ m_hashes' = [m_hashes EXCEPT ![u] = p] /\ gone' = gone \ {u}
      /\ UNCHANGED <<file, keyring, server, suspect>>
      /\ Call("set", u, p, "write", {})
  BY FramesTop DEF CredentialsInv, Types, SetPassword
<1>2. /\ f \in Frame /\ f.state = "queued" /\ Form(f)
      /\ f.op = "set" /\ f.user = u /\ f.job = "write" /\ f.password = p
  BY DEF Begun, Frame, Form, Nobody, Store
<1>3. /\ Pushed(f)
      /\ \A k \in N : frames'[k].alone =>
            /\ frames[k].alone
            /\ ~(frames[k].op = "delete" /\ f.op = "set" /\ frames[k].user = f.user)
  BY <1>1, <1>2, CallStep
<1> HIDE DEF f
<1>4. /\ Types' /\ Fifo' /\ Forms' /\ GivenUpIsSuspect' /\ DeletesAlone'
  <2>1. /\ frames' \in Frames /\ Len(frames') <= MaxDepth
        /\ Fifo' /\ Forms' /\ GivenUpIsSuspect' /\ DeletesAlone'
    BY <1>1, <1>2, <1>3, PushedKeeps
  <2>2. m_hashes' \in Store
    BY <1>1 DEF Types, Store
  <2> QED BY <1>1, <2>1, <2>2 DEF Types
<1>5. /\ Len(frames') = Len(frames) + 1 /\ frames'[Len(frames) + 1] = f
      /\ \A k \in N : k \in 1..Len(frames') /\ Alike(frames'[k], frames[k])
      /\ \A k \in 1..Len(frames') : k \in N \/ k = Len(frames) + 1
  BY <1>1, <1>3 DEF Pushed, N
<1>6. HashesFollow'
  <2> SUFFICES ASSUME NEW v \in User PROVE HashFollows(v)'
    BY DEF HashesFollow
  <2>1. CASE v = u
    <3>1. PICK n \in 1..Len(frames') : n = Len(frames) + 1
      BY <1>1, <1>5
    <3>2. Pending(n, u)' /\ m_hashes'[u] = frames'[n].password
      BY <1>1, <1>2, <1>5, <3>1 DEF Pending, Writes, Types, Store
    <3>3. \A j \in 1..Len(frames') : ~(j > n)
      BY <1>1, <1>5, <3>1
    <3> QED BY <2>1, <3>2, <3>3 DEF HashFollows, N
  <2>2. CASE v # u
    <3>1. m_hashes'[v] = m_hashes[v] /\ HashFollows(v)
      BY <1>1, <2>2 DEF Types, Store, CredentialsInv, HashesFollow
    <3>2. \A k \in 1..Len(frames') : Writes(frames'[k], v) => k \in N
      BY <1>2, <1>5, <2>2 DEF Writes
    <3> QED BY <1>1, <1>5, <3>1, <3>2, HashCarried
  <2> QED BY <2>1, <2>2
<1>7. FileFollows'
  <2> SUFFICES ASSUME NEW v \in User PROVE FileFollow(v)'
    BY DEF FileFollows
  <2> QED BY <1>1, <1>5, FileCarried DEF CredentialsInv, FileFollows
<1>8. GoneStays'
  <2> SUFFICES ASSUME NEW v \in gone, v # u
               PROVE  /\ m_hashes'[v] = None /\ file'[v] = None /\ keyring'[v] = None
                      /\ \A k \in 1..Len(frames') : ~Pending(k, v)'
    BY <1>1 DEF GoneStays, N
  <2>1. /\ m_hashes[v] = None /\ file[v] = None /\ keyring[v] = None
        /\ \A k \in N : ~Pending(k, v)
    BY DEF CredentialsInv, GoneStays
  <2>2. \A k \in 1..Len(frames') : ~Pending(k, v)'
    BY <1>2, <1>5, <2>1 DEF Pending, Writes, Alike
  <2> QED BY <1>1, <2>1, <2>2 DEF Types, Store
<1> QED BY <1>4, <1>6, <1>7, <1>8 DEF CredentialsInv

(* The innermost call ends.                                                  *)
LEMMA CallEnds ==
    ASSUME CredentialsInv, frames # << >>, Return
    PROVE  /\ Popped /\ Len(frames) \in N /\ Len(frames) \in Nat
           /\ Top = frames[Len(frames)] /\ Top \in Frame
           /\ \A k \in N : k # Len(frames) => k \in 1..Len(frames')
           /\ \A k \in 1..Len(frames') : /\ k \in N /\ k # Len(frames)
                                         /\ frames'[k] = frames[k]
<1>1. frames \in Frames
  BY DEF CredentialsInv, Types
<1>2. /\ Popped /\ Len(frames) \in N /\ Len(frames) \in Nat
      /\ Top = frames[Len(frames)] /\ Top \in Frame
  BY <1>1, FramesTop, TopSteps
<1> QED BY <1>2 DEF Popped, N

(* The users whose changes are under way.                                    *)
LEMMA ChangingUsers ==
    ASSUME frames \in Frames
    PROVE  /\ Changing(frames) \in SUBSET User
           /\ \A k \in N : frames[k].op # "start" => frames[k].user \in Changing(frames)
           /\ frames # << >> =>
                 /\ Changing(Outer) \in SUBSET User
                 /\ \A k \in N : k # Len(frames) /\ frames[k].op # "start"
                                    => frames[k].user \in Changing(Outer)
<1>1. ASSUME NEW calls \in Frames
      PROVE  /\ Changing(calls) \in SUBSET User
             /\ \A k \in 1..Len(calls) :
                   calls[k].op # "start" => calls[k].user \in Changing(calls)
  <2>1. DOMAIN calls = 1..Len(calls) /\ \A k \in 1..Len(calls) : calls[k] \in Frame
    BY LenProperties, ElementOfSeq DEF Frames
  <2>2. \A k \in 1..Len(calls) : calls[k].user \in User
    BY <2>1 DEF Frame
  <2> QED BY <2>1, <2>2 DEF Changing
<1>2. ASSUME frames # << >>
      PROVE  /\ Len(frames) \in Nat /\ Outer \in Frames /\ Len(Outer) = Len(frames) - 1
             /\ \A k \in 1..Len(frames) - 1 : Outer[k] = frames[k]
  BY <1>2, FramesTop
<1>3. ASSUME frames # << >>
      PROVE  /\ Changing(Outer) \in SUBSET User
             /\ \A k \in N : k # Len(frames) /\ frames[k].op # "start"
                                => frames[k].user \in Changing(Outer)
  <2>1. \A k \in N : k # Len(frames) => k \in 1..Len(Outer) /\ Outer[k] = frames[k]
    BY <1>2, <1>3 DEF N
  <2> QED BY <1>1, <1>2, <1>3, <2>1
<1> QED BY <1>1, <1>3 DEF N

(* What is saved is in the keyring, unless a suspended call is still to see  *)
(* to it.                                                                    *)
LEMMA FileSaved ==
    ASSUME CredentialsInv, frames # << >>, NEW u \in User,
           file'[u] = m_hashes[u], keyring' = keyring,
           suspect' = (suspect \ {Top.user}) \cup Changing(Outer),
           ~Doomed(Top, u), Top.state # "queued",
           u = Top.user => Writes(Top, u) /\ Top.state = "done"
    PROVE  FileFollow(u)'
<1> DEFINE n == Len(frames)
<1>1. n \in N /\ Top = frames[n] /\ frames \in Frames
  BY FramesTop DEF CredentialsInv, Types
<1>2. \A k \in N : k # n /\ frames[k].op # "start" => frames[k].user \in suspect'
  BY <1>1, ChangingUsers
<1> HIDE DEF n
<1>3. HashFollows(u)
  BY DEF CredentialsInv, HashesFollow
<1>4. CASE m_hashes[u] = None
  BY <1>4 DEF FileFollow
<1>5. ASSUME NEW k \in N, Doomed(frames[k], u)
      PROVE  u \in suspect'
  BY <1>1, <1>2, <1>5 DEF Doomed
<1>6. ASSUME NEW k \in N, Pending(k, u)
      PROVE  u \in suspect'
  BY <1>1, <1>2, <1>6 DEF Pending, Writes
<1>7. CASE keyring[u] = m_hashes[u]
  BY <1>7 DEF FileFollow
<1>8. ASSUME u \in suspect, \A k \in N : ~(Writes(frames[k], u) /\ frames[k].state = "done")
      PROVE  u \in suspect'
  BY <1>1, <1>8
<1>9. u \in suspect' => FileFollow(u)'
  BY DEF FileFollow
<1> QED BY <1>3, <1>4, <1>5, <1>6, <1>7, <1>8, <1>9 DEF HashFollows

(* SetPassword goes on, or gives up.                                         *)
LEMMA SecretWrittenSaves ==
    ASSUME CredentialsInv, Resumed("write", "done"), Save(m_hashes), Return,
           UNCHANGED <<m_hashes, keyring, server, gone>>
    PROVE  CredentialsInv'
<1> DEFINE n == Len(frames)
<1>1. /\ frames # << >> /\ Top.job = "write" /\ Top.state = "done"
      /\ file' = m_hashes
      /\ suspect' = (suspect \ {Top.user}) \cup Changing(Outer)
      /\ UNCHANGED <<m_hashes, keyring, server, gone>>
  BY DEF Resumed, Save
<1>2. /\ Popped /\ n \in N /\ n \in Nat /\ Top = frames[n] /\ Top \in Frame
      /\ \A k \in N : k # n => k \in 1..Len(frames')
      /\ \A k \in 1..Len(frames') : k \in N /\ k # n /\ frames'[k] = frames[k]
      /\ \A k \in 1..n - 1 : k \in N /\ k # n
  BY <1>1, CallEnds DEF N
<1> HIDE DEF n
<1>3. Top.op = "set"
  <2>1. Form(Top)
    BY <1>2 DEF CredentialsInv, Forms
  <2> QED BY <1>1, <1>2, <2>1 DEF Form, Frame
<1>4. /\ Changing(Outer) \in SUBSET User
      /\ \A k \in N : k # n /\ frames[k].op # "start" => frames[k].user \in suspect'
  BY <1>1, ChangingUsers DEF CredentialsInv, Types, n
<1>5. Types' /\ Fifo' /\ Forms' /\ GivenUpIsSuspect' /\ DeletesAlone'
  <2>1. /\ frames' \in Frames /\ Len(frames') <= MaxDepth
        /\ Fifo' /\ Forms' /\ GivenUpIsSuspect' /\ DeletesAlone'
    BY <1>1, <1>2, <1>4, PoppedKeeps DEF n
  <2> QED BY <1>1, <1>4, <2>1 DEF CredentialsInv, Types
<1>6. HashesFollow'
  <2> SUFFICES ASSUME NEW v \in User PROVE HashFollows(v)'
    BY DEF HashesFollow
  <2>1. \A k \in N : Doomed(frames[k], v) \/ Pending(k, v) => k # n
    BY <1>1, <1>2, <1>3 DEF Doomed, Pending
  <2>2. \A k \in N : Doomed(frames[k], v) \/ Pending(k, v) =>
            k \in 1..Len(frames') /\ Alike(frames'[k], frames[k])
    BY <1>2, <2>1 DEF Alike
  <2>3. v \in suspect => \/ v \in suspect'
                         \/ \E k \in N : Writes(frames[k], v) /\ frames[k].state = "done"
    BY <1>1, <1>2, <1>3 DEF Writes
  <2>4. \A k \in 1..Len(frames') : Writes(frames'[k], v) =>
            k \in N /\ Alike(frames'[k], frames[k])
    BY <1>2 DEF Alike
  <2> QED BY <1>1, <2>2, <2>3, <2>4, HashCarried DEF CredentialsInv, HashesFollow
<1>7. FileFollows'
  <2> SUFFICES ASSUME NEW v \in User PROVE FileFollow(v)'
    BY DEF FileFollows
  <2> QED BY <1>1, <1>3, FileSaved DEF Doomed, Writes
<1>8. GoneStays'
  BY <1>1, <1>2 DEF CredentialsInv, GoneStays, Pending, N
<1> QED BY <1>5, <1>6, <1>7, <1>8 DEF CredentialsInv

(* The save fails: SetPassword starts to take the secret back, and the user  *)
(* is suspect.                                                               *)
LEMMA SecretWrittenUnsaved ==
    ASSUME CredentialsInv, Resumed("write", "done"), SaveFails,
           WaitFor("erase", Top.user, {}), UNCHANGED <<m_hashes, keyring, server, gone>>
    PROVE  CredentialsInv'
<1> DEFINE n == Len(frames)
           f == [Top EXCEPT !.job = "erase", !.user = Top.user, !.state = "queued",
                            !.todo = {}]
<1>1. /\ frames # << >> /\ Top.job = "write" /\ Top.state = "done"
      /\ suspect' = suspect \cup {Top.user}
      /\ UNCHANGED <<m_hashes, keyring, server, gone, file>>
      /\ frames' = Append(Outer, f)
  BY DEF Resumed, SaveFails, WaitFor
<1>2. frames \in Frames /\ n \in N /\ Top = frames[n] /\ Top \in Frame
  BY <1>1, FramesTop DEF CredentialsInv, Types
<1>3. Top.op = "set" /\ Top.password \in Password
  <2>1. Form(Top)
    BY <1>2 DEF CredentialsInv, Forms
  <2> QED BY <1>1, <1>2, <2>1 DEF Form, Frame
<1>4. /\ f \in Frame /\ f.op = "set" /\ f.user = Top.user /\ f.job = "erase"
      /\ f.state = "queued" /\ f.alone = Top.alone /\ Form(f)
  BY <1>2, <1>3 DEF Frame, Form
<1> HIDE DEF f
<1>5. Replaced(n, f)
  BY <1>1, <1>2, <1>4, TopSteps
<1>6. /\ Len(frames') = n /\ n \in 1..Len(frames') /\ frames'[n] = f
      /\ \A k \in N : k \in 1..Len(frames') /\ (k # n => frames'[k] = frames[k])
      /\ \A k \in 1..Len(frames') : k \in N
  BY <1>2, <1>5 DEF Replaced, N
<1> HIDE DEF n
<1>7. Types' /\ Fifo' /\ Forms' /\ GivenUpIsSuspect' /\ DeletesAlone'
  <2>1. \A j \in N : (frames'[j].op = "delete" /\ frames'[j].alone
                                               /\ frames'[j].state = "done")
                        => keyring'[frames'[j].user] = None
    BY <1>1, <1>4, <1>6 DEF CredentialsInv, DeletesAlone
  <2>2. suspect \subseteq suspect' /\ f.user \in suspect'
    BY <1>1, <1>4
  <2>3. n = Len(frames)
    BY DEF n
  <2>4. f.op = frames[n].op /\ f.user = frames[n].user /\ f.alone = frames[n].alone
    BY <1>2, <1>3, <1>4
  <2>5. /\ frames' \in Frames /\ Len(frames') <= MaxDepth
        /\ Fifo' /\ Forms' /\ GivenUpIsSuspect' /\ DeletesAlone'
    BY <1>2, <1>4, <1>5, <2>1, <2>2, <2>3, <2>4, ReplacedKeeps
  <2>6. Top.user \in User
    BY <1>2 DEF Frame
  <2> QED BY <1>1, <2>5, <2>6 DEF CredentialsInv, Types
<1>8. HashesFollow'
  <2> SUFFICES ASSUME NEW v \in User PROVE HashFollows(v)'
    BY DEF HashesFollow
  <2>1. CASE v = Top.user
    <3>1. Doomed(frames'[n], v)
      BY <1>4, <1>6, <2>1 DEF Doomed
    <3> QED BY <1>6, <3>1 DEF HashFollows, N
  <2>2. CASE v # Top.user
    <3>1. \A k \in N : Doomed(frames[k], v) \/ Pending(k, v) => k # n
      BY <1>2, <2>2 DEF Doomed, Pending, Writes
    <3>2. \A k \in N : Doomed(frames[k], v) \/ Pending(k, v) =>
              k \in 1..Len(frames') /\ Alike(frames'[k], frames[k])
      BY <1>6, <3>1 DEF Alike
    <3>3. \A k \in 1..Len(frames') : Writes(frames'[k], v) =>
              k \in N /\ Alike(frames'[k], frames[k])
      BY <1>4, <1>6, <2>2 DEF Writes, Alike
    <3> QED BY <1>1, <3>2, <3>3, HashCarried DEF CredentialsInv, HashesFollow
  <2> QED BY <2>1, <2>2
<1>9. FileFollows'
  <2> SUFFICES ASSUME NEW v \in User PROVE FileFollow(v)'
    BY DEF FileFollows
  <2>1. \A k \in N : Effective(frames[k], v) =>
            \/ v \in suspect'
            \/ k \in 1..Len(frames') /\ Alike(frames'[k], frames[k])
    BY <1>1, <1>2, <1>6 DEF Effective, Alike
  <2> QED BY <1>1, <2>1, FileCarried DEF CredentialsInv, FileFollows
<1>10. GoneStays'
  BY <1>1, <1>4, <1>6 DEF CredentialsInv, GoneStays, Pending, Writes, N
<1> QED BY <1>7, <1>8, <1>9, <1>10 DEF CredentialsInv

(* The hash is taken out of memory, and the call ends.                       *)
LEMMA HashTakenBack ==
    ASSUME CredentialsInv, frames # << >>, Return,
           Top.op = "set", Top.state # "queued",
           (Top.job = "erase" \/ Top.state = "done") => Top.user \in suspect,
           m_hashes' = [m_hashes EXCEPT ![Top.user] = None],
           UNCHANGED <<file, keyring, server, suspect, gone>>
    PROVE  CredentialsInv'
<1> DEFINE n == Len(frames)
<1>1. /\ Popped /\ n \in N /\ n \in Nat /\ Top = frames[n] /\ Top \in Frame
      /\ \A k \in N : k # n => k \in 1..Len(frames')
      /\ \A k \in 1..Len(frames') : k \in N /\ k # n /\ frames'[k] = frames[k]
  BY CallEnds
<1> HIDE DEF n
<1>2. Types' /\ Fifo' /\ Forms' /\ GivenUpIsSuspect' /\ DeletesAlone'
  <2>1. /\ frames' \in Frames /\ Len(frames') <= MaxDepth
        /\ Fifo' /\ Forms' /\ GivenUpIsSuspect' /\ DeletesAlone'
    BY <1>1, PoppedKeeps
  <2>2. m_hashes' \in Store
    BY DEF CredentialsInv, Types, Store
  <2> QED BY <2>1, <2>2 DEF CredentialsInv, Types
<1>3. Top.user \in User /\ m_hashes'[Top.user] = None
      /\ \A v \in User : v # Top.user => m_hashes'[v] = m_hashes[v]
  BY <1>1 DEF Frame, CredentialsInv, Types, Store
<1>4. HashesFollow'
  <2> SUFFICES ASSUME NEW v \in User, v # Top.user PROVE HashFollows(v)'
    BY <1>3 DEF HashesFollow, HashFollows
  <2>1. \A k \in N : Doomed(frames[k], v) \/ Pending(k, v) =>
            k \in 1..Len(frames') /\ Alike(frames'[k], frames[k])
    BY <1>1 DEF Doomed, Pending, Writes, Alike
  <2>2. \A k \in 1..Len(frames') : Writes(frames'[k], v) =>
            k \in N /\ Alike(frames'[k], frames[k])
    BY <1>1 DEF Alike
  <2> QED BY <1>3, <2>1, <2>2, HashCarried DEF CredentialsInv, HashesFollow
<1>5. FileFollows'
  <2> SUFFICES ASSUME NEW v \in User PROVE FileFollow(v)'
    BY DEF FileFollows
  <2>1. \A k \in N : Effective(frames[k], v) =>
            \/ v \in suspect'
            \/ k \in 1..Len(frames') /\ Alike(frames'[k], frames[k])
    BY <1>1 DEF Effective, Alike
  <2> QED BY <2>1, FileCarried DEF CredentialsInv, FileFollows
<1>6. GoneStays'
  BY <1>1, <1>3 DEF CredentialsInv, GoneStays, Pending, N, Types
<1> QED BY <1>2, <1>4, <1>5, <1>6 DEF CredentialsInv

(* A DeleteUser that has failed and a Start end without a trace in the       *)
(* stores.                                                                   *)
LEMMA QuietReturn ==
    ASSUME CredentialsInv, frames # << >>, Return, server' \in Store,
           Top.op = "start" \/ (Top.op = "delete" /\ Top.state = "failed"),
           UNCHANGED <<m_hashes, file, keyring, suspect, gone>>
    PROVE  CredentialsInv'
<1> DEFINE n == Len(frames)
<1>1. /\ Popped /\ n \in N /\ n \in Nat /\ Top = frames[n] /\ Top \in Frame
      /\ \A k \in N : k # n => k \in 1..Len(frames')
      /\ \A k \in 1..Len(frames') : k \in N /\ k # n /\ frames'[k] = frames[k]
  BY CallEnds
<1> HIDE DEF n
<1>2. Types' /\ Fifo' /\ Forms' /\ GivenUpIsSuspect' /\ DeletesAlone'
  <2>1. /\ frames' \in Frames /\ Len(frames') <= MaxDepth
        /\ Fifo' /\ Forms' /\ GivenUpIsSuspect' /\ DeletesAlone'
    BY <1>1, PoppedKeeps
  <2> QED BY <2>1 DEF CredentialsInv, Types
<1>3. \A k \in N, v \in User :
         Doomed(frames[k], v) \/ Pending(k, v) \/ Effective(frames[k], v) => k # n
  BY <1>1 DEF Doomed, Pending, Writes, Effective
<1>4. HashesFollow'
  <2> SUFFICES ASSUME NEW v \in User PROVE HashFollows(v)'
    BY DEF HashesFollow
  <2>1. \A k \in N : Doomed(frames[k], v) \/ Pending(k, v) =>
            k \in 1..Len(frames') /\ Alike(frames'[k], frames[k])
    BY <1>1, <1>3 DEF Alike
  <2>2. \A k \in 1..Len(frames') : Writes(frames'[k], v) =>
            k \in N /\ Alike(frames'[k], frames[k])
    BY <1>1 DEF Alike
  <2> QED BY <2>1, <2>2, HashCarried DEF CredentialsInv, HashesFollow
<1>5. FileFollows'
  <2> SUFFICES ASSUME NEW v \in User PROVE FileFollow(v)'
    BY DEF FileFollows
  <2>1. \A k \in N : Effective(frames[k], v) =>
            k \in 1..Len(frames') /\ Alike(frames'[k], frames[k])
    BY <1>1, <1>3 DEF Alike
  <2> QED BY <2>1, FileCarried DEF CredentialsInv, FileFollows
<1>6. GoneStays'
  BY <1>1 DEF CredentialsInv, GoneStays, Pending, N
<1> QED BY <1>2, <1>4, <1>5, <1>6 DEF CredentialsInv

(* DeleteUser has erased the secret: the hash goes, from memory and, unless  *)
(* the save fails, from the file.                                            *)
LEMMA SecretErasedStep ==
    ASSUME CredentialsInv, SecretErased
    PROVE  CredentialsInv'
<1> DEFINE n == Len(frames)
<1>1. /\ frames # << >> /\ Return /\ Top.op = "delete"
      /\ Top.job = "erase" /\ Top.state = "done"
      /\ m_hashes' = [m_hashes EXCEPT ![Top.user] = None]
      /\ UNCHANGED <<keyring, server>>
      /\ \/ /\ Save(m_hashes')
            /\ gone' = IF Top.alone THEN gone \cup {Top.user} ELSE gone
         \/ SaveFails /\ UNCHANGED gone
  BY DEF SecretErased, Resumed
<1>2. /\ Popped /\ n \in N /\ n \in Nat /\ Top = frames[n] /\ Top \in Frame
      /\ \A k \in N : k # n => k \in 1..Len(frames')
      /\ \A k \in 1..Len(frames') : k \in N /\ k # n /\ frames'[k] = frames[k]
      /\ \A k \in 1..n - 1 : k \in N /\ k # n
  BY <1>1, CallEnds DEF N
<1>3. /\ Changing(Outer) \in SUBSET User
      /\ \A k \in N : k # n /\ frames[k].op # "start" => frames[k].user \in Changing(Outer)
  BY <1>1, ChangingUsers DEF CredentialsInv, Types
<1> HIDE DEF n
<1>4. Top.user \in User /\ m_hashes' \in Store /\ m_hashes'[Top.user] = None
      /\ \A v \in User : v # Top.user => m_hashes'[v] = m_hashes[v]
  BY <1>1, <1>2 DEF Frame, CredentialsInv, Types, Store
<1>5. /\ suspect' \in SUBSET User /\ file' \in Store /\ gone' \in SUBSET User
      /\ \A v \in suspect : v # Top.user => v \in suspect'
      /\ \A k \in N : k # n /\ frames[k].op # "start" /\ frames[k].user \in suspect
                        => frames[k].user \in suspect'
  <2>1. CASE Save(m_hashes') /\ gone' = IF Top.alone THEN gone \cup {Top.user} ELSE gone
    BY <1>3, <1>4, <2>1 DEF Save, CredentialsInv, Types
  <2>2. CASE SaveFails /\ UNCHANGED gone
    BY <1>4, <2>2 DEF SaveFails, CredentialsInv, Types
  <2> QED BY <1>1, <2>1, <2>2
<1>6. Types' /\ Fifo' /\ Forms' /\ GivenUpIsSuspect' /\ DeletesAlone'
  <2>1. n = Len(frames)
    BY DEF n
  <2>2. /\ frames' \in Frames /\ Len(frames') <= MaxDepth
        /\ Fifo' /\ Forms' /\ GivenUpIsSuspect' /\ DeletesAlone'
    BY <1>1, <1>2, <1>5, <2>1, PoppedKeeps
  <2> QED BY <1>1, <1>4, <1>5, <2>2 DEF CredentialsInv, Types
<1>7. \A k \in N, v \in User : (Doomed(frames[k], v) \/ Pending(k, v)) /\ v # Top.user
                                   => k # n
  BY <1>2 DEF Doomed, Pending, Writes
<1>8. HashesFollow'
  <2> SUFFICES ASSUME NEW v \in User, v # Top.user PROVE HashFollows(v)'
    BY <1>4 DEF HashesFollow, HashFollows
  <2>1. \A k \in N : Doomed(frames[k], v) \/ Pending(k, v) =>
            k \in 1..Len(frames') /\ Alike(frames'[k], frames[k])
    BY <1>2, <1>7 DEF Alike
  <2>2. \A k \in 1..Len(frames') : Writes(frames'[k], v) =>
            k \in N /\ Alike(frames'[k], frames[k])
    BY <1>2 DEF Alike
  <2> QED BY <1>1, <1>4, <1>5, <2>1, <2>2, HashCarried DEF CredentialsInv, HashesFollow
<1>9. FileFollows'
  <2> SUFFICES ASSUME NEW v \in User PROVE FileFollow(v)'
    BY DEF FileFollows
  <2>1. CASE Save(m_hashes') /\ v = Top.user
    BY <1>4, <2>1 DEF Save, FileFollow
  <2>2. CASE Save(m_hashes') /\ v # Top.user
    <3>1. file'[v] = m_hashes[v]
      BY <1>4, <2>2 DEF Save
    <3>2. suspect' = (suspect \ {Top.user}) \cup Changing(Outer)
      BY <2>2 DEF Save
    <3> QED BY <1>1, <2>2, <3>1, <3>2, FileSaved DEF Doomed
  <2>3. CASE SaveFails
    <3>1. file' = file /\ Top.user \in suspect' /\ suspect \subseteq suspect'
      BY <2>3 DEF SaveFails
    <3>2. \A k \in N : Effective(frames[k], v) =>
              \/ v \in suspect'
              \/ k \in 1..Len(frames') /\ Alike(frames'[k], frames[k])
      BY <1>2, <3>1 DEF Effective, Alike
    <3> QED BY <1>1, <3>1, <3>2, FileCarried DEF CredentialsInv, FileFollows
  <2> QED BY <1>1, <2>1, <2>2, <2>3
<1>10. GoneStays'
  <2>1. ASSUME NEW v \in gone
        PROVE  /\ m_hashes'[v] = None /\ file'[v] = None /\ keyring'[v] = None
               /\ \A k \in 1..Len(frames') : ~Pending(k, v)'
    <3>1. /\ v \in User /\ m_hashes[v] = None /\ file[v] = None /\ keyring[v] = None
          /\ \A k \in N : ~Pending(k, v)
      BY DEF CredentialsInv, GoneStays, Types
    <3>2. m_hashes'[v] = None
      BY <1>4, <3>1
    <3>3. file'[v] = None
      BY <1>1, <3>1, <3>2 DEF Save, SaveFails
    <3>4. \A k \in 1..Len(frames') : ~Pending(k, v)'
      BY <1>2, <3>1 DEF Pending
    <3> QED BY <1>1, <3>1, <3>2, <3>3, <3>4
  <2>2. ASSUME Save(m_hashes'), Top.alone
        PROVE  LET v == Top.user IN
               /\ m_hashes'[v] = None /\ file'[v] = None /\ keyring'[v] = None
               /\ \A k \in 1..Len(frames') : ~(Writes(frames'[k], v)
                                               /\ frames'[k].state = "queued")
    <3>1. keyring[Top.user] = None
      BY <1>1, <1>2, <2>2 DEF CredentialsInv, DeletesAlone
    <3>2. \A k \in N : frames[k].state # "queued"
      <4> SUFFICES ASSUME NEW k \in N, k # n PROVE frames[k].state # "queued"
        BY <1>1, <1>2
      <4>1. k < n
        BY <1>2 DEF N, n
      <4> QED BY <1>1, <1>2, <4>1 DEF CredentialsInv, Fifo
    <3>3. file'[Top.user] = None
      BY <1>4, <2>2 DEF Save
    <3> QED BY <1>1, <1>2, <1>4, <3>1, <3>2, <3>3
  <2>3. \A v \in gone' : v \in gone \/ (v = Top.user /\ Top.alone /\ Save(m_hashes'))
    BY <1>1
  <2> QED BY <2>1, <2>2, <2>3 DEF GoneStays, Pending, N
<1> QED BY <1>6, <1>8, <1>9, <1>10 DEF CredentialsInv

(* DeleteUser and Start begin without touching the stores.                   *)
LEMMA QuietCall ==
    ASSUME CredentialsInv, NEW u \in User, NEW todo \in SUBSET User,
           NEW o \in {"delete", "start"}, NEW j \in {"erase", "read"},
           (o = "delete" /\ j = "erase") \/ (o = "start" /\ j = "read"),
           Call(o, u, None, j, todo),
           UNCHANGED <<m_hashes, file, keyring, server, suspect, gone>>
    PROVE  CredentialsInv'
<1> DEFINE f == Begun(o, u, None, j, todo)
<1>1. frames \in Frames /\ Len(frames) \in Nat
  BY FramesTop DEF CredentialsInv, Types
<1>2. /\ f \in Frame /\ f.state = "queued" /\ Form(f)
      /\ f.op = o /\ f.op # "set" /\ f.user = u /\ f.job = j
  BY DEF Begun, Frame, Form, Nobody, Store
<1>3. /\ Pushed(f)
      /\ \A k \in N : frames'[k].alone =>
            /\ frames[k].alone
            /\ ~(frames[k].op = "delete" /\ o = "set" /\ frames[k].user = u)
  BY <1>1, CallStep
<1> HIDE DEF f
<1>4. Types' /\ Fifo' /\ Forms' /\ GivenUpIsSuspect' /\ DeletesAlone'
  <2>1. /\ frames' \in Frames /\ Len(frames') <= MaxDepth
        /\ Fifo' /\ Forms' /\ GivenUpIsSuspect' /\ DeletesAlone'
    BY <1>1, <1>2, <1>3, PushedKeeps
  <2> QED BY <2>1 DEF CredentialsInv, Types
<1>5. /\ \A k \in N : k \in 1..Len(frames') /\ Alike(frames'[k], frames[k])
      /\ \A k \in 1..Len(frames') : k \in N \/ frames'[k] = f
  BY <1>1, <1>3 DEF Pushed, N
<1>6. HashesFollow'
  <2> SUFFICES ASSUME NEW v \in User PROVE HashFollows(v)'
    BY DEF HashesFollow
  <2>1. \A k \in 1..Len(frames') : Writes(frames'[k], v) =>
            k \in N /\ Alike(frames'[k], frames[k])
    BY <1>2, <1>5 DEF Writes
  <2> QED BY <1>5, <2>1, HashCarried DEF CredentialsInv, HashesFollow
<1>7. FileFollows'
  <2> SUFFICES ASSUME NEW v \in User PROVE FileFollow(v)'
    BY DEF FileFollows
  <2> QED BY <1>5, FileCarried DEF CredentialsInv, FileFollows
<1>8. GoneStays'
  <2>1. \A k \in 1..Len(frames'), v \in User : Pending(k, v)' => k \in N /\ Pending(k, v)
    BY <1>2, <1>5 DEF Pending, Writes, Alike
  <2> QED BY <2>1 DEF CredentialsInv, Types, GoneStays, N
<1> QED BY <1>4, <1>6, <1>7, <1>8 DEF CredentialsInv

(* Start goes on with the next user.                                         *)
LEMMA ReadNextStep ==
    ASSUME CredentialsInv, ReadNext
    PROVE  CredentialsInv'
<1> DEFINE n == Len(frames)
<1>1. /\ frames # << >> /\ Top.job = "read"
      /\ UNCHANGED <<m_hashes, file, keyring, server, suspect, gone>>
  BY DEF ReadNext, Resumed
<1>2. frames \in Frames /\ n \in N /\ Top = frames[n] /\ Top \in Frame
  BY <1>1, FramesTop DEF CredentialsInv, Types
<1>3. Top.op = "start"
  <2>1. Form(Top)
    BY <1>2 DEF CredentialsInv, Forms
  <2> QED BY <1>1, <1>2, <2>1 DEF Form, Frame
<1>4. PICK u \in Top.todo : WaitFor("read", u, Top.todo \ {u})
  BY DEF ReadNext
<1> DEFINE f == [Top EXCEPT !.job = "read", !.user = u, !.state = "queued",
                            !.todo = Top.todo \ {u}]
<1>5. /\ f \in Frame /\ f.op = "start" /\ f.job = "read" /\ f.state = "queued"
      /\ f.alone = Top.alone /\ Form(f)
  BY <1>2, <1>3 DEF Frame, Form
<1>6. frames' = Append(Outer, f)
  BY <1>4 DEF WaitFor
<1> HIDE DEF f
<1>7. Replaced(n, f)
  BY <1>1, <1>2, <1>5, <1>6, TopSteps
<1>8. /\ Len(frames') = n /\ n \in 1..Len(frames') /\ frames'[n] = f
      /\ \A k \in N : k \in 1..Len(frames') /\ (k # n => frames'[k] = frames[k])
      /\ \A k \in 1..Len(frames') : k \in N
  BY <1>2, <1>7 DEF Replaced, N
<1>9. n = Len(frames)
  OBVIOUS
<1> HIDE DEF n
<1>10. Types' /\ Fifo' /\ Forms' /\ GivenUpIsSuspect' /\ DeletesAlone'
  <2>1. \A j \in N : (frames'[j].op = "delete" /\ frames'[j].alone
                                               /\ frames'[j].state = "done")
                        => keyring'[frames'[j].user] = None
    BY <1>1, <1>5, <1>8 DEF CredentialsInv, DeletesAlone
  <2>2. f.op = frames[n].op /\ f.alone = frames[n].alone /\ f.op # "set"
    BY <1>2, <1>3, <1>5
  <2>3. /\ frames' \in Frames /\ Len(frames') <= MaxDepth
        /\ Fifo' /\ Forms' /\ GivenUpIsSuspect' /\ DeletesAlone'
    BY <1>1, <1>2, <1>5, <1>7, <1>9, <2>1, <2>2, ReplacedKeeps
  <2> QED BY <1>1, <2>3 DEF CredentialsInv, Types
<1>11. /\ \A k \in N, v \in User :
             Doomed(frames[k], v) \/ Pending(k, v) \/ Effective(frames[k], v) => k # n
       /\ \A k \in 1..Len(frames'), v \in User : Writes(frames'[k], v) => k # n
  BY <1>2, <1>3, <1>5, <1>8 DEF Doomed, Pending, Writes, Effective
<1>12. HashesFollow'
  <2> SUFFICES ASSUME NEW v \in User PROVE HashFollows(v)'
    BY DEF HashesFollow
  <2>1. \A k \in N : Doomed(frames[k], v) \/ Pending(k, v) =>
            k \in 1..Len(frames') /\ Alike(frames'[k], frames[k])
    BY <1>8, <1>11 DEF Alike
  <2>2. \A k \in 1..Len(frames') : Writes(frames'[k], v) =>
            k \in N /\ Alike(frames'[k], frames[k])
    BY <1>8, <1>11 DEF Alike
  <2> QED BY <1>1, <2>1, <2>2, HashCarried DEF CredentialsInv, HashesFollow
<1>13. FileFollows'
  <2> SUFFICES ASSUME NEW v \in User PROVE FileFollow(v)'
    BY DEF FileFollows
  <2>1. \A k \in N : Effective(frames[k], v) =>
            k \in 1..Len(frames') /\ Alike(frames'[k], frames[k])
    BY <1>8, <1>11 DEF Alike
  <2> QED BY <1>1, <2>1, FileCarried DEF CredentialsInv, FileFollows
<1>14. GoneStays'
  BY <1>1, <1>8, <1>11 DEF CredentialsInv, Types, GoneStays, Pending, N
<1> QED BY <1>10, <1>12, <1>13, <1>14 DEF CredentialsInv

(* The keyring ends the oldest job, done or refused: what both have in       *)
(* common.                                                                   *)
LEMMA JobEnds ==
    ASSUME CredentialsInv, NEW k \in N, NEW f \in Frame, Oldest(k), Replaced(k, f),
           f.op = frames[k].op, f.user = frames[k].user,
           f.password = frames[k].password, f.job = frames[k].job,
           f.alone = frames[k].alone, f.state \in {"done", "failed"},
           keyring' \in Store,
           \A v \in User : v # f.user => keyring'[v] = keyring[v],
           f.state = "failed" \/ f.job = "read" => keyring' = keyring,
           f.state = "done" /\ f.job = "erase" => keyring'[f.user] = None,
           f.state = "done" /\ f.job = "write" => keyring'[f.user] = f.password,
           UNCHANGED <<m_hashes, file, server, suspect, gone>>
    PROVE  CredentialsInv'
<1> DEFINE g == frames[k]
<1>1. /\ k \in 1..Len(frames) /\ Len(frames) \in Nat /\ g \in Frame
      /\ g.state = "queued" /\ \A i \in 1..k - 1 : frames[i].state # "queued"
      /\ Len(frames') = Len(frames) /\ frames'[k] = f
      /\ \A j \in N : j \in 1..Len(frames') /\ (j # k => frames'[j] = frames[j])
      /\ \A j \in 1..Len(frames') : j \in N
      /\ f.user \in User
  BY FramesTop DEF CredentialsInv, Types, Oldest, Replaced, N, Frame
<1>2. Form(g) /\ Form(f)
  BY DEF CredentialsInv, Forms, Form
<1>3. \A j \in N : j # k /\ frames[j].state = "queued" => j > k
  BY <1>1 DEF N
<1> HIDE DEF g
<1>4. Types' /\ Fifo' /\ Forms' /\ GivenUpIsSuspect' /\ DeletesAlone'
  <2>1. ASSUME NEW j \in N, frames'[j].op = "delete", frames'[j].alone,
               frames'[j].state = "done"
        PROVE  keyring'[frames'[j].user] = None
    <3>1. CASE j = k
      BY <1>1, <1>2, <2>1, <3>1 DEF Form
    <3>2. CASE j # k
      <4>1. /\ frames'[j] = frames[j] /\ keyring[frames[j].user] = None
            /\ \A i \in N : i > j =>
                  ~(frames[i].op = "set" /\ frames[i].user = frames[j].user)
        BY <1>1, <2>1, <3>2 DEF CredentialsInv, DeletesAlone
      <4>2. j < k
        <5>1. ~(k < j)
          BY <1>1, <2>1, <4>1 DEF CredentialsInv, Fifo, g
        <5> QED BY <1>1, <3>2, <5>1 DEF N
      <4>3. ~(f.op = "set" /\ f.user = frames[j].user)
        BY <4>1, <4>2
      <4>4. frames[j].user \in User
        BY <1>1, FramesTop DEF CredentialsInv, Types, Frame
      <4>5. CASE frames[j].user # f.user
        BY <4>1, <4>4, <4>5
      <4>6. CASE frames[j].user = f.user /\ f.job # "write"
        <5>1. f.job \in {"erase", "read"}
          BY <4>6 DEF Frame
        <5> QED BY <4>1, <4>6, <5>1
      <4>7. f.job = "write" => f.op = "set"
        BY <1>2 DEF Form, Frame
      <4> QED BY <4>3, <4>5, <4>6, <4>7
    <3> QED BY <3>1, <3>2
  <2>2. (f.op = "set" /\ f.job = "erase") => f.user \in suspect'
    BY DEF CredentialsInv, GivenUpIsSuspect
  <2>3. f.state # "queued" /\ suspect \subseteq suspect'
    OBVIOUS
  <2>4. /\ frames' \in Frames /\ Len(frames') <= MaxDepth
        /\ Fifo' /\ Forms' /\ GivenUpIsSuspect' /\ DeletesAlone'
    BY <1>1, <1>2, <2>1, <2>2, <2>3, ReplacedKeeps
  <2> QED BY <2>4 DEF CredentialsInv, Types
<1>5. HashesFollow'
  <2> SUFFICES ASSUME NEW v \in User PROVE HashFollows(v)'
    BY DEF HashesFollow
  <2>1. CASE v # f.user
    <3>1. \A j \in N : Doomed(frames[j], v) \/ Pending(j, v) =>
              j \in 1..Len(frames') /\ Alike(frames'[j], frames[j])
      BY <1>1, <2>1 DEF Doomed, Pending, Writes, Alike
    <3>2. \A j \in 1..Len(frames') : Writes(frames'[j], v) =>
              j \in N /\ Alike(frames'[j], frames[j])
      BY <1>1, <2>1 DEF Writes, Alike
    <3> QED BY <2>1, <3>1, <3>2, HashCarried DEF CredentialsInv, HashesFollow
  <2>2. CASE v = f.user
    <3>1. HashFollows(v) /\ m_hashes'[v] = m_hashes[v]
      BY DEF CredentialsInv, HashesFollow
    <3>2. CASE m_hashes[v] = None
      BY <3>1, <3>2 DEF HashFollows
    <3>3. ASSUME NEW j \in 1..Len(frames'), Doomed(frames'[j], v)
          PROVE  HashFollows(v)'
      BY <3>3 DEF HashFollows, N
    <3>4. ASSUME NEW j \in N, Doomed(frames[j], v)
          PROVE  HashFollows(v)'
      <4>1. j \in 1..Len(frames') /\ Doomed(frames'[j], v)
        BY <1>1, <3>4 DEF Doomed, g
      <4> QED BY <3>3, <4>1
    <3>5. ASSUME NEW j \in N, Pending(j, v), \A i \in N : i > j => ~Pending(i, v),
                 m_hashes[v] = frames[j].password
          PROVE  HashFollows(v)'
      <4>1. \A i \in 1..Len(frames') : i > j => ~Pending(i, v)'
        BY <1>1, <3>5 DEF Pending, Writes
      <4>2. CASE j # k
        <5>1. j \in 1..Len(frames') /\ Pending(j, v)'
              /\ m_hashes'[v] = frames'[j].password
          BY <1>1, <3>1, <3>5, <4>2 DEF Pending
        <5> QED BY <4>1, <5>1 DEF HashFollows, N
      <4>3. CASE j = k /\ f.state = "done"
        <5>1. f.job = "write" /\ keyring'[v] = m_hashes'[v]
          BY <2>2, <3>1, <3>5, <4>3 DEF Pending, Writes
        <5>2. \A i \in 1..Len(frames') : ~Pending(i, v)'
          <6> SUFFICES ASSUME NEW i \in 1..Len(frames'), Pending(i, v)' PROVE FALSE
            OBVIOUS
          <6>1. i # k
            BY <1>1, <4>3 DEF Pending
          <6>2. Pending(i, v) /\ i \in N
            BY <1>1, <6>1 DEF Pending
          <6>3. i > k
            BY <1>3, <6>1, <6>2 DEF Pending
          <6> QED BY <4>1, <4>3, <6>3
        <5> QED BY <5>1, <5>2 DEF HashFollows, N
      <4>4. CASE j = k /\ f.state = "failed"
        <5>1. Doomed(frames'[k], v)
          BY <1>1, <2>2, <3>5, <4>4 DEF Doomed, Pending, Writes
        <5> QED BY <1>1, <3>3, <5>1
      <4> QED BY <4>2, <4>3, <4>4
    <3>6. ASSUME \A i \in N : ~Pending(i, v),
                 \/ keyring[v] = m_hashes[v]
                 \/ /\ v \in suspect
                    /\ \A i \in N : ~(Writes(frames[i], v) /\ frames[i].state = "done")
          PROVE  HashFollows(v)'
      <4>1. ~Writes(f, v)
        BY <1>1, <3>6 DEF Pending, Writes, g
      <4>2. /\ \A i \in 1..Len(frames') : ~Pending(i, v)'
            /\ \A i \in 1..Len(frames') : Writes(frames'[i], v) /\ frames'[i].state = "done"
                  => i \in N /\ Writes(frames[i], v) /\ frames[i].state = "done"
        BY <1>1, <3>6, <4>1 DEF Pending
      <4>3. CASE keyring'[v] = keyring[v]
        BY <3>1, <3>6, <4>2, <4>3 DEF HashFollows, N
      <4>4. CASE keyring'[v] # keyring[v]
        <5>1. f.state = "done" /\ f.job # "read"
          BY <4>4
        <5>2. f.op = "delete" \/ (f.op = "set" /\ f.job = "erase")
          BY <1>2, <2>2, <4>1, <5>1 DEF Form, Frame, Writes
        <5>3. Doomed(frames'[k], v)
          BY <1>1, <2>2, <5>1, <5>2 DEF Doomed
        <5> QED BY <1>1, <3>3, <5>3
      <4> QED BY <4>3, <4>4
    <3> QED BY <3>1, <3>2, <3>4, <3>5, <3>6 DEF HashFollows
  <2> QED BY <2>1, <2>2
<1>6. FileFollows'
  <2> SUFFICES ASSUME NEW v \in User PROVE FileFollow(v)'
    BY DEF FileFollows
  <2>1. FileFollow(v)
    BY DEF CredentialsInv, FileFollows
  <2>2. ASSUME NEW j \in N, Effective(frames'[j], v)
        PROVE  FileFollow(v)'
    BY <1>1, <2>2 DEF FileFollow, N
  <2>3. \A j \in N : Effective(frames[j], v) => Effective(frames'[j], v)
    BY <1>1 DEF Effective, g
  <2>4. CASE keyring'[v] = keyring[v]
    BY <2>1, <2>2, <2>3, <2>4 DEF FileFollow
  <2>5. CASE keyring'[v] # keyring[v]
    <3>1. v = f.user /\ f.state = "done" /\ f.job # "read"
      BY <2>5
    <3>2. f.op # "start"
      BY <1>2, <3>1 DEF Form
    <3>3. Effective(frames'[k], v)
      BY <1>1, <3>1, <3>2 DEF Effective
    <3> QED BY <2>2, <3>3
  <2> QED BY <2>4, <2>5
<1>7. GoneStays'
  <2> SUFFICES ASSUME NEW v \in gone
               PROVE  /\ keyring'[v] = None
                      /\ \A j \in 1..Len(frames') : ~Pending(j, v)'
    BY DEF CredentialsInv, GoneStays, N
  <2>1. v \in User /\ keyring[v] = None /\ \A j \in N : ~Pending(j, v)
    BY DEF CredentialsInv, GoneStays, Types
  <2>2. \A j \in 1..Len(frames') : ~Pending(j, v)'
    BY <1>1, <2>1 DEF Pending
  <2>3. CASE v = f.user /\ f.job = "write"
    <3>1. f.op = "set"
      BY <1>2, <2>3 DEF Form, Frame
    <3> QED BY <1>1, <2>1, <2>3, <3>1 DEF Pending, Writes, g
  <2>4. CASE v = f.user /\ f.job # "write"
    <3>1. f.job \in {"erase", "read"}
      BY <2>4 DEF Frame
    <3> QED BY <2>1, <2>2, <2>4, <3>1
  <2>5. CASE v # f.user
    BY <2>1, <2>2, <2>5
  <2> QED BY <2>3, <2>4, <2>5
<1> QED BY <1>4, <1>5, <1>6, <1>7 DEF CredentialsInv

(* The keyring does a job or refuses it.                                     *)
LEMMA KeyringSteps ==
    ASSUME CredentialsInv, NEW k \in DOMAIN frames, KeyringDoes(k) \/ KeyringRefuses(k)
    PROVE  CredentialsInv'
<1>1. /\ frames \in Frames /\ keyring \in Store /\ Forms
      /\ k \in N /\ frames[k] \in Frame /\ Form(frames[k])
  BY FramesTop, LenProperties DEF CredentialsInv, Types, Frames, N, Forms
<1>2. CASE KeyringRefuses(k)
  <2> DEFINE f == [frames[k] EXCEPT !.state = "failed"]
  <2>1. Replaced(k, f)
    BY <1>1, <1>2, KeyringStep
  <2>2. /\ f \in Frame /\ f.op = frames[k].op /\ f.user = frames[k].user
        /\ f.password = frames[k].password /\ f.job = frames[k].job
        /\ f.alone = frames[k].alone /\ f.state = "failed"
    BY <1>1 DEF Frame
  <2>3. Oldest(k) /\ UNCHANGED <<m_hashes, file, keyring, server, suspect, gone>>
    BY <1>2 DEF KeyringRefuses
  <2> HIDE DEF f
  <2> QED BY <1>1, <2>1, <2>2, <2>3, JobEnds
<1>3. CASE KeyringDoes(k)
  <2>1. PICK f \in Frame :
           /\ Replaced(k, f)
           /\ f.op = frames[k].op /\ f.user = frames[k].user
           /\ f.password = frames[k].password /\ f.job = frames[k].job
           /\ f.alone = frames[k].alone
           /\ f.state # "queued"
           /\ f.job # "read" => f.state = "done"
    BY <1>1, <1>3, KeyringStep
  <2>2. Oldest(k) /\ UNCHANGED <<m_hashes, file, server, suspect, gone>>
    BY <1>3 DEF KeyringDoes
  <2>3. /\ f.state \in {"done", "failed"} /\ f.job \in {"write", "erase", "read"}
        /\ f.user \in User /\ f.password \in Password \cup {None}
    BY <2>1 DEF Frame
  <2>4. keyring' = CASE f.job = "write" -> [keyring EXCEPT ![f.user] = f.password]
                     [] f.job = "erase" -> [keyring EXCEPT ![f.user] = None]
                     [] f.job = "read" -> keyring
    BY <1>3, <2>1 DEF KeyringDoes
  <2>5. /\ f.job = "write" => keyring' = [keyring EXCEPT ![f.user] = f.password]
        /\ f.job = "erase" => keyring' = [keyring EXCEPT ![f.user] = None]
        /\ f.job = "read" => keyring' = keyring
    BY <2>3, <2>4
  <2>6. keyring' \in Store /\ \A v \in User : v # f.user => keyring'[v] = keyring[v]
    BY <1>1, <2>3, <2>5 DEF Store
  <2>7. /\ f.state = "failed" \/ f.job = "read" => keyring' = keyring
        /\ f.state = "done" /\ f.job = "erase" => keyring'[f.user] = None
        /\ f.state = "done" /\ f.job = "write" => keyring'[f.user] = f.password
    BY <1>1, <2>1, <2>3, <2>5 DEF Store
  <2> QED BY <1>1, <2>1, <2>2, <2>3, <2>6, <2>7, JobEnds
<1> QED BY <1>2, <1>3

(* After a crash memory is what the file lists; whatever was under way makes *)
(* its users suspect.                                                        *)
LEMMA RestartStep ==
    ASSUME CredentialsInv, Restart
    PROVE  CredentialsInv'
<1>1. /\ m_hashes' = file /\ server' = Nobody /\ frames' = << >>
      /\ suspect' = suspect \cup Changing(frames)
      /\ UNCHANGED <<file, keyring, gone>>
  BY DEF Restart
<1>2. Len(frames') = 0 /\ frames' \in Frames /\ 1..Len(frames') = {}
  BY <1>1 DEF Frames
<1>3. /\ Changing(frames) \in SUBSET User
      /\ \A k \in N : frames[k].op # "start" => frames[k].user \in Changing(frames)
  BY ChangingUsers DEF CredentialsInv, Types
<1>4. Types'
  <2>1. Nobody \in Store
    BY DEF Nobody, Store
  <2> QED BY <1>1, <1>2, <1>3, <2>1, CredentialsAssumption DEF CredentialsInv, Types
<1>5. \A v \in User : v \in suspect' \/ file[v] \in {None, keyring[v]}
  BY <1>1, <1>3 DEF CredentialsInv, FileFollows, FileFollow, Effective
<1>6. HashesFollow'
  BY <1>1, <1>2, <1>5 DEF HashesFollow, HashFollows, N
<1>7. FileFollows'
  BY <1>1, <1>5 DEF FileFollows, FileFollow
<1>8. GoneStays'
  BY <1>1, <1>2 DEF CredentialsInv, GoneStays, N
<1> QED BY <1>2, <1>4, <1>6, <1>7, <1>8
        DEF CredentialsInv, Fifo, Forms, GivenUpIsSuspect, DeletesAlone, N

(* Every step keeps the invariant.                                           *)
LEMMA CredentialsNext == CredentialsInv /\ [Next]_vars => CredentialsInv'
<1> SUFFICES ASSUME CredentialsInv, [Next]_vars PROVE CredentialsInv'
  OBVIOUS
<1>1. Types /\ Nobody \in Store
  BY DEF CredentialsInv, Nobody, Store
<1>2. ASSUME NEW u \in User, DeleteUser(u)
      PROVE  CredentialsInv'
  BY <1>2, QuietCall DEF DeleteUser
<1>3. ASSUME NEW u \in User, NEW p \in Password, SetPassword(u, p)
      PROVE  CredentialsInv'
  BY <1>3, SetPasswordStep
<1>4. CASE SecretWritten
  BY <1>4, SecretWrittenSaves, SecretWrittenUnsaved DEF SecretWritten
<1>5. CASE SecretNotWritten
  <2>1. /\ frames # << >> /\ Top.job = "write" /\ Top.state = "failed" /\ Return
        /\ m_hashes' = [m_hashes EXCEPT ![Top.user] = None]
        /\ UNCHANGED <<file, keyring, server, suspect, gone>>
    BY <1>5 DEF SecretNotWritten, Resumed
  <2>2. Top \in Frame /\ Form(Top)
    BY <1>1, <2>1, FramesTop DEF CredentialsInv, Types, Forms
  <2>3. Top.op = "set"
    BY <2>1, <2>2 DEF Form, Frame
  <2> QED BY <2>1, <2>3, HashTakenBack
<1>6. CASE PasswordGivenUp
  <2>1. /\ frames # << >> /\ Top.op = "set" /\ Top.job = "erase" /\ Top.state # "queued"
        /\ Return /\ m_hashes' = [m_hashes EXCEPT ![Top.user] = None]
        /\ UNCHANGED <<file, keyring, server, suspect, gone>>
    BY <1>6 DEF PasswordGivenUp
  <2>2. Top.user \in suspect
    BY <1>1, <2>1, FramesTop DEF CredentialsInv, Types, GivenUpIsSuspect
  <2> QED BY <2>1, <2>2, HashTakenBack
<1>7. CASE SecretErased
  BY <1>7, SecretErasedStep
<1>8. CASE SecretNotErased
  BY <1>1, <1>8, QuietReturn DEF SecretNotErased, Resumed, Types
<1>9. CASE Start
  <2>1. PICK u \in Listed(m_hashes) :
            Call("start", u, None, "read", Listed(m_hashes) \ {u})
    BY <1>9 DEF Start
  <2>2. u \in User /\ Listed(m_hashes) \ {u} \in SUBSET User
    BY DEF Listed
  <2>3. UNCHANGED <<m_hashes, file, keyring, server, suspect, gone>>
    BY <1>9 DEF Start
  <2> QED BY <2>1, <2>2, <2>3, QuietCall
<1>10. CASE ReadNext
  BY <1>10, ReadNextStep
<1>11. CASE Started \/ SecretNotRead
  <2>1. /\ frames # << >> /\ Top.job = "read" /\ Return
        /\ server' \in {Top.read, Nobody, server}
        /\ UNCHANGED <<m_hashes, file, keyring, suspect, gone>>
    BY <1>11 DEF Started, SecretNotRead, Resumed
  <2>2. Top \in Frame /\ Form(Top)
    BY <1>1, <2>1, FramesTop DEF CredentialsInv, Types, Forms
  <2>3. Top.op = "start" /\ Top.read \in Store
    BY <2>1, <2>2 DEF Form, Frame
  <2> QED BY <1>1, <2>1, <2>3, QuietReturn DEF Types
<1>12. CASE Stop \/ UNCHANGED vars
  <2>1. /\ server' \in Store
        /\ UNCHANGED <<m_hashes, file, keyring, frames, suspect, gone>>
    BY <1>1, <1>12 DEF Stop, vars, Types
  <2> QED BY <2>1
          DEF CredentialsInv, Types, Fifo, Forms, HashesFollow, HashFollows, FileFollows,
              FileFollow, GivenUpIsSuspect, DeletesAlone, GoneStays, Pending, N
<1>13. ASSUME NEW k \in DOMAIN frames, KeyringDoes(k) \/ KeyringRefuses(k)
       PROVE  CredentialsInv'
  BY <1>13, KeyringSteps
<1>14. CASE Restart
  BY <1>14, RestartStep
<1> QED BY <1>2, <1>3, <1>4, <1>5, <1>6, <1>7, <1>8, <1>9, <1>10, <1>11, <1>12, <1>13,
           <1>14 DEF Next

(* The invariant always holds.                                               *)
LEMMA CredentialsAlways == Spec => []CredentialsInv
BY CredentialsInit, CredentialsNext, PTL DEF Spec

-----------------------------------------------------------------------------
(* The stores hold hashes and secrets, there are never more calls than the   *)
(* bound, and the keyring's jobs end in the order in which they began.       *)
THEOREM TypeCorrect == Spec => []TypeOK
<1>1. CredentialsInv => TypeOK
  BY LenProperties DEF CredentialsInv, Types, Fifo, Frames, N, TypeOK
<1> QED BY <1>1, CredentialsAlways, PTL

(* Between calls every listed user has the secret its hash verifies, however *)
(* many calls have overlapped and whichever of their steps have failed.      *)
THEOREM SecretsFollow == Spec => []EveryUserHasItsSecret
<1>1. CredentialsInv => EveryUserHasItsSecret
  <2> SUFFICES ASSUME CredentialsInv, frames = << >>,
                      NEW u \in User, m_hashes[u] # None, u \notin suspect
               PROVE  keyring[u] = m_hashes[u]
    BY DEF EveryUserHasItsSecret, Listed
  <2>1. Len(frames) = 0 /\ N = {}
    BY DEF N
  <2> QED BY <2>1 DEF CredentialsInv, HashesFollow, HashFollows
<1> QED BY <1>1, CredentialsAlways, PTL

(* A user that was reported deleted stays deleted, in memory, in the file    *)
(* and in the keyring, until SetPassword is called for it.                   *)
THEOREM DeletionHolds == Spec => []DeletedUserIsGone
<1>1. CredentialsInv => DeletedUserIsGone
  BY DEF CredentialsInv, GoneStays, DeletedUserIsGone
<1> QED BY <1>1, CredentialsAlways, PTL


-----------------------------------------------------------------------------
(* A Start that nothing overlaps                                             *)

(* A call puts an end to every Start below it being alone.                   *)
AloneOnTop ==
    \A k \in N : frames[k].op = "start" /\ frames[k].alone => k = Len(frames)

(* What the Start has read of the users that are listed is in the keyring,   *)
(* and of others it reads nothing.                                           *)
ReadFollows(f, hashes, secrets) ==
    /\ {f.user} \cup f.todo \subseteq Listed(hashes)
    /\ \A u \in User \ Listed(hashes) : f.read[u] = None
    /\ \A u \in Listed(hashes) :
           u \in f.todo \/ (u = f.user /\ f.state # "done") \/ f.read[u] = secrets[u]

StartInv ==
    /\ AloneOnTop
    /\ Len(frames) = 1 /\ frames[1].op = "start" /\ frames[1].alone
           => ReadFollows(frames[1], m_hashes, keyring)

(* A call begins: only a Start does so with something to read.               *)
LEMMA StartPushed ==
    ASSUME CredentialsInv, NEW o \in {"set", "delete", "start"}, NEW u \in User,
           NEW p \in Password \cup {None}, NEW j \in {"write", "erase", "read"},
           NEW todo \in SUBSET User, Call(o, u, p, j, todo),
           o = "start" => /\ u \in Listed(m_hashes) /\ todo = Listed(m_hashes) \ {u}
                          /\ m_hashes' = m_hashes
    PROVE  StartInv'
<1> DEFINE f == Begun(o, u, p, j, todo)
<1>1. /\ frames \in Frames /\ Len(frames) \in Nat
  BY FramesTop DEF CredentialsInv, Types
<1>2. /\ Pushed(f)
      /\ \A k \in N : frames'[k].alone => frames[k].op = "delete"
  BY <1>1, CallStep
<1>3. /\ f.op = o /\ f.user = u /\ f.todo = todo /\ f.state = "queued" /\ f.read = Nobody
  BY DEF Begun
<1> HIDE DEF f
<1>4. /\ Len(frames') = Len(frames) + 1 /\ frames'[Len(frames) + 1] = f
      /\ \A k \in N : frames'[k].op = frames[k].op
      /\ \A k \in 1..Len(frames') : k \in N \/ k = Len(frames')
  BY <1>1, <1>2 DEF Pushed, Alike, N
<1>5. AloneOnTop'
  BY <1>2, <1>4 DEF AloneOnTop, N
<1>6. ASSUME Len(frames') = 1, frames'[1].op = "start"
      PROVE  ReadFollows(frames'[1], m_hashes', keyring')
  <2>1. frames'[1] = f /\ o = "start"
    BY <1>1, <1>3, <1>4, <1>6
  <2>2. /\ u \in Listed(m_hashes') /\ todo = Listed(m_hashes') \ {u}
    BY <2>1 DEF Listed
  <2>3. \A v \in User : Nobody[v] = None
    BY DEF Nobody
  <2> QED BY <1>3, <2>1, <2>2, <2>3 DEF ReadFollows
<1> QED BY <1>5, <1>6 DEF StartInv

(* When a call has ended, no Start that is left is alone.                    *)
LEMMA StartPopped ==
    ASSUME CredentialsInv, StartInv, frames # << >>, Return
    PROVE  StartInv'
<1>1. /\ Len(frames) \in Nat
      /\ \A k \in 1..Len(frames') : /\ k \in N /\ k # Len(frames)
                                    /\ frames'[k] = frames[k]
  BY CallEnds
<1>2. \A k \in 1..Len(frames') : ~(frames'[k].op = "start" /\ frames'[k].alone)
  BY <1>1 DEF StartInv, AloneOnTop
<1>3. Len(frames') = 1 => 1 \in 1..Len(frames')
  OBVIOUS
<1> QED BY <1>2, <1>3 DEF StartInv, AloneOnTop, N

(* A call goes on, or its job ends.                                          *)
LEMMA StartReplaced ==
    ASSUME CredentialsInv, StartInv, NEW k \in N, NEW f \in Frame, Replaced(k, f),
           f.op = frames[k].op, f.alone = frames[k].alone,
           (/\ Len(frames) = 1 /\ k = 1 /\ f.op = "start" /\ f.alone
            /\ ReadFollows(frames[1], m_hashes, keyring))
               => ReadFollows(f, m_hashes', keyring')
    PROVE  StartInv'
<1>1. /\ Len(frames') = Len(frames) /\ frames'[k] = f /\ k \in 1..Len(frames)
      /\ \A j \in 1..Len(frames) : j # k => frames'[j] = frames[j]
  BY DEF Replaced, N
<1>2. AloneOnTop'
  BY <1>1 DEF StartInv, AloneOnTop, N
<1>3. ASSUME Len(frames') = 1, frames'[1].op = "start", frames'[1].alone
      PROVE  ReadFollows(frames'[1], m_hashes', keyring')
  <2>1. k = 1 /\ frames'[1] = f
    BY <1>1, <1>3
  <2>2. ReadFollows(frames[1], m_hashes, keyring)
    BY <1>1, <1>3, <2>1 DEF StartInv
  <2>3. ReadFollows(f, m_hashes', keyring')
    BY <1>1, <1>3, <2>1, <2>2
  <2> QED BY <2>1, <2>3
<1> QED BY <1>2, <1>3 DEF StartInv

(* The keyring reads a secret for a Start, or refuses to.                    *)
LEMMA StartReads ==
    ASSUME CredentialsInv, StartInv, NEW k \in DOMAIN frames,
           KeyringDoes(k) \/ KeyringRefuses(k)
    PROVE  StartInv'
<1> DEFINE g == frames[k]
<1>1. /\ frames \in Frames /\ keyring \in Store /\ Forms
      /\ k \in N /\ g \in Frame /\ Form(g)
      /\ Oldest(k) /\ UNCHANGED m_hashes
  BY FramesTop, LenProperties
     DEF CredentialsInv, Types, Frames, N, Forms, KeyringDoes, KeyringRefuses
<1>2. CASE KeyringRefuses(k)
  <2> DEFINE f == [g EXCEPT !.state = "failed"]
  <2>1. Replaced(k, f) /\ keyring' = keyring
    BY <1>1, <1>2, KeyringStep DEF KeyringRefuses
  <2>2. /\ f \in Frame /\ f.op = g.op /\ f.alone = g.alone /\ f.state = "failed"
        /\ f.user = g.user /\ f.todo = g.todo /\ f.read = g.read
    BY <1>1 DEF Frame
  <2> HIDE DEF f
  <2>3. g.state = "queued"
    BY <1>1 DEF Oldest
  <2>4. ReadFollows(g, m_hashes, keyring) => ReadFollows(f, m_hashes', keyring')
    BY <1>1, <2>1, <2>2, <2>3 DEF ReadFollows, Listed
  <2> QED BY <1>1, <2>1, <2>2, <2>4, StartReplaced
<1>3. CASE KeyringDoes(k)
  <2> DEFINE s == IF (g.job = "read" => keyring[g.user] # None) THEN "done" ELSE "failed"
             r == IF g.job = "read" THEN [g.read EXCEPT ![g.user] = keyring[g.user]]
                                    ELSE g.read
             f == [g EXCEPT !.state = s, !.read = r]
  <2>1. s \in {"done", "failed"} /\ r \in Store /\ g.user \in User
        /\ (g.job = "read" => /\ r[g.user] = keyring[g.user]
                              /\ \A v \in User : v # g.user => r[v] = g.read[v])
    BY <1>1 DEF Frame, Store
  <2>2. frames' = [frames EXCEPT ![k].state = s, ![k].read = r]
    BY <1>3 DEF KeyringDoes
  <2> HIDE DEF s, r
  <2>3. /\ f \in Frame /\ f.op = g.op /\ f.alone = g.alone
        /\ f.user = g.user /\ f.todo = g.todo /\ f.read = r
    BY <1>1, <2>1 DEF Frame
  <2>4. frames' = [frames EXCEPT ![k] = f]
    BY <2>2, <1>1, LenProperties DEF Frames, N
  <2> HIDE DEF f, g
  <2>5. Replaced(k, f)
    <3>1. /\ frames' \in Seq(Frame) /\ Len(frames') = Len(frames)
          /\ \A i \in 1..Len(frames) : frames'[i] = IF i = k THEN f ELSE frames[i]
      BY <1>1, <2>3, <2>4, ExceptSeq DEF Frames, N
    <3> QED BY <1>1, <3>1 DEF Replaced, Frames, N
  <2>6. ASSUME f.op = "start", ReadFollows(g, m_hashes, keyring)
        PROVE  ReadFollows(f, m_hashes', keyring')
    <3>1. g.job = "read" /\ keyring' = keyring
      BY <1>1, <1>3, <2>3, <2>6 DEF Form, KeyringDoes, g
    <3>2. g.user \in Listed(m_hashes) /\ Listed(m_hashes') = Listed(m_hashes)
          /\ Listed(m_hashes) \subseteq User
      BY <1>1, <2>6 DEF ReadFollows, Listed
    <3>3. \A v \in User \ Listed(m_hashes) : r[v] = None
      BY <2>1, <2>6, <3>1, <3>2 DEF ReadFollows
    <3>4. \A v \in Listed(m_hashes) : v \in g.todo \/ r[v] = keyring[v]
      BY <2>1, <2>6, <3>1, <3>2 DEF ReadFollows
    <3>5. {f.user} \cup f.todo \subseteq Listed(m_hashes')
      BY <2>3, <2>6, <3>2 DEF ReadFollows
    <3> QED BY <2>3, <3>1, <3>2, <3>3, <3>4, <3>5 DEF ReadFollows
  <2> QED BY <1>1, <2>3, <2>5, <2>6, StartReplaced DEF g
<1> QED BY <1>1, <1>2, <1>3

(* Start goes on with the next user, when it has read the last one.          *)
LEMMA StartGoesOn ==
    ASSUME CredentialsInv, StartInv, ReadNext
    PROVE  StartInv'
<1> DEFINE n == Len(frames)
<1>1. /\ frames # << >> /\ Top.job = "read" /\ Top.state = "done"
      /\ UNCHANGED <<m_hashes, keyring>>
  BY DEF ReadNext, Resumed
<1>2. frames \in Frames /\ n \in N /\ Top = frames[n] /\ Top \in Frame
  BY <1>1, FramesTop DEF CredentialsInv, Types
<1>3. PICK u \in Top.todo : WaitFor("read", u, Top.todo \ {u})
  BY DEF ReadNext
<1> DEFINE f == [Top EXCEPT !.job = "read", !.user = u, !.state = "queued",
                            !.todo = Top.todo \ {u}]
<1>4. /\ f \in Frame /\ f.op = Top.op /\ f.alone = Top.alone /\ f.state = "queued"
      /\ f.user = u /\ f.todo = Top.todo \ {u} /\ f.read = Top.read
  BY <1>2 DEF Frame
<1>5. frames' = Append(Outer, f)
  BY <1>3 DEF WaitFor
<1> HIDE DEF f
<1>6. Replaced(n, f)
  BY <1>1, <1>2, <1>4, <1>5, TopSteps
<1>7. ReadFollows(Top, m_hashes, keyring) => ReadFollows(f, m_hashes', keyring')
  BY <1>1, <1>4 DEF ReadFollows, Listed
<1> QED BY <1>2, <1>4, <1>6, <1>7, StartReplaced

(* Every step keeps what is said of a Start.                                 *)
LEMMA StartNext == CredentialsInv /\ StartInv /\ [Next]_vars => StartInv'
<1> SUFFICES ASSUME CredentialsInv, StartInv, [Next]_vars PROVE StartInv'
  OBVIOUS
<1>1. ASSUME NEW u \in User, DeleteUser(u)
      PROVE  StartInv'
  BY <1>1, StartPushed DEF DeleteUser
<1>2. ASSUME NEW u \in User, NEW p \in Password, SetPassword(u, p)
      PROVE  StartInv'
  BY <1>2, StartPushed DEF SetPassword
<1>3. CASE Start
  <2>1. PICK u \in Listed(m_hashes) :
            Call("start", u, None, "read", Listed(m_hashes) \ {u})
    BY <1>3 DEF Start
  <2>2. u \in User /\ Listed(m_hashes) \ {u} \in SUBSET User /\ m_hashes' = m_hashes
    BY <1>3 DEF Start, Listed
  <2> QED BY <2>1, <2>2, StartPushed
<1>4. ASSUME frames # << >>, Return
      PROVE  StartInv'
  BY <1>4, StartPopped
<1>5. CASE SecretWritten
  <2>1. frames # << >> /\ Top.job = "write"
    BY <1>5 DEF SecretWritten, Resumed
  <2>2. CASE WaitFor("erase", Top.user, {})
    <3> DEFINE n == Len(frames)
               f == [Top EXCEPT !.job = "erase", !.user = Top.user, !.state = "queued",
                                !.todo = {}]
    <3>1. /\ frames \in Frames /\ n \in N /\ Top = frames[n] /\ Top \in Frame /\ Form(Top)
      BY <2>1, FramesTop DEF CredentialsInv, Types, Forms
    <3>2. f \in Frame /\ f.op = Top.op /\ f.alone = Top.alone /\ f.op = "set"
      BY <2>1, <3>1 DEF Frame, Form
    <3>3. frames' = Append(Outer, f)
      BY <2>2 DEF WaitFor
    <3> HIDE DEF f
    <3>4. Replaced(n, f)
      BY <2>1, <3>1, <3>2, <3>3, TopSteps
    <3> QED BY <3>1, <3>2, <3>4, StartReplaced
  <2> QED BY <1>4, <1>5, <2>1, <2>2 DEF SecretWritten
<1>6. CASE \/ SecretNotWritten \/ PasswordGivenUp \/ SecretErased \/ SecretNotErased
           \/ Started \/ SecretNotRead
  BY <1>4, <1>6 DEF SecretNotWritten, PasswordGivenUp, SecretErased, SecretNotErased,
                    Started, SecretNotRead, Resumed
<1>7. CASE ReadNext
  BY <1>7, StartGoesOn
<1>8. CASE Stop \/ UNCHANGED vars
  BY <1>8 DEF Stop, vars, StartInv, AloneOnTop, ReadFollows, N, Listed
<1>9. ASSUME NEW k \in DOMAIN frames, KeyringDoes(k) \/ KeyringRefuses(k)
      PROVE  StartInv'
  BY <1>9, StartReads
<1>10. CASE Restart
  <2>1. Len(frames') = 0
    BY <1>10 DEF Restart
  <2> QED BY <2>1 DEF StartInv, AloneOnTop, N
<1> QED BY <1>1, <1>2, <1>3, <1>5, <1>6, <1>7, <1>8, <1>9, <1>10 DEF Next

(* A Start that no other call overlaps goes on with exactly the users who are *)
(* listed, each with the password its hash verifies, for any number of users  *)
(* in any order, suspect users excepted: it goes on only when all secrets are *)
(* read, and they are what the hashes verify because no change is under way.  *)
THEOREM StartServes == Spec => StartServesTheUsers
<1>1. Init => StartInv
  <2> SUFFICES ASSUME Init PROVE StartInv
    OBVIOUS
  <2>1. Len(frames) = 0
    BY DEF Init
  <2> QED BY <2>1 DEF StartInv, AloneOnTop, N
<1>2. ASSUME CredentialsInv, StartInv, [Next]_vars, server' \notin {server, Nobody},
             Len(frames) = 1, Top.alone, NEW u \in User \ suspect
      PROVE  server'[u] = m_hashes[u]
  <2>1. /\ frames # << >> /\ Top.job = "read" /\ Top.state = "done" /\ Top.todo = {}
        /\ server' = Top.read
    BY <1>2 DEF Next, vars, DeleteUser, SetPassword, SecretWritten, SecretNotWritten,
                PasswordGivenUp, SecretErased, SecretNotErased, Start, ReadNext, Started,
                SecretNotRead, Stop, KeyringDoes, KeyringRefuses, Restart, Resumed
  <2>2. Top = frames[1] /\ Top \in Frame /\ Form(Top) /\ N = {1}
    BY <1>2, <2>1, FramesTop DEF CredentialsInv, Types, Forms, N
  <2>3. Top.op = "start"
    BY <2>1, <2>2 DEF Form, Frame
  <2>4. ReadFollows(Top, m_hashes, keyring)
    BY <1>2, <2>2, <2>3 DEF StartInv
  <2>5. CASE u \notin Listed(m_hashes)
    BY <2>1, <2>4, <2>5 DEF ReadFollows, Listed
  <2>6. CASE u \in Listed(m_hashes)
    <3>1. server'[u] = keyring[u]
      BY <2>1, <2>4, <2>6 DEF ReadFollows
    <3>2. HashFollows(u) /\ m_hashes[u] # None
      BY <1>2, <2>6 DEF CredentialsInv, HashesFollow, Listed
    <3>3. \A k \in N : ~Doomed(frames[k], u) /\ ~Pending(k, u)
      BY <2>2, <2>3 DEF Doomed, Pending, Writes
    <3> QED BY <1>2, <3>1, <3>2, <3>3 DEF HashFollows
  <2> QED BY <2>5, <2>6
<1>3. CredentialsInv /\ StartInv /\ [Next]_vars
        => [server' \notin {server, Nobody} /\ Len(frames) = 1 /\ Top.alone
              => \A u \in User \ suspect : server'[u] = m_hashes[u]]_vars
  BY <1>2
<1> QED BY <1>1, <1>3, StartNext, CredentialsAlways, PTL DEF Spec, StartServesTheUsers
==============================================================================

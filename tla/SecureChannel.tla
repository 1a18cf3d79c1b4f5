--------------------------- MODULE SecureChannel ----------------------------
(***************************************************************************)
(* The data plane of one established session: `send_payload` (session.rs), *)
(* `deliver` (handlers.rs) and the AEAD session of crypto.rs at both ends, *)
(* over a network that loses, duplicates, reorders and damages datagrams.  *)
(*                                                                         *)
(* Both functions hold the node lock only to take a snapshot and run the   *)
(* cipher after releasing it, so each is two actions.  An end has several  *)
(* sending tasks (the session's owner and its SessionSender clones) and    *)
(* one receive loop.                                                       *)
(*                                                                         *)
(* The AEAD is ideal: a ciphertext is named by the nonce that sealed it, a *)
(* direction and a sequence number, and opens only under that nonce.       *)
(* Plaintexts are left out.                                                *)
(***************************************************************************)
EXTENDS ReplayWindow

CONSTANTS
    Tasks,      \* the sending tasks of an end
    Garbage,    \* bytes that fail authentication
    Forged,     \* headers under which the network makes up a datagram
    Idle,       \* a sending task or a receive loop between two datagrams
    MaxSend     \* for each end, a bound on the sequence numbers it takes

Role == {"Initiator", "Responder"}

ASSUME ChannelAssumption ==
    /\ Forged \subseteq Nat
    /\ MaxSend \in [Role -> Nat]
    /\ Garbage \notin [dir : {0, 1}, seq : Nat]
    /\ Idle \notin Nat
    /\ Idle \notin [seq : Nat, tx : BOOLEAN, ct :
                       [dir : {0, 1}, seq : Nat] \cup {Garbage}]

VARIABLES
    phase,      \* the SessionState: "pending" without data_tx, "live",
                \* "dropped" when the Session handle is gone, "removed"
    send_seq,   \* next sequence number to send
    task,       \* the sequence number a sending task took, off the lock
    sealed,     \* ciphertexts ever put on the network
    rx,         \* the snapshot the receive loop holds off the lock
    recv_window,
    inbox,      \* plaintexts handed to the Session's reader (their order is
                \* the order of arrival and is left out)
    handed,     \* how many times one was handed over
    accepted    \* history: the sequence numbers the window let through

vars == <<phase, send_seq, task, sealed, rx, recv_window, inbox, handed, accepted>>

send_dir(p) == IF p = "Initiator" THEN 0 ELSE 1
recv_dir(p) == 1 - send_dir(p)

nonce(p, seq) == [dir |-> send_dir(p), seq |-> seq]

Ciphertext == [dir : {0, 1}, seq : Nat]
Inbound    == [seq : Nat, tx : BOOLEAN, ct : Ciphertext \cup {Garbage}]

\* The sequence numbers the bound lets an end take.
Seqs == {s \in 0 .. MaxSend["Initiator"] + MaxSend["Responder"] :
            \E p \in Role : s < MaxSend[p]}

\* A datagram the network may hand to either end, any number of times: a
\* ciphertext under its own header, or bytes that will not authenticate (made
\* up, damaged, or a ciphertext moved under another header).
Datagrams == {<<c.seq, c>> : c \in sealed} \cup (Forged \X {Garbage})

-----------------------------------------------------------------------------

\* The responder's entry is created with its reader (on_incoming); the
\* initiator's gets one only when connect returns.
Init ==
    /\ phase = [p \in Role |-> IF p = "Initiator" THEN "pending" ELSE "live"]
    /\ send_seq = [p \in Role |-> 0]
    /\ task = [p \in Role |-> [t \in Tasks |-> Idle]]
    /\ sealed = {}
    /\ rx = [p \in Role |-> Idle]
    /\ recv_window = [p \in Role |-> Default]
    /\ inbox = [p \in Role |-> {}]
    /\ handed = [p \in Role |-> 0]
    /\ accepted = [p \in Role |-> {}]

\* connect returns its Session: data_tx is set.
Attach(p) ==
    /\ phase[p] = "pending"
    /\ phase' = [phase EXCEPT ![p] = "live"]
    /\ UNCHANGED <<send_seq, task, sealed, rx, recv_window, inbox, handed, accepted>>

\* Session::drop: the reader is gone at once, the map entry when the spawned
\* task gets the lock.
DropHandle(p) ==
    /\ phase[p] = "live"
    /\ phase' = [phase EXCEPT ![p] = "dropped"]
    /\ UNCHANGED <<send_seq, task, sealed, rx, recv_window, inbox, handed, accepted>>

RemoveEntry(p) ==
    /\ phase[p] = "dropped"
    /\ phase' = [phase EXCEPT ![p] = "removed"]
    /\ UNCHANGED <<send_seq, task, sealed, rx, recv_window, inbox, handed, accepted>>

\* Mutant: the sequence number is read under the lock and bumped after it.
SendSnapshotNoBump(p, t) ==
    /\ phase[p] \in {"live", "dropped"}
    /\ task[p][t] = Idle
    /\ send_seq[p] < MaxSend[p]
    /\ task' = [task EXCEPT ![p][t] = send_seq[p]]
    /\ send_seq' = [send_seq EXCEPT ![p] = IF \E u \in Tasks : task[p][u] # Idle THEN @ + 1 ELSE @]
    /\ UNCHANGED <<phase, sealed, rx, recv_window, inbox, handed, accepted>>

\* send_payload under the lock: read and bump the sequence number.
SendSnapshot(p, t) ==
    /\ phase[p] \in {"live", "dropped"}
    /\ task[p][t] = Idle
    /\ send_seq[p] < MaxSend[p]
    /\ task' = [task EXCEPT ![p][t] = send_seq[p]]
    /\ send_seq' = [send_seq EXCEPT ![p] = @ + 1]
    /\ UNCHANGED <<phase, sealed, rx, recv_window, inbox, handed, accepted>>

\* send_payload off the lock: seal and put the datagram on the network.
SendSealed(p, t) ==
    /\ task[p][t] # Idle
    /\ sealed' = sealed \cup {nonce(p, task[p][t])}
    /\ task' = [task EXCEPT ![p][t] = Idle]
    /\ UNCHANGED <<phase, send_seq, rx, recv_window, inbox, handed, accepted>>

\* The send fails after the bump (no relay credentials, a socket error): the
\* sequence number is spent.
SendError(p, t) ==
    /\ task[p][t] # Idle
    /\ task' = [task EXCEPT ![p][t] = Idle]
    /\ UNCHANGED <<phase, send_seq, sealed, rx, recv_window, inbox, handed, accepted>>

\* deliver under the lock: the entry exists; clone the cipher and data_tx.
DeliverSnapshot(p) ==
    /\ phase[p] # "removed"
    /\ rx[p] = Idle
    /\ \E dg \in Datagrams :
          rx' = [rx EXCEPT ![p] =
                    [seq |-> dg[1], ct |-> dg[2], tx |-> phase[p] # "pending"]]
    /\ UNCHANGED <<phase, send_seq, task, sealed, recv_window, inbox, handed, accepted>>

\* The cipher authenticates the datagram under p's receiving direction.
Authentic(p, seq, ct) ==
    ct # Garbage /\ ct.dir = recv_dir(p) /\ ct.seq = seq

\* open_in_place: authenticate first, then let the window judge and record.
Opens(p, seq, ct) == Authentic(p, seq, ct) /\ Fresh(recv_window[p], seq)

NextWindow(p, seq, ct) ==
    IF Authentic(p, seq, ct) THEN accept(recv_window[p], seq) ELSE recv_window[p]

\* deliver hands a plaintext over: it opened, data_tx was set at the snapshot,
\* and the reader is still there.
HandsOver(p) ==
    Opens(p, rx[p].seq, rx[p].ct) /\ rx[p].tx /\ phase[p] = "live"

\* deliver off the lock: open, and hand over.
DeliverOpen(p) ==
    /\ rx[p] # Idle
    /\ rx' = [rx EXCEPT ![p] = Idle]
    /\ recv_window' = [recv_window EXCEPT ![p] = NextWindow(p, rx[p].seq, rx[p].ct)]
    /\ accepted' = [accepted EXCEPT ![p] =
          IF Opens(p, rx[p].seq, rx[p].ct) THEN @ \cup {rx[p].seq} ELSE @]
    /\ inbox' = [inbox EXCEPT ![p] = IF HandsOver(p) THEN @ \cup {rx[p].ct} ELSE @]
    /\ handed' = [handed EXCEPT ![p] = IF HandsOver(p) THEN @ + 1 ELSE @]
    /\ UNCHANGED <<phase, send_seq, task, sealed>>

Next ==
    \E p \in Role :
        \/ Attach(p)
        \/ DropHandle(p)
        \/ RemoveEntry(p)
        \/ \E t \in Tasks : SendSnapshot(p, t)
        \/ \E t \in Tasks : SendSealed(p, t)
        \/ \E t \in Tasks : SendError(p, t)
        \/ DeliverSnapshot(p)
        \/ DeliverOpen(p)

Spec == Init /\ [][Next]_vars

-----------------------------------------------------------------------------

\* Every variable has its shape; in particular the window stays a bitmap of
\* WORDS words whose bits are in range.
TypeOK ==
    /\ phase \in [Role -> {"pending", "live", "dropped", "removed"}]
    /\ send_seq \in [Role -> Nat]
    /\ task \in [Role -> [Tasks -> Nat \cup {Idle}]]
    /\ sealed \subseteq Ciphertext
    /\ rx \in [Role -> Inbound \cup {Idle}]
    /\ recv_window \in [Role -> Window]
    /\ inbox \in [Role -> SUBSET Ciphertext]
    /\ handed \in [Role -> Nat]
    /\ accepted \in [Role -> SUBSET Nat]

\* The window's verdict on any sequence number is the one of the definition it
\* implements: let it through iff it was not let through before and fewer than
\* WINDOW numbers behind the highest one let through.  So a replay never
\* passes, a late datagram inside the window is never lost to the bitmap's
\* bookkeeping (shift, carry between words), and a damaged or made-up header
\* never moves the window.
DecisionExact ==
    \A p \in Role, s \in Seqs :
        Fresh(recv_window[p], s) <=>
            s \notin accepted[p] /\ \A a \in accepted[p] : a - s < WINDOW

\* No nonce of the session's key ever seals twice, whatever tasks of the two
\* ends are between taking a sequence number and sealing under it.
NonceOnce ==
    [][\A p \in Role, t \in Tasks :
          SendSealed(p, t) => nonce(p, task[p][t]) \notin sealed]_vars

\* The session implements the abstract service: each message arrives at most
\* once, at the other end only, and only if it was sent.
Service == INSTANCE DatagramService WITH Dir <- [p \in Role |-> send_dir(p)]

ServiceSpec == Service!Spec
-----------------------------------------------------------------------------
(***************************************************************************)
(* The inductive strengthening from which the properties above are proved  *)
(* (SecureChannelProofs).                                                  *)
(***************************************************************************)

\* Window w remembers exactly the accepted numbers acc that it can reach: bit
\* o is set iff high - o was accepted, and high is the largest accepted.
Remembers(w, acc) ==
    IF w.high = NoSeq THEN acc = {}
    ELSE /\ w.high \in acc
         /\ \A a \in acc : a <= w.high
         /\ \A o \in 0 .. WINDOW - 1 : get_bit(w.bitmap, o) <=> w.high - o \in acc

WindowInv == \A p \in Role : Remembers(recv_window[p], accepted[p])

\* A sequence number is taken by one task at a time, and is spent once sealed.
SendInv ==
    /\ \A c \in sealed : \E p \in Role : c.dir = send_dir(p) /\ c.seq < send_seq[p]
    /\ \A p \in Role : send_seq[p] <= MaxSend[p]
    /\ \A p \in Role, t \in Tasks : task[p][t] # Idle =>
          /\ task[p][t] < send_seq[p]
          /\ nonce(p, task[p][t]) \notin sealed
          /\ \A u \in Tasks : task[p][u] = task[p][t] => u = t

\* What is in the receive loop's hands or in the inbox came from the sealed
\* ciphertexts; what is in the inbox was let through by the window.
ReceiveInv ==
    \A p \in Role :
        /\ rx[p] # Idle => rx[p].ct \in sealed \cup {Garbage}
        /\ \A c \in inbox[p] : c \in sealed /\ c.dir # send_dir(p) /\ c.seq \in accepted[p]

IInv == TypeOK /\ WindowInv /\ SendInv /\ ReceiveInv
=============================================================================

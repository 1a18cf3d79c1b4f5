--------------------------- MODULE DirectConnect ----------------------------
(***************************************************************************)
(* One connection to a known address without the relay: `connect_direct`   *)
(* and its cancellation guard at the initiator (node.rs), the handlers of  *)
(* Hello and HelloAck in their two forms (handlers.rs), and the end of a   *)
(* Session (session.rs).                                                   *)
(*                                                                         *)
(* The initiator greets with Hello2, which carries an ephemeral key, and   *)
(* after a while also with the old Hello, for devices that cannot decode   *)
(* the new form; whichever arrives first fixes the form of the key.  The   *)
(* address may belong to one of several devices, named by their keys.  A   *)
(* session key is named by the device, its salt and its form.  The network *)
(* loses, duplicates and reorders datagrams.  The session id is random,    *)
(* but any device that has seen the initiator's Hello can greet it back    *)
(* under the same id; on_hello at the initiator must not take that for an  *)
(* incoming connection while the call still owns the id.                   *)
(***************************************************************************)
EXTENDS Naturals

CONSTANTS
    Peers,      \* the devices that see the Hello and may answer it
    Old,        \* those of them that cannot decode Hello2
    None,       \* an absent key or session
    MaxSalts    \* bound: salts a device mints for the session

ASSUME DirectAssumption ==
    /\ Old \subseteq Peers
    /\ None \notin Peers
    /\ None \notin [salt : Nat, forward_secret : BOOLEAN]
    /\ None \notin [peer_pubkey : Peers, role : {"Initiator"},
                   key : [salt : Nat, forward_secret : BOOLEAN]]
    /\ None \notin [peer_pubkey : Peers, role : {"Responder"}]
    /\ MaxSalts \in Nat

VARIABLES
    pin,                \* the key the caller expects, if any
    net,                \* every datagram sent so far
    pc, result,         \* progress of connect_direct, and the error it returned
    permit,             \* the stored permit of the hello_done Notify
    mismatched,         \* the AtomicBool shared with the HelloAck handler
    guard,              \* the DirectGuard: none, armed, disarmed, dropped, swept
    hello_done, pending_salt, expected_pubkey, identity_mismatch, punched,
    sessions,           \* the initiator's entries in Inner for this id
    minted,             \* per device, the salts minted so far
    peer_sessions,      \* per device, its SessionState
    peer_handle         \* per device, its app's Session: none, held, dropped,
                        \* or again: a further one after a drop

Maps == <<hello_done, pending_salt, expected_pubkey, identity_mismatch, punched, sessions>>
peer == <<minted, peer_sessions, peer_handle>>
directvars == <<pin, net, pc, result, permit, mismatched, guard, Maps, peer>>

\* v2: with an ephemeral key.
Hello(v2)          == [type |-> "Hello", v2 |-> v2]
HelloAck(p, n, v2) == [type |-> "HelloAck", key |-> p, salt |-> n, v2 |-> v2]

\* The data key, by what goes into its derivation beside the two devices and
\* the initiator's one salt.
Key     == [salt : 1 .. MaxSalts, forward_secret : BOOLEAN]

\* The key is the forward-secret one if the peer sent an ephemeral key, else
\* the one an old peer derives.
session_hs(salt, eph) == [salt |-> salt, forward_secret |-> eph]

\* A session under the call's id: the call's own, or one that was accepted
\* from a device that greeted under it, whose key is of no concern here.
Opened(p, k) == [peer_pubkey |-> p, role |-> "Initiator", key |-> k]
Accepted(p)  == [peer_pubkey |-> p, role |-> "Responder"]

Session == [peer_pubkey : Peers, role : {"Initiator"}, key : Key]
               \cup [peer_pubkey : Peers, role : {"Responder"}]

Datagram ==
    [type : {"Hello"}, v2 : BOOLEAN]
        \cup [type : {"HelloAck"}, key : Peers, salt : 1 .. MaxSalts, v2 : BOOLEAN]

-----------------------------------------------------------------------------
(***************************************************************************)
(* connect_direct                                                          *)
(***************************************************************************)

ConnectDirect ==
    /\ pc = "idle" /\ pc' = "greeting"
    /\ hello_done' = TRUE /\ pending_salt' = TRUE
    /\ expected_pubkey' = pin /\ identity_mismatch' = (pin # None)
    /\ guard' = "armed"
    /\ net' = net \cup {Hello(TRUE)}
    /\ UNCHANGED <<pin, result, permit, mismatched, punched, sessions, peer>>

GreetOld ==
    /\ pc = "greeting" /\ pc' = "waiting"
    /\ net' = net \cup {Hello(FALSE)}
    /\ UNCHANGED <<pin, result, permit, mismatched, guard, Maps, peer>>

\* The wait ends: with the permit, or when the time is up without one.
HelloWakes ==
    /\ pc = "waiting"
    /\ pc' = IF permit THEN "answered" ELSE "expired"
    /\ permit' = FALSE
    /\ UNCHANGED <<pin, net, result, mismatched, guard, Maps, peer>>

\* Mutant: the session a late ack inserted stays behind.
HelloExpiredKeepsSession ==
    /\ pc = "expired" /\ pc' = "failed"
    /\ hello_done' = FALSE /\ pending_salt' = FALSE
    /\ expected_pubkey' = None /\ identity_mismatch' = FALSE
    /\ guard' = "disarmed"
    /\ result' = IF mismatched THEN "IdentityChanged" ELSE "P2pFailed"
    /\ UNCHANGED <<pin, net, permit, mismatched, punched, sessions, peer>>

HelloExpired ==
    /\ pc = "expired" /\ pc' = "failed"
    /\ hello_done' = FALSE /\ pending_salt' = FALSE
    /\ expected_pubkey' = None /\ identity_mismatch' = FALSE
    /\ sessions' = None
    /\ guard' = "disarmed"
    /\ result' = IF mismatched THEN "IdentityChanged" ELSE "P2pFailed"
    /\ UNCHANGED <<pin, net, permit, mismatched, punched, peer>>

\* The channel is attached and establish_transport_direct registers its
\* waiter; without a session the guard is left to clean up.
HelloAnswered ==
    /\ pc = "answered"
    /\ hello_done' = FALSE /\ identity_mismatch' = FALSE
    /\ IF sessions # None
       THEN pc' = "punching" /\ punched' = TRUE /\ UNCHANGED <<result, guard>>
       ELSE pc' = "failed" /\ result' = "P2pFailed" /\ guard' = "dropped" /\ UNCHANGED punched
    /\ UNCHANGED <<pin, net, permit, mismatched, pending_salt, expected_pubkey, sessions, peer>>

\* The punch is over, acknowledged or not, and the Session is returned.
PunchEnds ==
    /\ pc = "punching" /\ pc' = "open"
    /\ punched' = FALSE
    /\ guard' = "disarmed"
    /\ UNCHANGED <<pin, net, result, permit, mismatched, hello_done, pending_salt,
                   expected_pubkey, identity_mismatch, sessions, peer>>

\* The caller gives up first and drops the future, at any of its awaits.
Cancel ==
    /\ pc \in {"greeting", "waiting", "answered", "expired", "punching"}
    /\ pc' = "cancelled"
    /\ guard' = "dropped"
    /\ UNCHANGED <<pin, net, result, permit, mismatched, Maps, peer>>

\* Mutant: the guard forgets the salt.
SweepKeepsSalt ==
    /\ guard = "dropped" /\ guard' = "swept"
    /\ hello_done' = FALSE /\ expected_pubkey' = None
    /\ identity_mismatch' = FALSE /\ punched' = FALSE /\ sessions' = None
    /\ UNCHANGED <<pin, net, pc, result, permit, mismatched, pending_salt, peer>>

\* The task the guard's Drop spawned.
Sweep ==
    /\ guard = "dropped" /\ guard' = "swept"
    /\ hello_done' = FALSE /\ pending_salt' = FALSE /\ expected_pubkey' = None
    /\ identity_mismatch' = FALSE /\ punched' = FALSE /\ sessions' = None
    /\ UNCHANGED <<pin, net, pc, result, permit, mismatched, peer>>

\* Session::drop and the task it spawns.
DropSession ==
    /\ pc = "open" /\ pc' = "dropped"
    /\ UNCHANGED <<pin, net, result, permit, mismatched, guard, Maps, peer>>

RemoveSession ==
    /\ pc = "dropped" /\ pc' = "gone"
    /\ sessions' = None
    /\ UNCHANGED <<pin, net, result, permit, mismatched, guard, hello_done, pending_salt,
                   expected_pubkey, identity_mismatch, punched, peer>>

-----------------------------------------------------------------------------
(***************************************************************************)
(* on_hello_ack at the initiator                                           *)
(***************************************************************************)

\* The first ack under the pinned key is paired with the salt.  A further one
\* signals the waiter again, unless the session it finds is not the pinned
\* device's: one that on_hello let in, which is then evicted.
OnHelloAck(m) ==
    /\ m.type = "HelloAck"
    /\ \/ /\ sessions = None
          /\ expected_pubkey # None /\ m.key # expected_pubkey
          /\ mismatched' = (mismatched \/ identity_mismatch)
          /\ UNCHANGED <<permit, pending_salt, expected_pubkey, sessions>>
       \/ /\ sessions = None
          /\ expected_pubkey \in {None, m.key}
          /\ pending_salt
          /\ pending_salt' = FALSE /\ expected_pubkey' = None
          /\ sessions' = Opened(m.key, session_hs(m.salt, m.v2))
          /\ permit' = (permit \/ hello_done)
          /\ UNCHANGED mismatched
       \/ /\ sessions # None
          /\ LET evicts == expected_pubkey \notin {None, sessions.peer_pubkey}
             IN  /\ sessions' = IF evicts THEN None ELSE sessions
                 /\ mismatched' = (mismatched \/ (evicts /\ identity_mismatch))
                 /\ permit' = (permit \/ (hello_done /\ ~evicts))
          /\ UNCHANGED <<pending_salt, expected_pubkey>>
    /\ UNCHANGED <<pin, net, pc, result, guard, hello_done, identity_mismatch, punched, peer>>

-----------------------------------------------------------------------------
(***************************************************************************)
(* on_hello at the initiator                                               *)
(***************************************************************************)

\* Mutant: without the guard of conn-r15-1.
OnOwnHelloUnguarded(p, v2) ==
    /\ Hello(v2) \in net
    /\ sessions = None
    /\ sessions' = Accepted(p)
    /\ UNCHANGED <<pin, net, pc, result, permit, mismatched, guard, hello_done, pending_salt,
                   expected_pubkey, identity_mismatch, punched, peer>>

\* A device that has seen our Hello greets us under its session id.  It is
\* dropped while the call has a waiter or a salt, only acknowledged where a
\* session exists, and else accepted as any incoming connection.
OnOwnHello(p, v2) ==
    /\ Hello(v2) \in net
    /\ ~pending_salt /\ ~hello_done
    /\ sessions = None
    /\ sessions' = Accepted(p)
    /\ UNCHANGED <<pin, net, pc, result, permit, mismatched, guard, hello_done, pending_salt,
                   expected_pubkey, identity_mismatch, punched, peer>>

\* The app drops the Session it accepted, whose task removes the entry.
AcceptedDrops ==
    /\ sessions # None /\ sessions.role = "Responder"
    /\ sessions' = None
    /\ UNCHANGED <<pin, net, pc, result, permit, mismatched, guard, hello_done, pending_salt,
                   expected_pubkey, identity_mismatch, punched, peer>>

-----------------------------------------------------------------------------
(***************************************************************************)
(* on_hello at the other device                                            *)
(***************************************************************************)

\* Mutant: the ack takes the form of the Hello it answers.
OnHelloAcksInKind(p, v2) ==
    /\ Hello(v2) \in net /\ (p \in Old => ~v2)
    /\ IF peer_sessions[p] # None
       THEN net' = net \cup {HelloAck(p, peer_sessions[p].salt, v2)} /\ UNCHANGED peer
       ELSE /\ minted[p] < MaxSalts
            /\ minted' = [minted EXCEPT ![p] = @ + 1]
            /\ peer_sessions' = [peer_sessions EXCEPT ![p] =
                                    session_hs(minted[p] + 1, v2)]
            /\ peer_handle' = [peer_handle EXCEPT ![p] = IF @ = "none" THEN "held" ELSE "again"]
            /\ net' = net \cup {HelloAck(p, minted[p] + 1, v2)}
    /\ UNCHANGED <<pin, pc, result, permit, mismatched, guard, Maps>>

\* A repeated Hello is acknowledged under the salt and in the form the session
\* was created with; otherwise the session is created and emitted.
OnHello(p, v2) ==
    /\ Hello(v2) \in net /\ (p \in Old => ~v2)
    /\ \/ /\ peer_sessions[p] # None
          /\ net' = net \cup {HelloAck(p, peer_sessions[p].salt, peer_sessions[p].forward_secret)}
          /\ UNCHANGED peer
       \/ /\ peer_sessions[p] = None /\ minted[p] < MaxSalts
          /\ minted' = [minted EXCEPT ![p] = @ + 1]
          /\ peer_sessions' = [peer_sessions EXCEPT ![p] =
                                  session_hs(minted[p] + 1, v2)]
          /\ peer_handle' = [peer_handle EXCEPT ![p] = IF @ = "none" THEN "held" ELSE "again"]
          /\ net' = net \cup {HelloAck(p, minted[p] + 1, v2)}
    /\ UNCHANGED <<pin, pc, result, permit, mismatched, guard, Maps>>

PeerDrops(p) ==
    /\ peer_handle[p] \in {"held", "again"}
    /\ peer_handle' = [peer_handle EXCEPT ![p] = "dropped"]
    /\ UNCHANGED <<pin, net, pc, result, permit, mismatched, guard, Maps, minted, peer_sessions>>

PeerRemoves(p) ==
    /\ peer_handle[p] = "dropped" /\ peer_sessions[p] # None
    /\ peer_sessions' = [peer_sessions EXCEPT ![p] = None]
    /\ UNCHANGED <<pin, net, pc, result, permit, mismatched, guard, Maps, minted, peer_handle>>

-----------------------------------------------------------------------------

DirectInit ==
    /\ pin \in Peers \cup {None}
    /\ net = {} /\ pc = "idle" /\ result = "none"
    /\ permit = FALSE /\ mismatched = FALSE /\ guard = "none"
    /\ hello_done = FALSE /\ pending_salt = FALSE /\ identity_mismatch = FALSE
    /\ expected_pubkey = None /\ punched = FALSE /\ sessions = None
    /\ minted = [p \in Peers |-> 0]
    /\ peer_sessions = [p \in Peers |-> None]
    /\ peer_handle = [p \in Peers |-> "none"]

Call == GreetOld \/ HelloWakes \/ HelloExpired \/ HelloAnswered \/ PunchEnds

DirectNext ==
    \/ ConnectDirect \/ Call \/ Cancel \/ Sweep \/ DropSession \/ RemoveSession
    \/ \E m \in net : OnHelloAck(m)
    \/ AcceptedDrops
    \/ \E p \in Peers :
          \/ \E v2 \in BOOLEAN : OnHello(p, v2) \/ OnOwnHello(p, v2)
          \/ PeerDrops(p) \/ PeerRemoves(p)

\* The initiator's tasks run, and each of its waits has a deadline.
DirectFairness == WF_directvars(Call) /\ WF_directvars(Sweep)

DirectSpec == DirectInit /\ [][DirectNext]_directvars /\ DirectFairness

-----------------------------------------------------------------------------

\* Every variable has its shape; in particular every salt in an entry or on
\* the network was minted.
DirectTypeOK ==
    /\ pin \in Peers \cup {None}
    /\ net \subseteq Datagram
    /\ pc \in {"idle", "greeting", "waiting", "answered", "expired", "punching",
               "open", "dropped", "gone", "failed", "cancelled"}
    /\ result \in {"none", "IdentityChanged", "P2pFailed"}
    /\ permit \in BOOLEAN /\ mismatched \in BOOLEAN
    /\ guard \in {"none", "armed", "disarmed", "dropped", "swept"}
    /\ hello_done \in BOOLEAN /\ pending_salt \in BOOLEAN
    /\ identity_mismatch \in BOOLEAN /\ punched \in BOOLEAN
    /\ expected_pubkey \in Peers \cup {None}
    /\ sessions \in Session \cup {None}
    /\ minted \in [Peers -> 0 .. MaxSalts]
    /\ peer_sessions \in [Peers -> Key \cup {None}]
    /\ peer_handle \in [Peers -> {"none", "held", "dropped", "again"}]

Waiters == hello_done \/ pending_salt \/ expected_pubkey # None \/ identity_mismatch \/ punched

\* The entry under the call's id is the call's own.
Own == sessions # None /\ sessions.role = "Initiator"

\* As long as the call or its Session lives, the entry under its id, if there
\* is one, is the call's own, made with the pinned device if there is a pin,
\* which has then been checked; a device that greets under the id meanwhile
\* is never taken for it.
PinHonoured ==
    /\ Own => expected_pubkey = None /\ pin \in {None, sessions.peer_pubkey}
    /\ sessions # None /\ ~Own => ~Waiters /\ pc \in {"gone", "failed", "cancelled"}
    /\ pc \in {"punching", "open"} => Own

\* A connect that has returned leaves no waiter, salt or pin, and no session
\* unless it returned one; nor does a dropped future once its guard has swept.
\* Acks that arrive later bring none of it back.
NothingLeft ==
    /\ pc \in {"open", "dropped", "gone"} => ~Waiters
    /\ pc = "failed" \/ guard = "swept" => ~Waiters /\ ~Own

\* After a cancellation the guard's sweep removes everything, and no ack still
\* under way can bring any of it back.
CancelledLeavesNothing == pc = "cancelled" ~> [](~Waiters /\ ~Own)

\* Both ends hold the same key, of the same form, as long as the other app has
\* kept its Session, in whatever order the two forms of Hello and the acks
\* arrive and however often they are repeated.
KeyAgreement ==
    Own =>
        LET p == sessions.peer_pubkey
        IN  peer_handle[p] = "held" => peer_sessions[p] = sessions.key
=============================================================================

----------------------------- MODULE Rendezvous -----------------------------
(***************************************************************************)
(* One connection by device id through the relay: `connect_pinned` at the  *)
(* requester (node.rs), its PeerFound handler and the host's `on_incoming` *)
(* (handlers.rs), and the end of a Session (session.rs).  All state is     *)
(* kept per session id, and ids are random, so one session is modelled.    *)
(*                                                                         *)
(* Several devices may answer for the requested id, because the relay does *)
(* not prove which one owns it.  A device is named by its public key.  The *)
(* network loses, duplicates and reorders datagrams.  The session key is   *)
(* derived from both salts: the requester has one, so a key is named by    *)
(* the device and the host's salt.  How the transport is chosen is the     *)
(* subject of PathChoice; here it succeeds or, in P2pOnly, may fail.       *)
(***************************************************************************)
EXTENDS Naturals

CONSTANTS
    Hosts,      \* the devices that may answer, by public key
    None,       \* an absent key, session or rate cap
    Caps,       \* rate caps the relay may announce
    Modes,      \* the network modes considered
    MaxSalts    \* bound: salts a host mints for the session

ASSUME RendezvousAssumption ==
    /\ None \notin Hosts \cup Caps \cup Nat
    /\ None \notin [peer_pubkey : Hosts, salt : Nat, data_tx : BOOLEAN]
    /\ Modes \subseteq {"Auto", "P2pOnly", "RelayOnly"}
    /\ MaxSalts \in Nat

VARIABLES
    mode, pin,          \* the requester's mode and the key it expects
    registered,         \* the nodes that hold an id and a token
    net,                \* every datagram sent so far
    pc, result,         \* progress of connect_pinned, and the error it returned
    permit,             \* the stored permit of the peer_found Notify
    mismatched,         \* the AtomicBool shared with the PeerFound handler
    peer_found, pending_salt, expected_pubkey, identity_mismatch,
    pending_rate_cap, sessions,         \* the requester's entries in Inner
    minted,             \* per host, the salts minted so far
    host_sessions,      \* per host, the salt of its SessionState
    host_handle         \* per host, its app's Session: none, held, dropped, or
                        \* again: a further one after a drop

Maps == <<peer_found, pending_salt, expected_pubkey, identity_mismatch, pending_rate_cap, sessions>>
env  == <<mode, pin, registered>>
host == <<minted, host_sessions, host_handle>>
rdvvars == <<env, net, pc, result, permit, mismatched, Maps, host>>

Requester == "requester"

Connect          == [type |-> "Connect"]
Incoming(h)      == [type |-> "Incoming", to |-> h]
Accept(h, n)     == [type |-> "Accept", key |-> h, salt |-> n]
PeerFound(h,n,c) == [type |-> "PeerFound", key |-> h, salt |-> n, cap |-> c]

Session == [peer_pubkey : Hosts, salt : 1 .. MaxSalts, data_tx : BOOLEAN]

-----------------------------------------------------------------------------
(***************************************************************************)
(* The relay (external).                                                   *)
(***************************************************************************)

\* A Connect goes to the device that holds the id at that moment.
RelayForwards(h) ==
    /\ Connect \in net
    /\ net' = net \cup {Incoming(h)}
    /\ UNCHANGED <<env, pc, result, permit, mismatched, Maps, host>>

\* An Accept comes back as PeerFound, with the session's rate cap.
RelayAnswers(h) ==
    /\ \E m \in net, c \in Caps :
          /\ m.type = "Accept" /\ m.key = h
          /\ net' = net \cup {PeerFound(h, m.salt, c)}
    /\ UNCHANGED <<env, pc, result, permit, mismatched, Maps, host>>

-----------------------------------------------------------------------------
(***************************************************************************)
(* connect_pinned                                                          *)
(***************************************************************************)

\* The waiter, the salt and the pin are registered, then Connect is sent.  A
\* socket error returns at once.
ConnectStart ==
    /\ pc = "idle"
    /\ \/ /\ Requester \notin registered
          /\ pc' = "failed" /\ result' = "NotRegistered"
          /\ UNCHANGED <<net, Maps>>
       \/ /\ Requester \in registered
          /\ peer_found' = TRUE /\ pending_salt' = TRUE
          /\ expected_pubkey' = pin
          /\ identity_mismatch' = (pin # None)
          /\ \/ net' = net \cup {Connect} /\ pc' = "waiting" /\ UNCHANGED result
             \/ pc' = "failed" /\ result' = "Io" /\ UNCHANGED net
          /\ UNCHANGED <<pending_rate_cap, sessions>>
    /\ UNCHANGED <<env, permit, mismatched, host>>

\* Mutant: the wait has no deadline.
ConnectWakesOnAnswer ==
    /\ pc = "waiting" /\ permit
    /\ pc' = "answered"
    /\ permit' = FALSE
    /\ UNCHANGED <<env, net, result, mismatched, Maps, host>>

\* The wait ends: with the permit, or when the time is up without one.
ConnectWakes ==
    /\ pc = "waiting"
    /\ pc' = IF permit THEN "answered" ELSE "expired"
    /\ permit' = FALSE
    /\ UNCHANGED <<env, net, result, mismatched, Maps, host>>

\* Mutant: the rate cap of an answer that came too late stays behind.
ConnectExpiredKeepsCap ==
    /\ pc = "expired"
    /\ peer_found' = FALSE /\ identity_mismatch' = FALSE
    /\ pending_salt' = FALSE /\ expected_pubkey' = None /\ sessions' = None
    /\ pc' = "failed"
    /\ result' = IF mismatched THEN "IdentityChanged" ELSE "TargetUnreachable"
    /\ UNCHANGED <<env, net, permit, mismatched, pending_rate_cap, host>>

\* Locked again after a timeout; a PeerFound may have been handled meanwhile.
ConnectExpired ==
    /\ pc = "expired"
    /\ peer_found' = FALSE /\ identity_mismatch' = FALSE
    /\ pending_salt' = FALSE /\ expected_pubkey' = None
    /\ pending_rate_cap' = None /\ sessions' = None
    /\ pc' = "failed"
    /\ result' = IF mismatched THEN "IdentityChanged" ELSE "TargetUnreachable"
    /\ UNCHANGED <<env, net, permit, mismatched, host>>

\* Locked again after an answer: only the waiter goes.
ConnectAnswered ==
    /\ pc = "answered"
    /\ peer_found' = FALSE /\ identity_mismatch' = FALSE
    /\ pc' = "establish"
    /\ UNCHANGED <<env, net, result, permit, mismatched, pending_salt, expected_pubkey,
                   pending_rate_cap, sessions, host>>

\* establish_transport, and what follows a failure of it.
Establish ==
    /\ pc = "establish"
    /\ \/ pc' = "finish" /\ UNCHANGED <<result, pending_rate_cap, sessions>>
       \/ /\ mode = "P2pOnly"
          /\ pc' = "failed" /\ result' = "P2pFailed"
          /\ pending_rate_cap' = None /\ sessions' = None
    /\ UNCHANGED <<env, net, permit, mismatched, peer_found, pending_salt,
                   expected_pubkey, identity_mismatch, host>>

\* The Session is built: it takes the rate cap and the inbound channel.
ConnectReturns ==
    /\ pc = "finish"
    /\ pc' = "open"
    /\ pending_rate_cap' = None
    /\ sessions' = IF sessions = None THEN None ELSE [sessions EXCEPT !.data_tx = TRUE]
    /\ UNCHANGED <<env, net, result, permit, mismatched, peer_found, pending_salt,
                   expected_pubkey, identity_mismatch, host>>

\* Session::drop and the task it spawns.
DropSession ==
    /\ pc = "open" /\ pc' = "dropped"
    /\ UNCHANGED <<env, net, result, permit, mismatched, Maps, host>>

RemoveSession ==
    /\ pc = "dropped" /\ pc' = "gone"
    /\ sessions' = None
    /\ UNCHANGED <<env, net, result, permit, mismatched, peer_found, pending_salt,
                   expected_pubkey, identity_mismatch, pending_rate_cap, host>>

-----------------------------------------------------------------------------
(***************************************************************************)
(* The PeerFound handler at the requester                                  *)
(***************************************************************************)

\* Mutant: the pin is taken out of the map before it is compared.
OnPeerFoundForgetsPin(m) ==
    /\ m.type = "PeerFound"
    /\ IF expected_pubkey # None /\ m.key # expected_pubkey
       THEN /\ mismatched' = (mismatched \/ identity_mismatch)
            /\ expected_pubkey' = None
            /\ UNCHANGED <<permit, pending_salt, peer_found, identity_mismatch, pending_rate_cap, sessions>>
       ELSE /\ pending_salt
            /\ pending_salt' = FALSE /\ expected_pubkey' = None
            /\ sessions' = [peer_pubkey |-> m.key, salt |-> m.salt, data_tx |-> FALSE]
            /\ pending_rate_cap' = m.cap
            /\ permit' = (permit \/ peer_found)
            /\ UNCHANGED <<mismatched, peer_found, identity_mismatch>>
    /\ UNCHANGED <<env, net, pc, result, host>>

\* Mutant: any answer to a pinned connect is noted as a mismatch.
OnPeerFoundNotesAny(m) ==
    /\ m.type = "PeerFound"
    /\ mismatched' = (mismatched \/ identity_mismatch)
    /\ expected_pubkey \in {None, m.key} /\ pending_salt
    /\ pending_salt' = FALSE /\ expected_pubkey' = None
    /\ sessions' = [peer_pubkey |-> m.key, salt |-> m.salt, data_tx |-> FALSE]
    /\ pending_rate_cap' = m.cap
    /\ permit' = (permit \/ peer_found)
    /\ UNCHANGED <<env, net, pc, result, host, peer_found, identity_mismatch>>

\* An answer under another key than the pinned one is dropped and noted, and
\* the pin and the salt stay for a later answer.  Otherwise the first answer
\* is paired with the salt; any further one finds no salt.
OnPeerFound(m) ==
    /\ m.type = "PeerFound"
    /\ IF expected_pubkey # None /\ m.key # expected_pubkey
       THEN /\ mismatched' = (mismatched \/ identity_mismatch)
            /\ UNCHANGED <<permit, Maps>>
       ELSE /\ pending_salt
            /\ pending_salt' = FALSE /\ expected_pubkey' = None
            /\ sessions' = [peer_pubkey |-> m.key, salt |-> m.salt, data_tx |-> FALSE]
            /\ pending_rate_cap' = m.cap
            /\ permit' = (permit \/ peer_found)
            /\ UNCHANGED <<mismatched, peer_found, identity_mismatch>>
    /\ UNCHANGED <<env, net, pc, result, host>>

-----------------------------------------------------------------------------
(***************************************************************************)
(* The host                                                                *)
(***************************************************************************)

\* Mutant: a repeated Incoming starts the session over with a new salt.
OnIncomingStartsOver(h) ==
    /\ Incoming(h) \in net
    /\ h \in registered /\ minted[h] < MaxSalts
    /\ minted' = [minted EXCEPT ![h] = @ + 1]
    /\ host_sessions' = [host_sessions EXCEPT ![h] = minted[h] + 1]
    /\ host_handle' = [host_handle EXCEPT ![h] = "held"]
    /\ net' = net \cup {Accept(h, minted[h] + 1)}
    /\ UNCHANGED <<env, pc, result, permit, mismatched, Maps>>

\* A session that exists already is accepted again under the salt it has;
\* otherwise a salt is minted, the session inserted, accepted and emitted.
OnIncoming(h) ==
    /\ Incoming(h) \in net
    /\ h \in registered
    /\ \/ /\ host_sessions[h] # None
          /\ net' = net \cup {Accept(h, host_sessions[h])}
          /\ UNCHANGED host
       \/ /\ host_sessions[h] = None /\ minted[h] < MaxSalts
          /\ minted' = [minted EXCEPT ![h] = @ + 1]
          /\ host_sessions' = [host_sessions EXCEPT ![h] = minted[h] + 1]
          /\ host_handle' = [host_handle EXCEPT ![h] = IF @ = "none" THEN "held" ELSE "again"]
          /\ net' = net \cup {Accept(h, minted[h] + 1)}
    /\ UNCHANGED <<env, pc, result, permit, mismatched, Maps>>

HostDrops(h) ==
    /\ host_handle[h] \in {"held", "again"}
    /\ host_handle' = [host_handle EXCEPT ![h] = "dropped"]
    /\ UNCHANGED <<env, net, pc, result, permit, mismatched, Maps, minted, host_sessions>>

HostRemoves(h) ==
    /\ host_handle[h] = "dropped" /\ host_sessions[h] # None
    /\ host_sessions' = [host_sessions EXCEPT ![h] = None]
    /\ UNCHANGED <<env, net, pc, result, permit, mismatched, Maps, minted, host_handle>>

-----------------------------------------------------------------------------

RendezvousInit ==
    /\ mode \in Modes /\ pin \in Hosts \cup {None}
    /\ registered \in SUBSET (Hosts \cup {Requester})
    /\ net = {} /\ pc = "idle" /\ result = "none"
    /\ permit = FALSE /\ mismatched = FALSE
    /\ peer_found = FALSE /\ pending_salt = FALSE /\ identity_mismatch = FALSE
    /\ expected_pubkey = None /\ pending_rate_cap = None /\ sessions = None
    /\ minted = [h \in Hosts |-> 0]
    /\ host_sessions = [h \in Hosts |-> None]
    /\ host_handle = [h \in Hosts |-> "none"]

Call == ConnectStart \/ ConnectWakes \/ ConnectExpired \/ ConnectAnswered \/ Establish \/ ConnectReturns

RendezvousNext ==
    \/ Call \/ DropSession \/ RemoveSession
    \/ \E m \in net : OnPeerFound(m)
    \/ \E h \in Hosts :
          RelayForwards(h) \/ RelayAnswers(h) \/ OnIncoming(h) \/ HostDrops(h) \/ HostRemoves(h)

\* The requester's task runs, and each of its waits has a deadline.
RendezvousFairness == WF_rdvvars(Call)

RendezvousSpec == RendezvousInit /\ [][RendezvousNext]_rdvvars /\ RendezvousFairness

-----------------------------------------------------------------------------

\* Every variable has its shape; in particular every salt in an entry or on
\* the network was minted.
RendezvousTypeOK ==
    /\ mode \in Modes /\ pin \in Hosts \cup {None}
    /\ registered \in SUBSET (Hosts \cup {Requester})
    /\ \A m \in net :
          \/ m = Connect
          \/ m.type = "Incoming" /\ m.to \in Hosts
          \/ m.type = "Accept" /\ m.key \in Hosts /\ m.salt \in 1 .. MaxSalts
          \/ m.type = "PeerFound" /\ m.key \in Hosts /\ m.salt \in 1 .. MaxSalts /\ m.cap \in Caps
    /\ pc \in {"idle", "waiting", "answered", "expired", "establish", "finish",
               "open", "dropped", "gone", "failed"}
    /\ result \in {"none", "NotRegistered", "Io", "IdentityChanged", "TargetUnreachable", "P2pFailed"}
    /\ permit \in BOOLEAN /\ mismatched \in BOOLEAN
    /\ peer_found \in BOOLEAN /\ pending_salt \in BOOLEAN /\ identity_mismatch \in BOOLEAN
    /\ expected_pubkey \in Hosts \cup {None}
    /\ pending_rate_cap \in Caps \cup {None}
    /\ sessions \in Session \cup {None}
    /\ minted \in [Hosts -> 0 .. MaxSalts]
    /\ host_sessions \in [Hosts -> (1 .. MaxSalts) \cup {None}]
    /\ host_handle \in [Hosts -> {"none", "held", "dropped", "again"}]

\* With a pinned key, the requester never derives a session with another
\* device, however many answers of it arrive and in whatever order.
PinHonoured == sessions # None /\ pin # None => sessions.peer_pubkey = pin

Waiters == peer_found \/ pending_salt \/ expected_pubkey # None \/ identity_mismatch \/ pending_rate_cap # None

\* A connect that got its Connect out leaves nothing behind: no waiter, salt,
\* pin or cap once it has returned, and no session unless it returned one,
\* even when the answer arrives after the deadline or after it gave up.
NothingLeft ==
    /\ pc \in {"open", "dropped", "gone"} => ~Waiters
    /\ pc = "failed" /\ result # "Io" => ~Waiters /\ sessions = None

\* An established requester and the host it is established with hold the same
\* key as long as the host's app has kept its Session, however often Connect,
\* Incoming and Accept were repeated.
KeyAgreement ==
    sessions # None =>
        LET h == sessions.peer_pubkey
        IN  host_handle[h] = "held" => host_sessions[h] = sessions.salt

\* IdentityChanged is reported only to a caller that pinned a key, when
\* another device answered, and never when the pinned one was accepted.
VerdictTrue ==
    result = "IdentityChanged" =>
        pin # None /\ sessions = None /\ \E m \in net : m.type = "PeerFound" /\ m.key # pin

\* A connect comes to an end, with or without an answer.
ConnectEnds == pc = "waiting" ~> pc \in {"open", "failed"}

-----------------------------------------------------------------------------
(***************************************************************************)
(* The inductive strengthening from which the safety properties are proved *)
(* (RendezvousProofs).                                                     *)
(***************************************************************************)

\* While the salt waits for an answer the pin is in the map, and afterwards
\* neither is; the mismatch flag is armed only for a pinned connect.
PinInv ==
    /\ pending_salt => expected_pubkey = pin
    /\ ~pending_salt => expected_pubkey = None
    /\ identity_mismatch => pin # None

\* What is in the maps at each point of connect_pinned.
ProgressInv ==
    /\ pc = "idle" => ~Waiters /\ sessions = None /\ ~permit
    /\ pc = "waiting" /\ permit => ~pending_salt
    /\ pc \in {"answered", "establish", "finish"} => ~pending_salt
    /\ pc \in {"establish", "finish", "open", "dropped", "gone"} => ~peer_found /\ ~identity_mismatch
    /\ pc \in {"open", "dropped", "gone"} => ~pending_salt /\ pending_rate_cap = None
    /\ result # "none" => pc = "failed"

\* Every answer under way carries the salt of the host's first session, as
\* long as the host's app has kept it.
SaltInv ==
    /\ \A m \in net : m.type \in {"Accept", "PeerFound"} =>
          /\ host_handle[m.key] # "none"
          /\ host_handle[m.key] = "held" => m.salt = host_sessions[m.key]
    /\ \A h \in Hosts : host_handle[h] = "none" => host_sessions[h] = None
    /\ \A h \in Hosts : host_handle[h] = "held" => host_sessions[h] # None
    /\ sessions # None => host_handle[sessions.peer_pubkey] # "none"

\* The mismatch flag is set only by an answer of another device.
FlagInv ==
    mismatched => pin # None /\ \E m \in net : m.type = "PeerFound" /\ m.key # pin

IInv ==
    /\ RendezvousTypeOK /\ PinInv /\ ProgressInv /\ SaltInv /\ FlagInv
    /\ PinHonoured /\ NothingLeft /\ KeyAgreement /\ VerdictTrue
=============================================================================

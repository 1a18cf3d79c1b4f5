-------------------------- MODULE RendezvousProofs --------------------------
(***************************************************************************)
(* Proofs about a connection through the relay, for any set of answering   *)
(* devices and any number of repetitions: IInv is inductive, and the       *)
(* safety properties of Rendezvous are conjuncts of it.                    *)
(***************************************************************************)
EXTENDS Rendezvous, TLAPS

\* The invariant holds before the first connect.
LEMMA InitInv == RendezvousInit => IInv
<1> SUFFICES ASSUME RendezvousInit PROVE IInv
  OBVIOUS
<1> USE RendezvousAssumption DEF RendezvousInit
<1>1. RendezvousTypeOK
  <2>1. 0 \in 0 .. MaxSalts
    OBVIOUS
  <2>2. minted \in [Hosts -> 0 .. MaxSalts]
    BY <2>1
  <2>3. host_sessions \in [Hosts -> (1 .. MaxSalts) \cup {None}]
    OBVIOUS
  <2>4. host_handle \in [Hosts -> {"none", "held", "dropped", "again"}]
    OBVIOUS
  <2> QED BY <2>2, <2>3, <2>4 DEF RendezvousTypeOK
<1>2. PinInv /\ ProgressInv /\ SaltInv /\ FlagInv
  BY DEF PinInv, ProgressInv, SaltInv, FlagInv, Waiters
<1>3. PinHonoured /\ NothingLeft /\ KeyAgreement /\ VerdictTrue
  BY DEF PinHonoured, NothingLeft, KeyAgreement, VerdictTrue
<1> QED BY <1>1, <1>2, <1>3 DEF IInv

\* The relay only puts on the network what the hosts answered.
LEMMA RelayInv ==
    ASSUME IInv, NEW h \in Hosts, RelayForwards(h) \/ RelayAnswers(h)
    PROVE  IInv'
<1> USE DEF IInv, env, host, Maps
<1>1. CASE RelayForwards(h)
  <2> USE <1>1 DEF RelayForwards, Incoming
  <2>1. RendezvousTypeOK'
    BY DEF RendezvousTypeOK
  <2>2. (PinInv /\ ProgressInv /\ FlagInv)'
    BY DEF PinInv, ProgressInv, FlagInv, Waiters
  <2>3. SaltInv'
    BY DEF SaltInv
  <2>4. (PinHonoured /\ NothingLeft /\ KeyAgreement /\ VerdictTrue)'
    BY DEF PinHonoured, NothingLeft, KeyAgreement, VerdictTrue, Waiters
  <2> QED BY <2>1, <2>2, <2>3, <2>4
<1>2. CASE RelayAnswers(h)
  <2> USE DEF RelayAnswers, PeerFound
  <2>0. PICK a \in net, c \in Caps :
          a.type = "Accept" /\ a.key = h /\ net' = net \cup {PeerFound(h, a.salt, c)}
    BY <1>2
  <2>1. RendezvousTypeOK'
    BY <1>2, <2>0 DEF RendezvousTypeOK, Connect
  <2>2. (PinInv /\ ProgressInv /\ FlagInv)'
    BY <1>2, <2>0 DEF PinInv, ProgressInv, FlagInv, Waiters
  <2>3. SaltInv'
    BY <1>2, <2>0 DEF SaltInv
  <2>4. (PinHonoured /\ NothingLeft /\ KeyAgreement /\ VerdictTrue)'
    BY <1>2, <2>0 DEF PinHonoured, NothingLeft, KeyAgreement, VerdictTrue, Waiters
  <2> QED BY <2>1, <2>2, <2>3, <2>4
<1> QED BY <1>1, <1>2

\* Every step of connect_pinned, and the end of its Session, keeps the maps in
\* step with its progress.
LEMMA CallInv ==
    ASSUME IInv, Call \/ DropSession \/ RemoveSession
    PROVE  IInv'
<1> USE RendezvousAssumption DEF IInv, env, host, Maps
<1>1. RendezvousTypeOK'
  <2>1. CASE ConnectStart
    BY <2>1 DEF ConnectStart, RendezvousTypeOK, Connect
  <2>2. CASE ConnectWakes \/ ConnectExpired \/ ConnectAnswered \/ Establish
    BY <2>2 DEF ConnectWakes, ConnectExpired, ConnectAnswered, Establish, RendezvousTypeOK
  <2>3. CASE ConnectReturns
    <3>1. sessions' \in Session \cup {None}
      BY <2>3 DEF ConnectReturns, RendezvousTypeOK, Session
    <3> QED BY <2>3, <3>1 DEF ConnectReturns, RendezvousTypeOK
  <2>4. CASE DropSession \/ RemoveSession
    BY <2>4 DEF DropSession, RemoveSession, RendezvousTypeOK
  <2> QED BY <2>1, <2>2, <2>3, <2>4 DEF Call
<1>2. SaltInv' /\ KeyAgreement' /\ PinHonoured'
  <2>0. /\ UNCHANGED <<pin, minted, host_sessions, host_handle>>
        /\ net' = net \/ net' = net \cup {Connect}
    BY DEF Call, ConnectStart, ConnectWakes, ConnectExpired, ConnectAnswered, Establish,
           ConnectReturns, DropSession, RemoveSession
  <2>1. \/ sessions' = sessions
        \/ sessions' = None
        \/ sessions # None /\ sessions' = [sessions EXCEPT !.data_tx = TRUE]
    BY DEF Call, ConnectStart, ConnectWakes, ConnectExpired, ConnectAnswered, Establish,
           ConnectReturns, DropSession, RemoveSession
  <2>2. sessions' # None =>
          /\ sessions # None
          /\ sessions'.peer_pubkey = sessions.peer_pubkey /\ sessions'.salt = sessions.salt
    BY <2>1 DEF RendezvousTypeOK, Session
  <2> QED BY <2>0, <2>2 DEF SaltInv, KeyAgreement, PinHonoured, Connect
<1>3. PinInv' /\ FlagInv'
  <2>1. CASE ConnectStart
    <3>1. CASE UNCHANGED Maps
      BY <2>1, <3>1 DEF ConnectStart, PinInv, FlagInv
    <3>2. CASE ~UNCHANGED Maps
      <4>1. /\ pending_salt' = TRUE /\ expected_pubkey' = pin
            /\ identity_mismatch' = (pin # None)
            /\ UNCHANGED <<env, mismatched>> /\ net \subseteq net'
        BY <2>1, <3>2 DEF ConnectStart
      <4>2. PinInv'
        BY <4>1, Zenon DEF PinInv
      <4>3. FlagInv'
        BY <4>1 DEF FlagInv
      <4> QED BY <4>2, <4>3
    <3> QED BY <3>1, <3>2
  <2> QED BY <2>1 DEF Call, ConnectWakes, ConnectExpired, ConnectAnswered, Establish,
           ConnectReturns, DropSession, RemoveSession, PinInv, FlagInv
<1>4. ProgressInv'
  <2>1. CASE ConnectStart
    <3>0. pc = "idle" /\ UNCHANGED permit
      BY <2>1 DEF ConnectStart
    <3>1. ~permit /\ result = "none"
      BY <3>0, Zenon DEF ProgressInv
    <3>2. (pc' = "waiting" /\ result' = result) \/ pc' = "failed"
      BY <2>1 DEF ConnectStart
    <3> QED BY <3>0, <3>1, <3>2 DEF ProgressInv
  <2>2. CASE ConnectWakes \/ ConnectExpired \/ ConnectAnswered
    BY <2>2 DEF ConnectWakes, ConnectExpired, ConnectAnswered, ProgressInv, Waiters, RendezvousTypeOK
  <2>3. CASE Establish \/ ConnectReturns \/ DropSession \/ RemoveSession
    BY <2>3 DEF Establish, ConnectReturns, DropSession, RemoveSession, ProgressInv, Waiters, RendezvousTypeOK
  <2> QED BY <2>1, <2>2, <2>3 DEF Call
<1>5. NothingLeft' /\ VerdictTrue'
  <2>1. CASE ConnectStart
    BY <2>1 DEF ConnectStart, NothingLeft, VerdictTrue, ProgressInv, Waiters
  <2>2. CASE ConnectWakes \/ ConnectAnswered
    BY <2>2 DEF ConnectWakes, ConnectAnswered, NothingLeft, VerdictTrue, ProgressInv, Waiters
  <2>3. CASE ConnectExpired
    BY <2>3 DEF ConnectExpired, NothingLeft, VerdictTrue, FlagInv, Waiters
  <2>4. CASE Establish
    BY <2>4 DEF Establish, NothingLeft, VerdictTrue, ProgressInv, PinInv, Waiters
  <2>5. CASE ConnectReturns \/ DropSession \/ RemoveSession
    BY <2>5 DEF ConnectReturns, DropSession, RemoveSession, NothingLeft, VerdictTrue,
                ProgressInv, PinInv, Waiters
  <2> QED BY <2>1, <2>2, <2>3, <2>4, <2>5 DEF Call
<1> QED BY <1>1, <1>2, <1>3, <1>4, <1>5

\* The PeerFound handler pairs an answer with the salt only under the pin,
\* and changes nothing once the connect is over.
LEMMA PeerFoundInv ==
    ASSUME IInv, NEW m \in net, OnPeerFound(m)
    PROVE  IInv'
<1> USE RendezvousAssumption DEF IInv, env, host
<1>0. m.type = "PeerFound" /\ m.key \in Hosts /\ m.salt \in 1 .. MaxSalts /\ m.cap \in Caps
  BY DEF OnPeerFound, RendezvousTypeOK, Connect
<1>1. CASE expected_pubkey # None /\ m.key # expected_pubkey
  <2>1. UNCHANGED <<env, net, pc, result, permit, Maps, host>>
    BY <1>1 DEF OnPeerFound
  <2>2. mismatched' \in BOOLEAN /\ (mismatched' => mismatched \/ (pin # None /\ m.key # pin))
    BY <1>1 DEF OnPeerFound, PinInv, RendezvousTypeOK
  <2>3. FlagInv'
    BY <2>1, <2>2, <1>0 DEF FlagInv
  <2> QED
    BY <2>1, <2>2, <2>3 DEF Maps, RendezvousTypeOK, PinInv, ProgressInv, SaltInv, PinHonoured, NothingLeft,
                            KeyAgreement, VerdictTrue, Waiters
<1>2. CASE ~(expected_pubkey # None /\ m.key # expected_pubkey)
  <2>0. /\ pending_salt /\ pending_salt' = FALSE /\ expected_pubkey' = None
        /\ sessions' = [peer_pubkey |-> m.key, salt |-> m.salt, data_tx |-> FALSE]
        /\ pending_rate_cap' = m.cap
        /\ permit' = (permit \/ peer_found)
        /\ UNCHANGED <<env, net, pc, result, mismatched, peer_found, identity_mismatch, host>>
    BY <1>2 DEF OnPeerFound
  <2>1. RendezvousTypeOK'
    BY <1>0, <2>0 DEF RendezvousTypeOK, Session
  <2>2. PinInv' /\ FlagInv'
    BY <2>0 DEF PinInv, FlagInv
  <2>3. pc \in {"waiting", "expired"} \/ (pc = "failed" /\ result = "Io")
    BY <2>0 DEF ProgressInv, NothingLeft, Waiters, RendezvousTypeOK
  <2>4. ProgressInv' /\ NothingLeft' /\ VerdictTrue'
    BY <2>0, <2>3 DEF ProgressInv, NothingLeft, VerdictTrue
  <2>5. PinHonoured'
    BY <1>2, <2>0 DEF PinHonoured, PinInv
  <2>6. sessions' # None /\ sessions'.peer_pubkey = m.key /\ sessions'.salt = m.salt
    <3>1. sessions' \in [peer_pubkey : Hosts, salt : Nat, data_tx : BOOLEAN]
      BY <1>0, <2>0
    <3> QED BY <2>0, <3>1
  <2>7. SaltInv' /\ KeyAgreement'
    BY <1>0, <2>0, <2>6 DEF SaltInv, KeyAgreement
  <2> QED BY <2>1, <2>2, <2>4, <2>5, <2>7
<1> QED BY <1>1, <1>2

\* A host answers a session it has under the salt it has.
LEMMA HostInv ==
    ASSUME IInv, NEW h \in Hosts, OnIncoming(h) \/ HostDrops(h) \/ HostRemoves(h)
    PROVE  IInv'
<1> USE RendezvousAssumption DEF IInv, env, Maps
<1>0. UNCHANGED <<env, pc, result, permit, mismatched, Maps>> /\ net \subseteq net'
  BY DEF OnIncoming, HostDrops, HostRemoves
<1>1. RendezvousTypeOK'
  <2>1. CASE OnIncoming(h)
    <3>1. CASE host_sessions[h] # None
      BY <2>1, <3>1 DEF OnIncoming, RendezvousTypeOK, Accept, Connect, host
    <3>2. CASE host_sessions[h] = None
      <4>1. minted[h] + 1 \in 1 .. MaxSalts
        BY <2>1, <3>2 DEF OnIncoming, RendezvousTypeOK
      <4> QED BY <2>1, <3>2, <4>1 DEF OnIncoming, RendezvousTypeOK, Accept, Connect
    <3> QED BY <3>1, <3>2
  <2>2. CASE HostDrops(h) \/ HostRemoves(h)
    BY <2>2 DEF HostDrops, HostRemoves, RendezvousTypeOK
  <2> QED BY <2>1, <2>2
<1>2. (PinInv /\ ProgressInv /\ FlagInv /\ PinHonoured /\ NothingLeft /\ VerdictTrue)'
  BY <1>0 DEF PinInv, ProgressInv, FlagInv, PinHonoured, NothingLeft, VerdictTrue, Waiters
<1>3. SaltInv' /\ KeyAgreement'
  <2>0. /\ sessions' = sessions
        /\ sessions # None => sessions.peer_pubkey \in Hosts
        /\ \A m \in net : m.type \in {"Accept", "PeerFound"} => m.key \in Hosts
    BY <1>0 DEF RendezvousTypeOK, Session, Connect
  <2>1. CASE OnIncoming(h) /\ host_sessions[h] # None
    BY <2>0, <2>1 DEF OnIncoming, SaltInv, KeyAgreement, RendezvousTypeOK, Accept, host
  <2>2. CASE OnIncoming(h) /\ host_sessions[h] = None
    <3>1. /\ host_sessions' = [host_sessions EXCEPT ![h] = minted[h] + 1]
          /\ host_handle' = [host_handle EXCEPT ![h] = IF @ = "none" THEN "held" ELSE "again"]
          /\ net' = net \cup {Accept(h, minted[h] + 1)}
          /\ minted[h] + 1 \in Nat
      BY <2>2 DEF OnIncoming, RendezvousTypeOK
    <3>2. host_handle[h] # "held"
      BY <2>2 DEF SaltInv
    <3> QED BY <2>0, <3>1, <3>2 DEF SaltInv, KeyAgreement, RendezvousTypeOK, Accept
  <2>3. CASE HostDrops(h) \/ HostRemoves(h)
    BY <2>0, <2>3 DEF HostDrops, HostRemoves, SaltInv, KeyAgreement, RendezvousTypeOK
  <2> QED BY <2>1, <2>2, <2>3
<1> QED BY <1>1, <1>2, <1>3

\* Every step preserves the invariant.
LEMMA StepInv == IInv /\ [RendezvousNext]_rdvvars => IInv'
<1> SUFFICES ASSUME IInv, [RendezvousNext]_rdvvars PROVE IInv'
  OBVIOUS
<1>1. CASE Call \/ DropSession \/ RemoveSession
  BY <1>1, CallInv
<1>2. CASE \E m \in net : OnPeerFound(m)
  BY <1>2, PeerFoundInv
<1>3. CASE \E h \in Hosts : RelayForwards(h) \/ RelayAnswers(h)
  BY <1>3, RelayInv
<1>4. CASE \E h \in Hosts : OnIncoming(h) \/ HostDrops(h) \/ HostRemoves(h)
  BY <1>4, HostInv
<1>5. CASE UNCHANGED rdvvars
  BY <1>5 DEF rdvvars, env, Maps, host, IInv, RendezvousTypeOK, PinInv, ProgressInv, SaltInv, FlagInv,
              PinHonoured, NothingLeft, KeyAgreement, VerdictTrue, Waiters
<1> QED BY <1>1, <1>2, <1>3, <1>4, <1>5 DEF RendezvousNext

-----------------------------------------------------------------------------

\* The inductive invariant holds in every reachable state.
THEOREM Invariance == RendezvousSpec => []IInv
BY InitInv, StepInv, PTL DEF RendezvousSpec

\* Type correctness of the rendezvous.
THEOREM TypeCorrect == RendezvousSpec => []RendezvousTypeOK
BY Invariance, PTL DEF IInv

\* For any number of devices answering for the id, `connect_pinned` with a key
\* never ends up in a session with another device.
THEOREM PinIsHonoured == RendezvousSpec => []PinHonoured
BY Invariance, PTL DEF IInv

\* A connect whose Connect went out leaves no entry of Inner behind, however
\* its deadline and the answers interleave.
THEOREM LeavesNothing == RendezvousSpec => []NothingLeft
BY Invariance, PTL DEF IInv

\* The two ends derive the same key, however often the handshake datagrams are
\* repeated, as long as the host's app keeps its Session.
THEOREM KeysAgree == RendezvousSpec => []KeyAgreement
BY Invariance, PTL DEF IInv

\* `IdentityChanged` is only reported when another device answered.
THEOREM VerdictIsTrue == RendezvousSpec => []VerdictTrue
BY Invariance, PTL DEF IInv
=============================================================================
